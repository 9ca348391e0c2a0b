---------------------------- MODULE UpdaterProofs ----------------------------
(***************************************************************************)
(* Proofs about the update receiver, for every size of the flash, the      *)
(* pages and the frames and every set of payloads of the normal size.      *)
(***************************************************************************)
EXTENDS UpdaterProps, TLAPS

LEMMA Payload ==
  ASSUME NEW f \in Images
  PROVE  /\ f \in Seq(Byte) /\ Len(f) \in Nat /\ Len(f) > 1
         /\ \A n \in 1 .. Len(f) : f[n] \in Byte
  BY ImagesAssumption

LEMMA Sizes ==
  /\ Region \in Nat /\ Region > 0 /\ FrameLen \in Nat /\ FrameLen > 1
  /\ CkMod \in Nat /\ CkMod > 0 /\ NumSectors \in Nat /\ NumSectors > 0
  BY SizesAssumption

LEMMA Units ==
  /\ \A i : i \in Unit <=> i \in Nat /\ i < Region
  /\ Last \in Unit /\ Last = Region - 1 /\ 0 \in Unit
  /\ 0 \in Byte /\ Erased \in Byte /\ Marker \in Byte /\ Erased # Marker
  BY Sizes, FlashAssumption DEF Last, Unit, Byte

LEMMA Remainder ==
  ASSUME NEW a \in Nat
  PROVE  a % CkMod \in Byte
  BY Sizes DEF Byte

LEMMA EmptyPage == << >> \in Seq(Byte) /\ Len(<< >>) = 0
  OBVIOUS

LEMMA PosType ==
  ASSUME IInv
  PROVE  /\ Pos \in Nat /\ at \in Nat /\ done \in Nat /\ done <= FrameLen
         /\ Pos <= at /\ recvCnt \in Nat
  BY Sizes DEF IInv, TypeOK, TransferInv, Pos

(* A transfer of one session about to be finalized lost no frame.          *)
LEMMA FinalIsIntact ==
  ASSUME IInv, pc \in {"final", "invalidate", "reset"}, ~mixed
  PROVE  Intact /\ active
  <1>1. active /\ recvCnt = Len(img) - 1 /\ at <= Len(img)
    BY DEF IInv, TransferInv, SessionInv, Handling, Declared
  <1>2. recvCnt = Pos \/ recvCnt + FrameLen <= Pos
    BY <1>1 DEF IInv, SessionInv
  <1>3. Len(img) \in Nat
    BY Payload DEF IInv, TypeOK
  <1> QED
    BY <1>1, <1>2, <1>3, PosType, Sizes DEF Intact

(* What is about to be committed is the whole payload of the session.      *)
LEMMA FinalIsWhole ==
  ASSUME FullSizeImages, IInv, pc \in {"invalidate", "reset"}, ~mixed
  PROVE  Holds(spi, img)
  <1>1. Intact /\ active
    BY FinalIsIntact
  <1>2. recvCnt \in Nat /\ recvCnt >= Region
    BY <1>1, Payload, Sizes DEF IInv, TypeOK, TransferInv, SessionInv, FullSizeImages, FullSize
  <1>3. Len(page) = 0 /\ stageAddr \in Nat
    BY DEF IInv, TypeOK, TransferInv
  <1>4. stageAddr = Region
    BY <1>1, <1>2, <1>3, Sizes DEF IInv, StagingInv
  <1> QED
    BY <1>1, <1>4, Units DEF IInv, StagingInv, Holds

(* No frame is in hand between two calls of data().                        *)
LEMMA NoFrameType ==
  /\ NoFrame \in [FrameBytes -> Byte] /\ 0 \in 0 .. FrameLen
  BY Units, Sizes DEF NoFrame

(* A whole program is one to boot.                                         *)
LEMMA WholeToBoot ==
  ASSUME FullSizeImages, IInv, ~spoiled
  PROVE  WholeProgram
  BY DEF IInv, FlashInv, WholeProgram, FullSizeImages, FullSize

LEMMA InitInv == Init => IInv
  <1> SUFFICES ASSUME Init PROVE IInv
    OBVIOUS
  <1>0. PICK f \in Images : Len(f) >= Region /\ app = [i \in Unit |-> f[i + 1]]
    BY DEF Init
  <1>1. TypeOK
    <2>1. app \in [Unit -> Byte]
      BY <1>0, Payload, Units, Sizes
    <2>2. page \in Seq(Byte) /\ cksum \in Byte
      BY EmptyPage, Units DEF Init
    <2>3. sector \in 0 .. NumSectors - 1 /\ cp \in Unit
      BY Sizes, Units DEF Init
    <2>4. img \in Images /\ at \in Nat
      BY Payload DEF Init
    <2> QED
      BY <2>1, <2>2, <2>3, <2>4, NoFrameType DEF Init, TypeOK, Booting
  <1>2. TransferInv
    BY Payload DEF Init, TransferInv, Handling, Booting
  <1>3. StagingInv /\ SessionInv
    BY DEF Init, StagingInv, SessionInv
  <1>4. FlashInv
    <2>1. Chosen = app /\ Holds(app, f)
      BY <1>0 DEF Init, Chosen, Holds
    <2> QED
      BY <2>1 DEF Init, FlashInv, Running
  <1> QED
    BY <1>1, <1>2, <1>3, <1>4 DEF IInv
-----------------------------------------------------------------------------
(***************************************************************************)
(* Each action preserves the invariant.                                    *)
(***************************************************************************)

(* What the flashes and their history owe is kept by every step that       *)
(* leaves them alone and does not leave the bootloader or the reset.       *)
LEMMA FlashKept ==
  ASSUME IInv, UNCHANGED <<app, spoiled>>,
         app[Last] = Marker \/ spi' = spi,
         pc' = pc \/ (pc' \in Running \ {"reset"} /\ pc \in Running \ {"reset"}),
         pc # "copy"
  PROVE  FlashInv'
  <1>1. Chosen' = Chosen
    BY DEF Chosen
  <1>2. ~spoiled' => \E f \in Images : Holds(Chosen', f)
    BY <1>1 DEF IInv, FlashInv
  <1>3. pc' # "copy"
    BY DEF Running
  <1> QED
    BY <1>2, <1>3 DEF IInv, FlashInv, Holds, Running

(* The last unit copied completes the copy.                                *)
LEMMA LastCopied ==
  ASSUME IInv, BootCopy, cp = Last
  PROVE  \A i \in Unit : app'[i] = spi[i]
  <1>1. app \in [Unit -> Byte] /\ app' = [app EXCEPT ![Last] = spi[Last]]
    BY DEF BootCopy, IInv, TypeOK
  <1>2. \A i \in Unit : i < Last => app[i] = spi[i]
    BY DEF BootCopy, IInv, FlashInv
  <1>3. \A i \in Unit : i = Last \/ i < Last
    BY Units, Sizes
  <1> QED
    BY <1>1, <1>2, <1>3

LEMMA BootloaderStep ==
  ASSUME IInv, Bootloader
  PROVE  IInv'
  <1>0. pc \in Booting /\ ~active /\ pc # "erase" /\ ~Handling
    BY DEF Bootloader, BootChain, BootErase, BootCopy, Booting,
           IInv, TransferInv, Handling
  <1>1. UNCHANGED <<protected, spoiled, sector, receiver, frame, link, host, spi>>
    BY DEF Bootloader, BootChain, BootErase, BootCopy, flash
  <1>2. pc' \in {"idle", "copy", "boot"}
    BY <1>0 DEF Bootloader, BootChain, BootErase, BootCopy
  <1>3. TypeOK'
    <2>0. app \in [Unit -> Byte] /\ spi \in [Unit -> Byte] /\ cp \in Unit
      BY DEF IInv, TypeOK
    <2>1. app' \in [Unit -> Byte] /\ cp' \in Unit
      <3>1. CASE BootChain
        BY <2>0, <3>1 DEF BootChain, flash
      <3>2. CASE BootErase
        BY <2>0, <3>2, Units DEF BootErase
      <3>3. CASE BootCopy
        BY <2>0, <3>3, Units, Sizes DEF BootCopy
      <3> QED
        BY <3>1, <3>2, <3>3 DEF Bootloader
    <2> QED
      BY <1>1, <1>2, <2>1 DEF IInv, TypeOK, Booting, Running, receiver, frame, link, host
  <1>4. TransferInv' /\ SessionInv'
    BY <1>0, <1>1, <1>2 DEF IInv, TransferInv, SessionInv, Handling, Booting,
       receiver, frame, link, host
  <1>5. StagingInv'
    BY <1>0, <1>1, <1>2 DEF StagingInv, receiver
  <1>6. FlashInv'
    <2>1. CASE BootChain
      <3>1. Chosen' = Chosen /\ app' = app
        BY <2>1, <1>1 DEF BootChain, Chosen, flash
      <3> QED
        BY <2>1, <3>1, <1>1 DEF BootChain, FlashInv, IInv, Running, Holds
    <2>2. CASE BootErase
      <3>1. app'[Last] # Marker
        BY <2>2, Units DEF BootErase
      <3>2. Chosen' = Chosen
        BY <2>2, <3>1, <1>1 DEF BootErase, Chosen
      <3>3. ~spoiled' => \E f \in Images : Holds(Chosen', f)
        BY <3>2, <1>1 DEF IInv, FlashInv
      <3> QED
        BY <2>2, <3>1, <3>3, <1>1, Units DEF BootErase, FlashInv, Running
    <2>3. CASE BootCopy
      <3>1. app \in [Unit -> Byte] /\ cp \in Unit /\ app[Last] # Marker /\ Chosen = spi
        BY <2>3 DEF IInv, TypeOK, FlashInv, BootCopy, Chosen
      <3>2. CASE cp = Last
        <4>1. \A i \in Unit : app'[i] = spi[i]
          BY <2>3, <3>2, LastCopied
        <4>2. \A f \in Images : Holds(spi, f) => Holds(Chosen', f)
          BY <4>1, <1>1 DEF Holds, Chosen
        <4>3. ~spoiled' => \E f \in Images : Holds(Chosen', f)
          BY <4>2, <3>1, <1>1 DEF IInv, FlashInv
        <4> QED
          BY <2>3, <3>2, <4>3 DEF BootCopy, FlashInv, Running
      <3>3. CASE cp # Last
        <4>1. app'[Last] # Marker /\ (\A i \in Unit : i < cp + 1 => app'[i] = spi'[i])
          BY <2>3, <3>1, <3>3, <1>1, Units DEF BootCopy, FlashInv, IInv
        <4>2. Chosen' = Chosen
          BY <4>1, <3>1, <1>1 DEF Chosen
        <4>3. ~spoiled' => \E f \in Images : Holds(Chosen', f)
          BY <4>2, <1>1 DEF IInv, FlashInv
        <4> QED
          BY <2>3, <3>3, <4>1, <4>3 DEF BootCopy, FlashInv, Running
      <3> QED
        BY <3>2, <3>3
    <2> QED
      BY <2>1, <2>2, <2>3 DEF Bootloader
  <1> QED
    BY <1>3, <1>4, <1>5, <1>6 DEF IInv

(* start() on any frame that looks like one.                               *)
LEMMA BeginStep ==
  ASSUME IInv, NEW size \in Nat, Begin(size),
         img' \in Images, at' \in Nat, at' <= Len(img'),
         mixed' \in BOOLEAN, framed \/ mixed',
         ~mixed' => size = Declared(img') /\ at' = 0
  PROVE  IInv'
  <1>1. TypeOK'
    <2>1. page' \in Seq(Byte) /\ cksum' \in Byte
      BY EmptyPage, Units DEF Begin, CountersReset
    <2>2. sector' \in 0 .. NumSectors - 1
      BY Sizes DEF Begin
    <2> QED
      BY <2>1, <2>2 DEF Begin, CountersReset, Unprotect, IInv, TypeOK, Running, frame
  <1>2. TransferInv'
    BY DEF Begin, Unprotect, TransferInv, Handling, Booting
  <1>3. SessionInv'
    BY DEF Begin, CountersReset, SessionInv, Handling, Pos
  <1>4. StagingInv'
    BY LayoutAssumption, Units DEF Begin, CountersReset, StagingInv
  <1>5. FlashInv'
    BY FlashKept DEF Begin, Running
  <1> QED
    BY <1>1, <1>2, <1>3, <1>4, <1>5 DEF IInv

LEMMA StartStep ==
  ASSUME IInv, NEW f \in Images, Start(f)
  PROVE  IInv'
  <1>1. Declared(f) \in Nat /\ Len(f) \in Nat
    BY Payload DEF Declared
  <1>2. /\ framed /\ Begin(Declared(f)) /\ img' = f /\ at' = 0 /\ mixed' = FALSE
        /\ at' <= Len(img') /\ img' \in Images
    BY <1>1 DEF Start
  <1>3. Declared(f) = Declared(img')
    BY <1>2
  <1> QED
    BY <1>1, <1>2, <1>3, BeginStep

LEMMA StrayStartStep ==
  ASSUME IInv, NEW size \in StraySizes, StrayStart(size)
  PROVE  IInv'
  <1>1. size \in Nat
    BY StrayAssumption
  <1>2. img' \in Images /\ at' \in Nat /\ at' <= Len(img')
    BY Sizes DEF StrayStart, FrameSent, IInv, TypeOK
  <1> QED
    BY <1>1, <1>2, BeginStep DEF StrayStart

LEMMA StartUnheardStep ==
  ASSUME IInv, NEW f \in Images, StartUnheard(f)
  PROVE  IInv'
  <1>1. TypeOK'
    BY DEF StartUnheard, IInv, TypeOK, flash, receiver, frame
  <1>2. TransferInv'
    BY Payload DEF StartUnheard, AtRest, IInv, TypeOK, TransferInv, Handling, Booting,
                   flash, receiver, frame
  <1>3. SessionInv'
    BY DEF StartUnheard, SessionInv, receiver
  <1>4. StagingInv'
    BY DEF StartUnheard, StagingInv, IInv, Intact, flash, receiver
  <1>5. FlashInv'
    BY DEF StartUnheard, FlashInv, IInv, Holds, Chosen, flash
  <1> QED
    BY <1>1, <1>2, <1>3, <1>4, <1>5 DEF IInv

LEMMA EraseSectorStep ==
  ASSUME IInv, EraseSector
  PROVE  IInv'
  <1>0. active /\ ~protected /\ pc = "erase"
    BY DEF EraseSector, LastSector, IInv, StagingInv, TransferInv
  <1>1. TypeOK'
    BY <1>0, Sizes, Units DEF EraseSector, LastSector, IInv, TypeOK, Running,
       receiver, frame, link, host
  <1>2. TransferInv' /\ SessionInv'
    <2>1. Pos' = Pos /\ ~Handling /\ ~Handling'
      BY DEF EraseSector, LastSector, Pos, Handling, frame, host
    <2> QED
      BY <2>1 DEF EraseSector, LastSector, IInv, TransferInv, SessionInv, Booting,
         receiver, frame, link, host
  <1>3. StagingInv'
    <2>1. \A i \in Unit : spi'[i] = IF SectorOf[i] = sector THEN Erased ELSE spi[i]
      BY <1>0 DEF EraseSector
    <2>2. \A i \in Unit : SectorOf[i] <= sector => spi'[i] = Erased
      BY <2>1, LayoutAssumption DEF EraseSector, LastSector, IInv, StagingInv, TypeOK
    <2>3. CASE sector = NumSectors - 1
      <3>1. \A i \in Unit : spi'[i] = Erased
        BY <2>2, <2>3, LayoutAssumption, Sizes
      <3> QED
        BY <2>3, <3>1, Sizes, Units, EmptyPage
        DEF EraseSector, LastSector, IInv, StagingInv, receiver, host
    <2>4. CASE sector # NumSectors - 1
      BY <2>2, <2>4, LayoutAssumption, Sizes
      DEF EraseSector, LastSector, IInv, TypeOK, StagingInv, receiver, host
    <2> QED
      BY <2>3, <2>4
  <1>4. FlashInv'
    <2>1. app[Last] = Marker
      BY <1>0 DEF IInv, FlashInv, Running
    <2>2. UNCHANGED <<app, spoiled>> /\ pc' \in {"erase", "idle"}
      BY <1>0 DEF EraseSector, LastSector
    <2> QED
      BY <1>0, <2>1, <2>2, FlashKept DEF Running
  <1> QED
    BY <1>1, <1>2, <1>3, <1>4 DEF IInv

(* data() on any frame that looks like its own.                            *)
LEMMA HandleStep ==
  ASSUME IInv, NEW bytes \in [FrameBytes -> Byte], Handle(bytes),
         active /\ ~mixed => \A k \in FrameBytes : bytes[k] = img[at + k]
  PROVE  IInv'
  <1>0. /\ pc = "idle" /\ at \in Nat /\ recvCnt \in Nat /\ at' = at + FrameLen
        /\ UNCHANGED <<flash, sector, cp, receiver, link, img>> /\ Pos = at /\ ~Handling
    BY DEF Handle, FrameSent, IInv, TypeOK, Pos, Handling
  <1>1. TypeOK'
    <2>1. at' \in Nat /\ d' \in [FrameBytes -> Byte] /\ done' \in 0 .. FrameLen
      BY <1>0, Sizes DEF Handle, IInv, TypeOK, frame
    <2>2. pc' \in {"idle", "data"}
      BY <1>0 DEF Handle
    <2> QED
      BY <1>0, <2>1, <2>2 DEF IInv, TypeOK, Running, flash, receiver, link
  <1>2. CASE active
    <2>1. pc' = "data" /\ d' = bytes /\ done' = 0 /\ Handling' /\ Pos' = at
      BY <1>0, <1>2, Sizes DEF Handle, Handling, Pos
    <2>2. TransferInv'
      BY <1>0, <1>2, <2>1, Sizes DEF Handle, FrameSent, IInv, TransferInv, Booting,
         flash, receiver, link
    <2>3. SessionInv'
      <3>1. ~mixed => \A k \in FrameBytes : d'[k] = img'[at' - FrameLen + k]
        BY <1>0, <1>2, <2>1, Sizes DEF FrameBytes
      <3> QED
        BY <1>0, <1>2, <2>1, <3>1 DEF IInv, SessionInv, receiver, link
    <2>4. StagingInv'
      BY <1>0, <1>2, <2>1 DEF IInv, StagingInv, Intact, flash, receiver, link
    <2>5. FlashInv'
      BY <1>0, <2>1, FlashKept DEF Running, flash
    <2> QED
      BY <1>1, <2>2, <2>3, <2>4, <2>5 DEF IInv
  <1>3. CASE ~active
    <2>1. UNCHANGED <<pc, frame>>
      BY <1>3 DEF Handle
    <2>2. TransferInv' /\ SessionInv'
      BY <1>0, <1>3, <2>1, Sizes DEF Handle, FrameSent, IInv, TransferInv, SessionInv,
         Booting, Handling, flash, receiver, link, frame
    <2>3. StagingInv'
      BY <1>0, <1>3, <2>1 DEF StagingInv, receiver
    <2>4. FlashInv'
      BY <1>0, <2>1, FlashKept DEF flash
    <2> QED
      BY <1>1, <2>2, <2>3, <2>4, <1>3 DEF IInv
  <1> QED
    BY <1>2, <1>3

LEMMA DataFrameStep ==
  ASSUME IInv, DataFrame
  PROVE  IInv'
  <1> DEFINE bytes == [k \in FrameBytes |-> img[at + k]]
  <1>1. \A k \in FrameBytes : at + k \in 1 .. Len(img)
    BY Payload, Sizes DEF FrameBytes, DataFrame, Handle, FrameSent, IInv, TypeOK
  <1>2. bytes \in [FrameBytes -> Byte]
    BY <1>1, Payload DEF IInv, TypeOK
  <1>3. Handle(bytes) /\ \A k \in FrameBytes : bytes[k] = img[at + k]
    BY DEF DataFrame
  <1> HIDE DEF bytes
  <1> QED
    BY <1>2, <1>3, HandleStep

LEMMA StrayDataStep ==
  ASSUME IInv, NEW bytes \in StrayFrames, StrayData(bytes)
  PROVE  IInv'
  <1>1. bytes \in [FrameBytes -> Byte]
    BY StrayAssumption
  <1>2. active => mixed
    BY DEF StrayData, IInv, TransferInv
  <1> QED
    BY <1>1, <1>2, HandleStep DEF StrayData

LEMMA LoseFrameStep ==
  ASSUME IInv, LoseFrame
  PROVE  IInv'
  <1>0. /\ UNCHANGED <<flash, pc, sector, cp, receiver, frame, img>>
        /\ at \in Nat /\ recvCnt \in Nat /\ at' = at + FrameLen
        /\ framed' \in BOOLEAN /\ mixed \in BOOLEAN /\ active \in BOOLEAN
        /\ mixed' = (mixed \/ (active /\ ~framed'))
    BY DEF LoseFrame, FrameSent, IInv, TypeOK, receiver
  <1>1. ~Handling /\ ~Handling' /\ Pos = at /\ Pos' = at + FrameLen
    BY <1>0 DEF LoseFrame, AtRest, Booting, Pos, Handling
  <1>2. TypeOK'
    BY <1>0, Sizes DEF IInv, TypeOK, flash, receiver, frame
  <1>3. TransferInv'
    BY <1>0, <1>1 DEF LoseFrame, FrameSent, IInv, TransferInv, flash, receiver
  <1>4. active /\ ~mixed' => recvCnt + FrameLen <= Pos' /\ recvCnt # Pos'
    BY <1>0, <1>1, Sizes DEF IInv, SessionInv
  <1>5. SessionInv'
    BY <1>0, <1>1, <1>4 DEF IInv, SessionInv, receiver
  <1>6. StagingInv'
    BY <1>0, <1>4 DEF IInv, StagingInv, Intact, flash, receiver
  <1>7. FlashInv'
    BY <1>0 DEF IInv, FlashInv, Holds, Chosen, flash
  <1> QED
    BY <1>2, <1>3, <1>5, <1>6, <1>7 DEF IInv

LEMMA DataByteStep ==
  ASSUME IInv, DataByte
  PROVE  IInv'
  <1> DEFINE b == d[done + 1]
  <1>0. /\ pc = "data" /\ active /\ Handling /\ Pos = at + done - FrameLen
        /\ at \in Nat /\ at >= FrameLen /\ done \in Nat /\ done + 1 \in FrameBytes
        /\ recvCnt \in Nat /\ stageAddr \in Nat
        /\ page \in Seq(Byte) /\ Len(page) \in Nat
    BY Sizes DEF DataByte, IInv, TypeOK, TransferInv, Handling, Pos, FrameBytes
  <1>1. b \in Byte
    BY <1>0 DEF IInv, TypeOK
  <1>b. ~mixed => b = img[Pos + 1]
    <2>1. ~mixed => b = img[at - FrameLen + (done + 1)]
      BY <1>0 DEF IInv, SessionInv
    <2>2. at - FrameLen + (done + 1) = Pos + 1
      BY <1>0, Sizes
    <2> QED
      BY <2>1, <2>2
  <1>2. pc' \in {"program", "final", "data"}
    BY DEF DataByte, AfterByte
  <1>3. /\ Handling' /\ Pos' = Pos + 1 /\ recvCnt' = recvCnt + 1
        /\ mixed' = mixed /\ (Intact' <=> Intact)
    <2>1. Handling' /\ Pos' = Pos + 1 /\ recvCnt' = recvCnt + 1 /\ mixed' = mixed
      BY <1>0, <1>2, Sizes DEF DataByte, Handling, Pos, host, link
    <2>2. (recvCnt' = Pos') <=> (recvCnt = Pos)
      BY <2>1, <1>0, Sizes
    <2> QED
      BY <2>1, <2>2 DEF Intact
  <1>4. TypeOK'
    <2>1. cksum' \in Byte
      <3>1. cksum \in Byte /\ cksum \in Nat /\ b \in Nat /\ cksum + b \in Nat
        BY <1>1, Sizes DEF IInv, TypeOK, Byte
      <3> QED
        BY <3>1, Remainder DEF DataByte, Sum
    <2>2. page' \in Seq(Byte)
      BY <1>0, <1>1 DEF DataByte
    <2>3. done' \in 0 .. FrameLen
      BY <1>0, Sizes DEF DataByte
    <2> QED
      BY <2>1, <2>2, <2>3, <1>0, <1>2 DEF DataByte, IInv, TypeOK, Running, flash, link, host
  <1>5. TransferInv'
    <2>1. pc' = "final" => recvCnt' = declared'
      BY DEF DataByte, AfterByte
    <2> QED
      BY <2>1, <1>0, <1>2 DEF DataByte, IInv, TransferInv, Booting, flash, link, host
  <1>s. SessionInv'
    <2>1. ~mixed => recvCnt' = Pos' \/ recvCnt' + FrameLen <= Pos'
      BY <1>0, <1>3, Sizes DEF IInv, SessionInv
    <2> QED
      BY <2>1, <1>0, <1>3 DEF DataByte, IInv, SessionInv, host, link
  <1>6. StagingInv'
    <2>1. /\ stageAddr + Len(page) = IF recvCnt < Region THEN recvCnt ELSE Region
          /\ \A i \in Unit : i >= stageAddr => spi[i] = Erased
          /\ Intact => /\ \A i \in Unit : i < stageAddr => spi[i] = img[i + 1]
                       /\ \A j \in 1 .. Len(page) : page[j] = img[stageAddr + j]
      BY <1>0 DEF IInv, StagingInv
    <2>2. UNCHANGED <<spi, stageAddr, img, active>>
      BY DEF DataByte, flash, host
    <2>3. CASE recvCnt < Region
      <3>1. page' = Append(page, b) /\ stageAddr + Len(page) = recvCnt
        BY <2>1, <2>3 DEF DataByte, InRegion
      <3>2. Len(page') = Len(page) + 1
        BY <3>1, <1>0, <1>1
      <3>3. stageAddr' + Len(page') =
              IF recvCnt' < Region THEN recvCnt' ELSE Region
        BY <3>1, <3>2, <2>2, <2>3, <1>0, <1>3, Sizes
      <3>4. ASSUME Intact, NEW j \in 1 .. Len(page')
            PROVE  page'[j] = img[stageAddr + j]
        <4>1. CASE j \in 1 .. Len(page)
          <5>1. page'[j] = page[j]
            BY <4>1, <3>1, <1>0, <1>1
          <5> QED
            BY <5>1, <4>1, <3>4, <2>1
        <4>2. CASE j = Len(page) + 1
          <5>1. page'[j] = b
            BY <4>2, <3>1, <1>0, <1>1
          <5>2. stageAddr + j = Pos + 1 /\ ~mixed
            BY <4>2, <3>1, <3>4, <1>0 DEF Intact
          <5> QED
            BY <5>1, <5>2, <1>b
        <4> QED
          BY <4>1, <4>2, <3>2, <1>0
      <3> QED
        BY <3>3, <3>4, <2>1, <2>2, <1>2, <1>3 DEF StagingInv
    <2>4. CASE ~(recvCnt < Region)
      <3>1. page' = page
        BY <2>1, <2>4, <1>0, Sizes DEF DataByte, InRegion
      <3>2. stageAddr' + Len(page') =
              IF recvCnt' < Region THEN recvCnt' ELSE Region
        BY <3>1, <2>1, <2>2, <2>4, <1>0, <1>3, Sizes
      <3> QED
        BY <3>1, <3>2, <2>1, <2>2, <1>2, <1>3 DEF StagingInv
    <2> QED
      BY <2>3, <2>4
  <1>7. FlashInv'
    BY <1>0, <1>2, FlashKept DEF DataByte, Running, flash
  <1> QED
    BY <1>4, <1>5, <1>s, <1>6, <1>7 DEF IInv

LEMMA DataDoneStep ==
  ASSUME IInv, DataDone
  PROVE  IInv'
  <1>0. /\ pc = "data" /\ pc' = "idle" /\ Handling /\ ~Handling' /\ done = FrameLen
        /\ d' = NoFrame /\ done' = 0
        /\ UNCHANGED <<flash, receiver, link, host, sector, cp>>
    BY DEF DataDone, Return, Handling
  <1>1. Pos' = Pos
    BY <1>0, Sizes DEF Pos, IInv, TypeOK, host
  <1>2. TypeOK'
    BY <1>0, NoFrameType DEF IInv, TypeOK, Running, flash, receiver, link, host
  <1>3. TransferInv' /\ SessionInv'
    BY <1>0, <1>1 DEF IInv, TransferInv, SessionInv, Booting, flash, receiver, link, host
  <1>4. StagingInv'
    BY <1>0, <1>1 DEF IInv, StagingInv, Intact, flash, receiver, link, host
  <1>5. FlashInv'
    BY <1>0, FlashKept DEF Running, flash
  <1> QED
    BY <1>2, <1>3, <1>4, <1>5 DEF IInv

(* Programming the page onto erased flash stages exactly the page.         *)
LEMMA ProgrammedUnit ==
  ASSUME IInv, active, pc # "erase", NEW i \in Unit
  PROVE  /\ Programmed(i) \in Byte
         /\ Programmed(i) = IF i \in stageAddr .. stageAddr + Len(page) - 1
                              THEN page[i - stageAddr + 1] ELSE spi[i]
  <1>1. /\ ~protected /\ stageAddr \in Nat /\ page \in Seq(Byte)
        /\ Len(page) \in Nat /\ spi[i] \in Byte /\ i \in Nat
    BY Units DEF IInv, TypeOK, TransferInv
  <1>2. CASE i \in stageAddr .. stageAddr + Len(page) - 1
    <2>1. i >= stageAddr /\ i - stageAddr + 1 \in 1 .. Len(page)
      BY <1>1, <1>2
    <2>2. page[i - stageAddr + 1] \in Byte
      BY <1>1, <2>1
    <2>3. spi[i] = Erased
      BY <2>1 DEF IInv, StagingInv
    <2> QED
      BY <1>1, <1>2, <2>2, <2>3, FlashAssumption DEF Programmed
  <1>3. CASE i \notin stageAddr .. stageAddr + Len(page) - 1
    BY <1>1, <1>3 DEF Programmed
  <1> QED
    BY <1>2, <1>3

LEMMA StageFlushStep ==
  ASSUME IInv, StageFlush
  PROVE  IInv'
  <1>0. /\ pc \in {"program", "final"} /\ Handling /\ active /\ pc # "erase"
        /\ stageAddr \in Nat /\ recvCnt \in Nat
        /\ page \in Seq(Byte) /\ Len(page) \in Nat
    BY DEF StageFlush, IInv, TypeOK, TransferInv, Handling
  <1>1. pc' \in {"final", "data"} /\ Handling' /\ Pos' = Pos /\ (Intact' <=> Intact)
    BY <1>0 DEF StageFlush, AfterByte, Handling, Pos, Intact, frame, link, host
  <1>2. page' = << >> /\ Len(page') = 0 /\ stageAddr' = stageAddr + Len(page)
    BY EmptyPage DEF StageFlush
  <1>3. \A i \in Unit : spi'[i] = Programmed(i)
    BY DEF StageFlush
  <1>4. TypeOK'
    <2>1. spi' \in [Unit -> Byte]
      BY <1>0, ProgrammedUnit DEF StageFlush
    <2> QED
      BY <1>0, <1>1, <1>2, <2>1, EmptyPage DEF StageFlush, IInv, TypeOK, Running,
         frame, link, host
  <1>5. TransferInv' /\ SessionInv'
    <2>1. pc' = "final" => recvCnt' = declared'
      BY DEF StageFlush, AfterByte
    <2> QED
      BY <2>1, <1>0, <1>1 DEF StageFlush, IInv, TransferInv, SessionInv, Booting,
         frame, link, host
  <1>6. StagingInv'
    <2>1. /\ stageAddr' + Len(page') = IF recvCnt < Region THEN recvCnt ELSE Region
          /\ UNCHANGED <<recvCnt, img>>
      BY <1>0, <1>2 DEF StageFlush, IInv, StagingInv, host
    <2>2. ASSUME NEW i \in Unit, i >= stageAddr' PROVE spi'[i] = Erased
      <3>1. i \notin stageAddr .. stageAddr + Len(page) - 1 /\ i >= stageAddr
        BY <2>2, <1>0, <1>2, Units
      <3> QED
        BY <3>1, <1>0, <1>3, ProgrammedUnit DEF IInv, StagingInv
    <2>3. ASSUME Intact, NEW i \in Unit, i < stageAddr' PROVE spi'[i] = img[i + 1]
      <3>1. CASE i < stageAddr
        <4>1. i \notin stageAddr .. stageAddr + Len(page) - 1
          BY <3>1, <1>0, Units
        <4> QED
          BY <4>1, <3>1, <2>3, <1>0, <1>3, ProgrammedUnit DEF IInv, StagingInv
      <3>2. CASE ~(i < stageAddr)
        <4>1. /\ i \in stageAddr .. stageAddr + Len(page) - 1
              /\ i - stageAddr + 1 \in 1 .. Len(page)
              /\ stageAddr + (i - stageAddr + 1) = i + 1
          BY <3>2, <2>3, <1>0, <1>2, Units
        <4>2. page[i - stageAddr + 1] = img[stageAddr + (i - stageAddr + 1)]
          BY <4>1, <2>3, <1>0 DEF IInv, StagingInv
        <4> QED
          BY <4>1, <4>2, <1>0, <1>3, ProgrammedUnit
      <3> QED
        BY <3>1, <3>2
    <2> QED
      BY <2>1, <2>2, <2>3, <1>0, <1>1, <1>2 DEF StagingInv
  <1>7. FlashInv'
    <2>1. app[Last] = Marker
      BY <1>0 DEF IInv, FlashInv, Running
    <2> QED
      BY <1>0, <1>1, <2>1, FlashKept DEF StageFlush, Running
  <1> QED
    BY <1>4, <1>5, <1>6, <1>7 DEF IInv

LEMMA FinalizeStep ==
  ASSUME IInv, Finalize
  PROVE  IInv'
  <1>0. pc = "final" /\ active /\ page = << >> /\ Handling
    BY DEF Finalize, IInv, TransferInv, Handling
  <1>1. UNCHANGED <<flash, sector, cp, declared, recvCnt, stageAddr, page, cksum,
                    framed, host>>
    BY DEF Finalize
  <1>2. CASE cksum = 0
    <2>1. /\ pc' = "invalidate" /\ active' = active /\ mixed' = mixed
          /\ UNCHANGED frame /\ Handling' /\ Pos' = Pos
      BY <1>0, <1>1, <1>2 DEF Finalize, Handling, Pos, frame, host
    <2>2. TypeOK'
      BY <1>1, <2>1 DEF IInv, TypeOK, Running, flash, frame, host
    <2>3. TransferInv' /\ SessionInv'
      BY <1>0, <1>1, <2>1 DEF IInv, TransferInv, SessionInv, Booting, flash, frame, host
    <2>4. StagingInv'
      BY <1>0, <1>1, <2>1 DEF IInv, StagingInv, Intact, flash, host
    <2>5. FlashInv'
      BY <1>0, <1>1, <2>1, FlashKept DEF Running, flash
    <2> QED
      BY <2>2, <2>3, <2>4, <2>5 DEF IInv
  <1>3. CASE cksum # 0
    <2>1. /\ pc' = "idle" /\ active' = FALSE /\ mixed' = FALSE /\ ~Handling'
          /\ d' = NoFrame /\ done' = 0
      BY <1>3 DEF Finalize, Return, Handling
    <2>2. TypeOK'
      BY <1>1, <2>1, NoFrameType DEF IInv, TypeOK, Running, flash, host
    <2>3. TransferInv' /\ SessionInv'
      BY <1>0, <1>1, <2>1 DEF IInv, TransferInv, SessionInv, Booting, flash, host
    <2>4. StagingInv'
      BY <2>1 DEF StagingInv
    <2>5. FlashInv'
      BY <1>0, <1>1, <2>1, FlashKept DEF Running, flash
    <2> QED
      BY <2>2, <2>3, <2>4, <2>5 DEF IInv
  <1> QED
    BY <1>2, <1>3

LEMMA InvalidateStep ==
  ASSUME FullSizeImages, IInv, Invalidate
  PROVE  IInv'
  <1>0. /\ pc = "invalidate" /\ pc' = "reset" /\ Handling /\ Handling' /\ Pos' = Pos
        /\ spoiled' = mixed
        /\ UNCHANGED <<spi, protected, sector, cp, receiver, frame, link, host>>
    BY DEF Invalidate, Handling, Pos, frame, host
  <1>1. TypeOK'
    BY <1>0, Units DEF Invalidate, IInv, TypeOK, Running, receiver, frame, link, host
  <1>2. TransferInv' /\ SessionInv'
    BY <1>0 DEF IInv, TransferInv, SessionInv, Booting, receiver, frame, link, host
  <1>3. StagingInv'
    BY <1>0 DEF IInv, StagingInv, Intact, receiver, link, host
  <1>4. FlashInv'
    <2>1. app'[Last] # Marker /\ Chosen' = spi
      BY <1>0, Units, LayoutAssumption DEF Invalidate, Chosen
    <2>2. ~spoiled' => \E f \in Images : Holds(Chosen', f)
      BY <1>0, <2>1, FinalIsWhole DEF IInv, TypeOK
    <2> QED
      BY <1>0, <2>1, <2>2 DEF FlashInv, Running
  <1> QED
    BY <1>1, <1>2, <1>3, <1>4 DEF IInv

LEMMA ReceiverResetType ==
  ASSUME ReceiverReset, TypeOK
  PROVE  /\ active' = FALSE /\ declared' \in Nat /\ recvCnt' \in Nat
         /\ stageAddr' \in Nat /\ page' \in Seq(Byte) /\ cksum' \in Byte
         /\ d' \in [FrameBytes -> Byte] /\ done' \in 0 .. FrameLen
         /\ framed' = TRUE /\ mixed' = FALSE
         /\ sector' \in 0 .. NumSectors - 1 /\ cp' \in Unit
  <1>1. page' \in Seq(Byte) /\ cksum' \in Byte
    BY EmptyPage, Units DEF ReceiverReset
  <1>2. sector' \in 0 .. NumSectors - 1 /\ cp' \in Unit
    BY Sizes, Units DEF ReceiverReset
  <1> QED
    BY <1>1, <1>2, NoFrameType DEF ReceiverReset

(* A reset leaves the flashes as the bootloader can use them.              *)
LEMMA ResetStep ==
  ASSUME IInv, ReceiverReset, pc' = "boot", UNCHANGED host,
         spi' \in [Unit -> Byte], app' \in [Unit -> Byte], protected' \in BOOLEAN,
         spoiled' \in BOOLEAN,
         ~spoiled' => \E f \in Images : Holds(Chosen', f)
  PROVE  IInv'
  <1>1. TypeOK'
    BY ReceiverResetType DEF IInv, TypeOK, Booting, host
  <1>2. TransferInv' /\ SessionInv'
    BY DEF IInv, TransferInv, SessionInv, ReceiverReset, Handling, Booting, host
  <1>3. StagingInv'
    BY DEF StagingInv, ReceiverReset
  <1>4. FlashInv'
    BY DEF FlashInv, Running
  <1> QED
    BY <1>1, <1>2, <1>3, <1>4 DEF IInv

LEMMA ForceResetStep ==
  ASSUME IInv, ForceReset
  PROVE  IInv'
  <1>1. /\ UNCHANGED <<spi, app, protected, spoiled, host>>
        /\ ReceiverReset /\ pc' = "boot"
    BY DEF ForceReset, flash
  <1>2. ~spoiled' => \E f \in Images : Holds(Chosen', f)
    BY <1>1 DEF IInv, FlashInv, Holds, Chosen
  <1> QED
    BY <1>1, <1>2, ResetStep DEF IInv, TypeOK

(* A reset that leaves the installed program alone leaves the choice of    *)
(* the bootloader alone: the staging area is written only while the        *)
(* installed program has its marker.                                       *)
LEMMA RestartChoice ==
  ASSUME IInv, Restart, app' = app
  PROVE  Chosen' = Chosen
  <1>1. CASE app[Last] = Marker
    BY <1>1 DEF Chosen
  <1>2. CASE app[Last] # Marker
    <2>1. pc \notin {"erase", "program", "final"}
      BY <1>2 DEF IInv, FlashInv, Running
    <2>2. spi' = spi
      BY <2>1 DEF Restart, TornSpi
    <2> QED
      BY <2>2 DEF Chosen
  <1> QED
    BY <1>1, <1>2

LEMMA RestartStep ==
  ASSUME FullSizeImages, IInv, Restart
  PROVE  IInv'
  <1>1. spi' \in [Unit -> Byte]
    <2>1. CASE pc = "erase"
      BY <2>1, Units DEF Restart, TornSpi, IInv, TypeOK
    <2>2. CASE pc \in {"program", "final"}
      <3>1. active /\ pc # "erase"
        BY <2>2 DEF IInv, TransferInv, Handling
      <3>2. \A i \in Unit : Programmed(i) \in Byte
        BY <3>1, ProgrammedUnit
      <3> QED
        BY <2>2, <3>1, <3>2 DEF Restart, TornSpi, IInv, TypeOK
    <2>3. CASE pc \notin {"erase", "program", "final"}
      BY <2>3 DEF Restart, TornSpi, IInv, TypeOK
    <2> QED
      BY <2>1, <2>2, <2>3
  <1>2. app' \in [Unit -> Byte]
    BY Units DEF Restart, TornApp, IInv, TypeOK
  <1>3. protected' \in BOOLEAN /\ spoiled' \in BOOLEAN
    BY DEF Restart, IInv, TypeOK
  <1>4. ~spoiled' => \E f \in Images : Holds(Chosen', f)
    <2>1. CASE pc = "invalidate" /\ app'[Last] # Marker
      <3>1. Chosen' = spi /\ spoiled' = mixed
        BY <2>1 DEF Restart, TornSpi, Chosen
      <3> QED
        BY <2>1, <3>1, FinalIsWhole DEF IInv, TypeOK
    <2>2. CASE ~(pc = "invalidate" /\ app'[Last] # Marker) /\ ~spoiled'
      <3>1. app' = app /\ ~spoiled
        BY <2>2 DEF Restart
      <3>2. Chosen' = Chosen
        BY <2>2, <3>1, RestartChoice
      <3> QED
        BY <3>1, <3>2 DEF IInv, FlashInv
    <2> QED
      BY <2>1, <2>2
  <1> QED
    BY <1>1, <1>2, <1>3, <1>4, ResetStep DEF Restart
-----------------------------------------------------------------------------
(***************************************************************************)
(* The theorems.                                                           *)
(***************************************************************************)

LEMMA NextInv ==
  ASSUME FullSizeImages, IInv, [Next]_vars
  PROVE  IInv'
  <1>1. CASE Bootloader
    BY <1>1, BootloaderStep
  <1>2. CASE Receiver
    BY <1>2, EraseSectorStep, DataByteStep, DataDoneStep, StageFlushStep, FinalizeStep,
       InvalidateStep, ForceResetStep DEF Receiver
  <1>3. CASE Host
    BY <1>3, DataFrameStep, LoseFrameStep, StartStep, StartUnheardStep DEF Host
  <1>6. CASE OutOfStep
    BY <1>6, StrayDataStep, StrayStartStep DEF OutOfStep
  <1>4. CASE Restart
    BY <1>4, RestartStep
  <1>5. CASE UNCHANGED vars
    BY <1>5 DEF vars, flash, receiver, frame, link, host, IInv, TypeOK, TransferInv,
       SessionInv, StagingInv, FlashInv, Handling, Pos, Intact, Holds, Chosen
  <1> QED
    BY <1>1, <1>2, <1>3, <1>4, <1>5, <1>6 DEF Next

(* The inductive invariant holds in every reachable state, if every        *)
(* payload a host sends has the normal size.                               *)
THEOREM Invariance == ASSUME FullSizeImages PROVE Spec => []IInv
  <1>1. Init => IInv
    BY InitInv
  <1>2. IInv /\ [Next]_vars => IInv'
    BY NextInv
  <1> QED
    BY <1>1, <1>2, PTL DEF Spec

(* Every variable of the receiver, the flashes and the host keeps its type *)
(* (updater.c): in particular no byte outside the payload is ever read.    *)
THEOREM TypeCorrect == ASSUME FullSizeImages PROVE Spec => []TypeOK
  <1>1. IInv => TypeOK
    BY DEF IInv
  <1> QED
    BY <1>1, Invariance, PTL

(* Whatever is lost, abandoned or reset, the bootloader finds a whole      *)
(* program with its marker, unless a mixture was committed or the erase of *)
(* the installed program was cut short (do_finalize() against the          *)
(* bootloader).                                                            *)
THEOREM NeverBricked == ASSUME FullSizeImages PROVE Spec => []AlwaysBootable
  <1>1. IInv => AlwaysBootable
    BY WholeToBoot DEF AlwaysBootable
  <1> QED
    BY <1>1, Invariance, PTL

(* do_finalize() erases the internal marker only over the whole payload of *)
(* the session in progress, if no start and no part of a frame was lost    *)
(* while the transfer went on.                                             *)
THEOREM CommitIsTheSession == ASSUME FullSizeImages PROVE Spec => []CommitsWhatWasSent
  <1>1. IInv => CommitsWhatWasSent
    BY FinalIsWhole DEF CommitsWhatWasSent
  <1> QED
    BY <1>1, Invariance, PTL

(* data() and stage_flush() put each byte of an unbroken transfer at its   *)
(* place, and never program a unit twice.                                  *)
THEOREM StagingIsExact == ASSUME FullSizeImages PROVE Spec => []StagesWhatIsReceived
  <1>1. IInv => StagesWhatIsReceived
    BY DEF IInv, StagingInv, StagesWhatIsReceived, Staged
  <1> QED
    BY <1>1, Invariance, PTL

LEMMA InitRefines == Init => Promise!Init
  <1> SUFFICES ASSUME Init PROVE Promise!Init
    OBVIOUS
  <1>1. PICK f \in Images : app = [i \in Unit |-> f[i + 1]]
    BY DEF Init
  <1>2. NextProgram = ProgramOf(f)
    BY <1>1 DEF Init, NextProgram, Chosen, ProgramOf
  <1>3. ProgramOf(img) \in {ProgramOf(g) : g \in Images}
    BY DEF Init
  <1> QED
    BY <1>2, <1>3 DEF Promise!Init

(* An area of the flash that holds a payload is that program.              *)
LEMMA HoldsProgram ==
  ASSUME NEW area \in [Unit -> Byte], NEW f, Holds(area, f)
  PROVE  area = ProgramOf(f)
  BY DEF Holds, ProgramOf

(* Giving up the installed program for good: the staged one replaces it,   *)
(* or what was staged is a mixture.                                        *)
LEMMA CommitRefines ==
  ASSUME FullSizeImages, IInv, pc = "invalidate", spi' = spi, img' = img,
         app'[Last] # Marker, spoiled' = mixed
  PROVE  Promise!Next
  <1>1. ProgramOf(img)' = ProgramOf(img)
    BY DEF ProgramOf
  <1>2. CASE mixed
    BY <1>1, <1>2 DEF Promise!Next, Promise!Accident, NextProgram
  <1>3. CASE ~mixed
    <2>1. spi = ProgramOf(img)
      BY <1>3, FinalIsWhole, HoldsProgram DEF IInv, TypeOK
    <2>2. NextProgram' = ProgramOf(img)
      BY <2>1, <1>3 DEF NextProgram, Chosen
    <2> QED
      BY <1>1, <2>2 DEF Promise!Next, Promise!Install
  <1> QED
    BY <1>2, <1>3

LEMMA StepRefines ==
  ASSUME FullSizeImages, IInv, [Next]_vars
  PROVE  [Promise!Next]_(Promise!vars)
  <1>1. ASSUME spoiled' = spoiled, Chosen' = Chosen, img' = img
        PROVE  UNCHANGED Promise!vars
    BY <1>1 DEF NextProgram, ProgramOf, Promise!vars
  <1>2. ASSUME app' = app, app[Last] = Marker \/ spi' = spi PROVE Chosen' = Chosen
    BY <1>2 DEF Chosen
  <1>5. CASE Bootloader
    <2>1. img' = img /\ spi' = spi /\ spoiled' = spoiled
      BY <1>5 DEF Bootloader, BootChain, BootErase, BootCopy, flash, host
    <2>2. Chosen' = Chosen
      <3>1. CASE BootChain
        BY <3>1, <2>1, <1>2 DEF BootChain, flash
      <3>2. CASE BootErase
        BY <3>2, <2>1, Units DEF BootErase, Chosen
      <3>3. CASE BootCopy /\ cp # Last
        BY <3>3, <2>1, Units DEF BootCopy, IInv, TypeOK, FlashInv, Chosen
      <3>4. CASE BootCopy /\ cp = Last
        <4>1. app[Last] # Marker /\ app' \in [Unit -> Byte] /\ spi \in [Unit -> Byte]
          BY <3>4, Units DEF BootCopy, IInv, TypeOK, FlashInv
        <4>2. \A i \in Unit : app'[i] = spi[i]
          BY <3>4, LastCopied
        <4>3. app' = spi
          BY <4>1, <4>2
        <4> QED
          BY <4>1, <4>3, <2>1 DEF Chosen
      <3> QED
        BY <1>5, <3>1, <3>2, <3>3, <3>4 DEF Bootloader
    <2> QED
      BY <2>1, <2>2, <1>1
  <1>6. CASE Invalidate
    <2>1. app'[Last] # Marker
      BY <1>6, Units, LayoutAssumption DEF Invalidate
    <2> QED
      BY <1>6, <2>1, CommitRefines DEF Invalidate, host
  <1>7. CASE EraseSector \/ DataByte \/ DataDone \/ StageFlush \/ Finalize
    <2>1. app' = app /\ spoiled' = spoiled /\ img' = img /\ app[Last] = Marker
      BY <1>7 DEF EraseSector, DataByte, DataDone, StageFlush, Finalize, flash, host,
         IInv, FlashInv, Running
    <2> QED
      BY <2>1, <1>1, <1>2
  <1>8. CASE ForceReset \/ DataFrame \/ LoseFrame \/ OutOfStep
    <2>1. app' = app /\ spi' = spi /\ spoiled' = spoiled /\ img' = img
      BY <1>8 DEF ForceReset, DataFrame, LoseFrame, OutOfStep, StrayData, StrayStart, Begin,
         Handle, FrameSent, flash, host
    <2> QED
      BY <2>1, <1>1, <1>2
  <1>9. CASE \E f \in Images : Start(f) \/ StartUnheard(f)
    <2>1. PICK f \in Images : Start(f) \/ StartUnheard(f)
      BY <1>9
    <2>2. app' = app /\ spi' = spi /\ spoiled' = spoiled /\ img' = f
      BY <2>1 DEF Start, Begin, StartUnheard, flash
    <2>3. ProgramOf(img)' = ProgramOf(f)
      BY <2>2 DEF ProgramOf
    <2>4. NextProgram' = NextProgram
      BY <2>2, <1>2 DEF NextProgram
    <2> QED
      BY <2>3, <2>4 DEF Promise!Next, Promise!Offer
  <1>10. CASE Restart
    <2>1. img' = img
      BY <1>10 DEF Restart, host
    <2>2. CASE pc = "invalidate" /\ app'[Last] # Marker
      <3>1. spi' = spi /\ spoiled' = mixed
        BY <1>10, <2>2 DEF Restart, TornSpi
      <3> QED
        BY <2>1, <2>2, <3>1, CommitRefines
    <2>3. CASE ~(pc = "invalidate" /\ app'[Last] # Marker) /\ app' = app
      <3>1. spoiled' = spoiled
        BY <1>10, <2>3 DEF Restart, IInv, TypeOK
      <3> QED
        BY <1>10, <2>1, <2>3, <3>1, <1>1, RestartChoice
    <2>4. CASE ~(pc = "invalidate" /\ app'[Last] # Marker) /\ app' # app
      <3>1. spoiled'
        BY <1>10, <2>4 DEF Restart
      <3>2. ProgramOf(img)' = ProgramOf(img)
        BY <2>1 DEF ProgramOf
      <3> QED
        BY <3>1, <3>2 DEF Promise!Next, Promise!Accident, NextProgram
    <2> QED
      BY <2>2, <2>3, <2>4
  <1>11. CASE UNCHANGED vars
    <2>1. app' = app /\ spi' = spi /\ spoiled' = spoiled /\ img' = img
      BY <1>11 DEF vars, flash, host
    <2> QED
      BY <2>1, <1>1, <1>2
  <1> QED
    BY <1>5, <1>6, <1>7, <1>8, <1>9, <1>10, <1>11 DEF Next, Receiver, Host

(* The receiver, the bootloader and the host together implement the        *)
(* abstract update: what the next power-up runs, to the last unit, changes *)
(* only in one step to the program the host is offering, or by one of the  *)
(* two accidents.                                                          *)
THEOREM UpdateRefines == ASSUME FullSizeImages PROVE Spec => UpdateIsAtomic
  <1>1. Init => Promise!Init
    BY InitRefines
  <1>2. IInv /\ [Next]_vars => [Promise!Next]_(Promise!vars)
    BY StepRefines
  <1> QED
    BY <1>1, <1>2, Invariance, PTL DEF Spec, UpdateIsAtomic, Promise!Spec
=============================================================================
