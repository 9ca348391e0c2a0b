-------------------------------- MODULE Loader --------------------------------
(***************************************************************************)
(* Reflashing the radio (src/em250.c and the reflash of src/main.c): the   *)
(* remote calls the EM250's bootloader, uploads an image by XMODEM, calls  *)
(* it again and runs the image.  The radio answers late, wrongly or not at *)
(* all; it is external, an XMODEM receiver behind a menu.                  *)
(*                                                                         *)
(* main reflashes in its loop, after zbnet_start(): the radio thread then  *)
(* has the same port, at a speed of its own, and nothing keeps its AT      *)
(* exchanges (AtLink) out of the menu and of the upload.  The reflash is   *)
(* switched off in the build as it is (EM250_FLASH is 0).                  *)
(*                                                                         *)
(* A block is its place in the image.                                      *)
(***************************************************************************)
EXTENDS Naturals, Sequences, SequencesExt

CONSTANTS
  Total,        \* blocks of the image
  NumMod,       \* block numbers wrap here: a byte
  Attempts,     \* of em250_bl_enter()
  Rounds,       \* ... and CR+LF in each
  AskTries,     \* characters looked at for the 'C'
  Tries,        \* times a block is sent
  EotTries,     \* times the end is sent
  MaxAir        \* bound: characters the radio says unasked, at once

ASSUME LoaderAssumption ==
  /\ {Total, Attempts, Rounds, AskTries, Tries, EotTries} \subseteq Nat \ {0}
  /\ NumMod \in Nat /\ NumMod > 2 /\ MaxAir \in Nat

Whole == [i \in 1 .. Total |-> i]
Modes == {"app", "menu", "upload"}

VARIABLES
  mode,         \* what the radio does
  image,        \* the blocks it has; Whole at first, its old program
  prompted,     \* it is to print its banner
  air,          \* its characters on the way,
  rq,           \* ... and in the receive ring
  raw,          \* the raw capture holds a banner
  at,           \* what the remote does
  again,        \* the image has been sent: it calls for the second time
  tries,        \* attempts of this kind so far
  round,
  b,            \* the block being sent
  late,         \* a block was sent while an earlier character was to be read
  broken,       \* a block or the end was not taken as it was sent
  shared        \* the port has been used for an AT exchange since the call

radio == <<mode, image, prompted>>
loop  == <<at, again, tries, round, b>>
loaderVars == <<radio, air, rq, raw, loop, late, broken, shared>>

LoaderInit ==
  /\ mode \in {"app", "menu"} /\ image = Whole /\ prompted = FALSE
  /\ air = <<>> /\ rq = <<>> /\ raw \in BOOLEAN
  /\ at = "call" /\ again = FALSE /\ tries = 0 /\ round = 0 /\ b = 1
  /\ late = FALSE /\ broken = FALSE /\ shared = FALSE

Move(next, t) == at' = next /\ tries' = t
-----------------------------------------------------------------------------
(* The radio and the line. *)
Banner ==
  /\ mode = "menu" /\ prompted
  /\ prompted' = FALSE /\ raw' = TRUE
  /\ UNCHANGED <<mode, image, air, rq, loop, late, broken, shared>>

(* The menu's text while the remote asks, and 'C' until a block is taken. *)
Says(c) ==
  /\ Len(rq \o air) < MaxAir
  /\ \/ c = "other" /\ at = "ask"
     \/ c = "C" /\ mode = "upload" /\ image = <<>>
  /\ air' = Append(air, c)
  /\ UNCHANGED <<radio, rq, raw, loop, late, broken, shared>>

Arrives ==
  /\ air # <<>>
  /\ rq' = Append(rq, Head(air)) /\ air' = Tail(air)
  /\ UNCHANGED <<radio, raw, loop, late, broken, shared>>

Garbled ==
  /\ air # <<>>
  /\ air' \in {Tail(air), <<"other">> \o Tail(air)}
  /\ UNCHANGED <<radio, rq, raw, loop, late, broken, shared>>

GivesUp ==
  /\ mode = "upload"
  /\ mode' = "menu" /\ broken' = TRUE
  /\ UNCHANGED <<image, prompted, air, rq, raw, loop, late, shared>>

(* em250_at() in another thread: it empties the ring, and its text, or     *)
(* what is left of it at the wrong speed, is a choice from the menu, or    *)
(* bytes in the middle of the upload.                                      *)
Chooses ==
  \/ UNCHANGED radio
  \/ mode = "menu" /\ prompted' = TRUE /\ UNCHANGED <<mode, image>>
  \/ mode = "menu" /\ mode' = "upload" /\ image' = <<>> /\ prompted' = FALSE
  \/ mode = "menu" /\ image = Whole /\ mode' = "app" /\ UNCHANGED <<image, prompted>>
  \/ mode = "upload" /\ mode' = "menu" /\ UNCHANGED <<image, prompted>>
AtCommand ==
  /\ at # "over"
  /\ shared' = TRUE
  /\ Chooses
  /\ rq' = <<>>
  /\ air' \in {air} \cup (IF Len(air) < MaxAir THEN {Append(air, "other")} ELSE {})
  /\ broken' \in {broken, broken \/ mode = "upload"}
  /\ UNCHANGED <<raw, loop, late>>

(* A block reaches the receiver: the next one, the last one again, another *)
(* one, or none that can be read.                                          *)
Number(n) == n % NumMod
Repeated == image # <<>> /\ Number(b) = Number(Len(image))
Answers(c) == air' = Append(air, c)
TakesBlock ==
  IF mode # "upload" THEN UNCHANGED <<mode, image, air, broken>>
  ELSE
  \/ /\ Number(b) = Number(Len(image) + 1)
     /\ image' = Append(image, b) /\ Answers("ACK") /\ UNCHANGED <<mode, broken>>
  \/ /\ Repeated
     /\ Answers("ACK") /\ UNCHANGED <<mode, image, broken>>
  \/ /\ Number(b) # Number(Len(image) + 1) /\ ~Repeated
     /\ Answers("CAN") /\ mode' = "menu" /\ broken' = TRUE /\ UNCHANGED image
  \/ /\ Answers("other") \/ UNCHANGED air
     /\ broken' = TRUE /\ UNCHANGED <<mode, image>>
TakesEnd ==
  IF mode # "upload" THEN UNCHANGED <<mode, air>>
  ELSE \/ Answers("ACK") /\ mode' = "menu"
       \/ Answers("other") /\ UNCHANGED mode
       \/ UNCHANGED <<mode, air>>
-----------------------------------------------------------------------------
(* em250_bl_enter(): the two frames, then CR+LF and a look at what came.   *)
CaptureKept == raw                        \* mutant: zbx_raw_reset() missing
CaptureReset == FALSE

Call ==
  /\ at = "call"
  /\ raw' = CaptureReset
  /\ mode' \in {mode, "menu"}
  /\ round' = 0 /\ Move("prompt", tries)
  /\ shared' = FALSE
  /\ UNCHANGED <<image, prompted, air, rq, again, b, late, broken>>

Prompt ==
  /\ at = "prompt"
  /\ raw' = CaptureReset
  /\ prompted' \in {prompted, mode = "menu"}
  /\ Move("look", tries)
  /\ UNCHANGED <<mode, image, air, rq, again, round, b, late, broken, shared>>

Look ==
  /\ at = "look"
  /\ round' = IF raw THEN 0 ELSE round + 1
  /\ IF raw THEN Move("entered", 0)
     ELSE Move(IF round' < Rounds THEN "prompt" ELSE "reset", tries)
  /\ UNCHANGED <<radio, air, rq, raw, again, b, late, broken, shared>>

(* zbx_uart_init(); a radio without a whole image stays in its menu.       *)
Reset ==
  /\ at \in {"reset", "recover"}
  /\ mode' = IF image = Whole THEN "app" ELSE "menu"
  /\ prompted' = FALSE
  /\ LET more == at = "reset" /\ tries + 1 < Attempts
     IN  Move(CASE more -> "call"
                [] ~more /\ at = "reset" /\ again -> "recover"
                [] OTHER -> "over", tries + 1)
  /\ UNCHANGED <<image, air, rq, raw, again, round, b, late, broken, shared>>

(* em250_bl_info(), and what comes next. *)
Entered ==
  /\ at = "entered"
  /\ raw' = CaptureReset
  /\ Move(IF again THEN "run" ELSE "start", 0)
  /\ UNCHANGED <<radio, air, rq, again, round, b, late, broken, shared>>

(* em250_bl_run() *)
Run ==
  /\ at = "run"
  /\ mode' \in {mode} \cup (IF image = Whole THEN {"app"} ELSE {})
  /\ Move("over", 0)
  /\ UNCHANGED <<image, prompted, air, rq, raw, again, round, b, late, broken, shared>>
-----------------------------------------------------------------------------
(* em250_flash_ebl() *)
Start ==
  /\ at = "start"
  /\ rq' = <<>>
  /\ \/ /\ mode = "menu" /\ mode' = "upload"
        /\ image' = <<>> /\ prompted' = FALSE
     \/ UNCHANGED radio
  /\ b' = 1 /\ Move("ask", 0)
  /\ UNCHANGED <<air, raw, again, round, late, broken, shared>>

(* zbx_getc(): the oldest character, or none in time.                      *)
Got(c) == c = IF rq = <<>> THEN "none" ELSE Head(rq)
Taken == IF rq = <<>> THEN rq ELSE Tail(rq)

(* The upload is over.  The reflash reads the ring no more, so what is     *)
(* left of its characters, and its history, are forgotten.                 *)
Leaves ==
  /\ again' = TRUE /\ Move("call", 0)
  /\ air' = <<>> /\ rq' = <<>> /\ late' = FALSE /\ broken' = FALSE
Stays == UNCHANGED <<again, air, late, broken, shared>>

AskAgain(t) == 0                          \* mutant: only silence is counted
Asked(t) == t + 1
Ask(c) ==
  /\ at = "ask" /\ Got(c)
  /\ IF c # "C" /\ Asked(tries) = AskTries THEN Leaves
     ELSE /\ rq' = Taken /\ Stays
          /\ IF c = "C" THEN Move("send", 0) ELSE Move("ask", Asked(tries))
  /\ UNCHANGED <<radio, raw, round, b, shared>>

Outstanding == late' = (late \/ rq # <<>> \/ air # <<>>)
SendBlock ==
  /\ at = "send"
  /\ TakesBlock /\ Outstanding
  /\ Move("answer", tries + 1)
  /\ UNCHANGED <<prompted, rq, raw, again, round, b, shared>>

AcceptsAny(c) == c \in {"ACK", "other"}     \* mutant: any answer will do
Accepts(c) == c = "ACK"
Answer(c) ==
  /\ at = "answer" /\ Got(c)
  /\ IF ~Accepts(c) /\ (c = "CAN" \/ tries = Tries) THEN Leaves /\ UNCHANGED b
     ELSE /\ rq' = Taken /\ Stays
          /\ b' = IF Accepts(c) THEN b + 1 ELSE b
          /\ IF Accepts(c) THEN Move(IF b = Total THEN "end" ELSE "send", 0)
                           ELSE Move("send", tries)
  /\ UNCHANGED <<radio, raw, round, shared>>

SendEnd ==
  /\ at = "end"
  /\ TakesEnd /\ Outstanding
  /\ Move("ended", tries + 1)
  /\ UNCHANGED <<image, prompted, rq, raw, again, round, b, broken, shared>>

Ended(c) ==
  /\ at = "ended" /\ Got(c)
  /\ IF c # "ACK" /\ tries = EotTries THEN Leaves
     ELSE /\ rq' = Taken /\ Stays
          /\ IF c = "ACK" THEN Move("done", 0) ELSE Move("end", tries)
  /\ UNCHANGED <<radio, raw, round, b, shared>>

(* "EM250: upload OK", and the second call. *)
Done ==
  /\ at = "done" /\ Leaves
  /\ UNCHANGED <<radio, raw, round, b, shared>>

Chars == {"C", "ACK", "CAN", "other", "none"}
Remote ==
  \/ Call \/ Prompt \/ Look \/ Reset \/ Entered \/ Run \/ Start \/ SendBlock
  \/ SendEnd \/ Done
  \/ \E c \in Chars : Ask(c) \/ Answer(c) \/ Ended(c)

LoaderNext ==
  \/ Banner \/ Arrives \/ Garbled \/ GivesUp \/ AtCommand
  \/ \E c \in {"C", "other"} : Says(c)
  \/ Remote

LoaderSpec == LoaderInit /\ [][LoaderNext]_loaderVars

(* Every wait of the main loop has a limit. *)
LoaderFairSpec == LoaderSpec /\ WF_loaderVars(Remote)
-----------------------------------------------------------------------------
(* "Verify rather than assume": when em250_bl_enter() says so the radio is *)
(* in its bootloader, whatever it printed before a reset, if nobody else   *)
(* has had the port since the call.                                        *)
EntryVerified == at = "entered" /\ ~shared => mode # "app"

(* An upload reported as OK has put every block in its place, if nobody    *)
(* else had the port, unless both a character came late, so that it was    *)
(* read as the answer to what was sent next, and a block was lost or       *)
(* damaged (em250_flash_ebl()).                                            *)
UploadComplete == at = "done" /\ ~shared /\ ~(late /\ broken) => image = Whole

(* However the radio behaves, and whoever else uses the port, the reflash  *)
(* comes to an end.                                                        *)
ReflashEnds == <>(at = "over")

(* The first two, whoever else has the port.  "radio runs on its own       *)
(* thread from here; main never touches USART3 again" (main.c:310), but    *)
(* the reflash comes after it, and an AT exchange breaks both.             *)
NobodyElse ==
  /\ at = "entered" => mode # "app"
  /\ at = "done" /\ ~(late /\ broken) => image = Whole
=============================================================================
