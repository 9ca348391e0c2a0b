------------------------------- MODULE CdcPort -------------------------------
(***************************************************************************)
(* The USB port of src/updater.c.  Inwards: cdc_isr() moves packets to a   *)
(* ring and masks itself when the ring is nearly full, cdc_read() cuts the *)
(* stream into frames by counting and re-arms the interrupt.  Outwards:    *)
(* lines that three threads write a character at a time.                   *)
(*                                                                         *)
(* A byte of the stream is its place in the frame the host built.          *)
(***************************************************************************)
EXTENDS Naturals, Sequences, FiniteSetsExt

CONSTANTS
  FrameLen,     \* sizeof frame
  Packet,       \* sizeof buf of cdc_isr(), a USB packet
  RingSize,     \* rx_rb
  main, receiver, radio,
  Flash,        \* 0x2000000, the size of the serial flash
  Window,       \* sizeof buf of the search
  Sig,          \* sizeof sig
  Stride,       \* 0x400000, the search reports every so much
  Marks,        \* where the signature begins
  MaxLines      \* bound: the lines of one SPI read

ASSUME PortAssumption ==
  /\ FrameLen \in Nat \ {0} /\ Packet \in Nat \ {0}
  /\ RingSize \in Nat /\ RingSize >= Packet
ASSUME SearchAssumption ==
  /\ Sig \in Nat \ {0} /\ Window \in Nat /\ Window > Sig
  /\ Flash \in Nat /\ Flash >= Window
  /\ Stride \in Nat \ {0} /\ MaxLines \in Nat
  /\ Marks \subseteq 0 .. Flash - 1
ASSUME ThreadAssumption ==
  main # receiver /\ receiver # radio /\ radio # main

Threads == {main, receiver, radio}
Ahead(t) == CASE t = main -> {} [] t = receiver -> {main}
              [] OTHER -> {main, receiver}

VARIABLES
  place,        \* of the byte the host sends next
  packet,       \* the bytes that wait at the endpoint
  ring,         \* the bytes in rx_rb
  armed,        \* the receive interrupt is enabled
  taken,        \* the bytes cdc_read() has: got
  read,         \* cdc_read() is to fetch, or to re-arm
  cmd,          \* the frame in hand: its command, and what is left of it
  active,       \* a transfer is under way
  at,           \* what each thread does in updater_emit()
  lock,         \* the owner of emit_lock, as a set
  line,         \* the writers of the characters since the last end of line
  late          \* the lines each thread has begun since the transfer began

host  == <<place, packet>>
input == <<ring, armed, taken, read>>
lines == <<at, lock, line>>
vars  == <<host, input, cmd, active, lines, late>>

Idle == [op |-> "none"]
Init ==
  /\ place = 0 /\ packet = <<>> /\ ring = <<>> /\ armed = TRUE
  /\ taken = <<>> /\ read = "fetch" /\ cmd = Idle /\ active = FALSE
  /\ at = [t \in Threads |-> "idle"] /\ lock = {} /\ line = {}
  /\ late = [t \in Threads |-> 0]
-----------------------------------------------------------------------------
(* The stream inwards. *)
Sends(n) ==
  /\ packet = <<>>
  /\ packet' = [i \in 1 .. n |-> (place + i - 1) % FrameLen]
  /\ place' = (place + n) % FrameLen
  /\ UNCHANGED <<input, cmd, active, lines, late>>

CrowdedIfFull == Len(ring) = RingSize     \* mutant: the packet may not fit
Crowded == RingSize - Len(ring) < Packet
Fitting == SubSeq(packet, 1, Min({Len(packet), RingSize - Len(ring)}))
CdcIsr ==
  /\ armed /\ packet # <<>>
  /\ IF Crowded
       THEN armed' = FALSE /\ UNCHANGED <<ring, packet>>
       ELSE /\ ring' = ring \o Fitting
            /\ packet' = <<>> /\ UNCHANGED armed
  /\ UNCHANGED <<place, taken, read, cmd, active, lines, late>>

Reading == cmd = Idle /\ Len(taken) < FrameLen
Fetch ==
  /\ Reading /\ read = "fetch"
  /\ LET k == Min({Len(ring), FrameLen - Len(taken)})
     IN  /\ taken' = taken \o SubSeq(ring, 1, k)
         /\ ring' = SubSeq(ring, k + 1, Len(ring))
  /\ read' = "arm"
  /\ UNCHANGED <<host, armed, cmd, active, lines, late>>

ArmedNever == armed                       \* mutant: masked for good
Armed == TRUE
Arm ==
  /\ read = "arm"
  /\ armed' = Armed /\ read' = "fetch"
  /\ UNCHANGED <<host, ring, taken, cmd, active, lines, late>>
-----------------------------------------------------------------------------
(* updater_emit(): test, lock, characters, unlock.  A mutex let go of      *)
(* passes to the waiting thread of the highest priority.                   *)
Calls(t) == at[t] = "idle" /\ at' = [at EXCEPT ![t] = "test"]

Emit(t) ==
  /\ t # receiver /\ Calls(t)
  /\ UNCHANGED <<host, input, cmd, active, lock, line, late>>

HushedNever == FALSE                      \* mutant: no test
Hushed == active
Test(t) ==
  /\ at[t] = "test"
  /\ at' = [at EXCEPT ![t] = IF Hushed THEN "idle" ELSE "lock"]
  /\ UNCHANGED <<host, input, cmd, active, lock, line, late>>

LockedAlready(t) == FALSE                 \* mutant: nobody waits
Held(t) == lock # {}
Lock(t) ==
  /\ at[t] = "lock"
  /\ IF Held(t) THEN at' = [at EXCEPT ![t] = "wait"] /\ UNCHANGED lock
                ELSE at' = [at EXCEPT ![t] = "write"] /\ lock' = {t}
  /\ UNCHANGED <<host, input, cmd, active, line, late>>

Write(t) ==
  /\ at[t] = "write"
  /\ line' = line \cup {t}
  /\ late' = [late EXCEPT ![t] = IF active THEN @ + 1 ELSE @]
  /\ at' = [at EXCEPT ![t] = "end"]
  /\ UNCHANGED <<host, input, cmd, active, lock>>

EndLine(t) ==
  /\ at[t] = "end"
  /\ line' = {}
  /\ at' = [at EXCEPT ![t] = "unlock"]
  /\ UNCHANGED <<host, input, cmd, active, lock, late>>

First == {t \in Threads : at[t] = "wait" /\ \A s \in Ahead(t) : at[s] # "wait"}
ReleasedNot == lock                       \* mutant: left without an unlock
Released == First
Unlock(t) ==
  /\ at[t] = "unlock"
  /\ lock' = Released
  /\ at' = [s \in Threads |-> IF s = t THEN "idle"
                              ELSE IF s \in First THEN "write" ELSE at[s]]
  /\ UNCHANGED <<host, input, cmd, active, line, late>>
-----------------------------------------------------------------------------
(* The frames.  Each takes the receiver until it is back to reading. *)
Takes ==
  /\ Len(taken) = FrameLen /\ read = "fetch" /\ cmd = Idle
  /\ taken' = <<>>
Becomes(c) ==
  /\ cmd' = c
  /\ UNCHANGED <<host, ring, armed, read, lock>>
Works == at[receiver] = "idle" /\ UNCHANGED taken

(* 0x83, which writes without the lock. *)
Info ==
  /\ Takes /\ Becomes([op |-> "info"])
  /\ UNCHANGED <<active, at, line, late>>
InfoReply ==
  /\ cmd.op = "info" /\ Works /\ Becomes(Idle)
  /\ line' = IF line = {} THEN {} ELSE line \cup {"info"}
  /\ UNCHANGED <<active, at, late>>

(* 0x82; and 0x80 or a command nothing knows: a transfer begins, goes on, *)
(* or ends with a bad sum.                                                *)
Start ==
  /\ Takes /\ Becomes([op |-> "erase"])
  /\ active' = TRUE /\ late' = [t \in Threads |-> 0]
  /\ UNCHANGED <<at, line>>
Erased ==
  /\ cmd.op = "erase" /\ Works /\ Becomes(Idle)
  /\ UNCHANGED <<active, at, line, late>>
Data ==
  /\ Takes /\ Becomes(Idle)
  /\ active' \in {active, FALSE}
  /\ UNCHANGED <<at, line, late>>

(* 0x90 and 0x91: so many lines, and a last one. *)
SpiRead ==
  /\ \E n \in 0 .. MaxLines : Becomes([op |-> "lines", left |-> n])
  /\ Takes
  /\ UNCHANGED <<active, at, line, late>>
SpiLine ==
  /\ cmd.op = "lines" /\ Works /\ Calls(receiver)
  /\ Becomes(IF cmd.left = 0 THEN Idle
             ELSE [cmd EXCEPT !.left = @ - 1])
  /\ UNCHANGED <<active, line, late>>

(* 0x92: a window at a time, each overlapping the one before it. *)
SpiSearch ==
  /\ Takes /\ Calls(receiver)
  /\ Becomes([op |-> "search", addr |-> 0, hits |-> 0, found |-> {},
              todo |-> {}, next |-> "read"])
  /\ UNCHANGED <<active, line, late>>

(* The last window may reach past the end of the flash, where the part     *)
(* goes on at its beginning.                                               *)
Seen == Marks \cup {Flash + m : m \in Marks}

Searches(step) == cmd.op = "search" /\ cmd.next = step /\ Works
SearchWindow ==
  /\ Searches("read") /\ cmd.addr < Flash
  /\ Becomes([cmd EXCEPT
       !.todo = {m \in Seen : cmd.addr <= m /\ m + Sig <= cmd.addr + Window},
       !.next = "report"])
  /\ UNCHANGED <<active, at, line, late>>
SearchHit ==
  /\ Searches("report") /\ cmd.todo # {} /\ Calls(receiver)
  /\ Becomes([cmd EXCEPT !.todo = @ \ {Min(@)}, !.hits = @ + 1,
                         !.found = @ \cup {Min(cmd.todo)}])
  /\ UNCHANGED <<active, line, late>>
AdvanceNoOverlap == Window                \* mutant: windows side by side
Advance == Window - Sig
SearchOn ==
  /\ Searches("report") /\ cmd.todo = {}
  /\ Becomes([cmd EXCEPT !.addr = @ + Advance, !.next = "read"])
  /\ IF (cmd.addr + Advance) % Stride < Window THEN Calls(receiver)
                                               ELSE UNCHANGED at
  /\ UNCHANGED <<active, line, late>>
SearchEnds ==
  /\ Searches("read") /\ cmd.addr >= Flash
  /\ Calls(receiver) /\ Becomes(Idle)
  /\ UNCHANGED <<active, line, late>>

Frame == \/ Info \/ InfoReply \/ Start \/ Erased \/ Data \/ SpiRead \/ SpiLine
         \/ SpiSearch \/ SearchWindow \/ SearchHit \/ SearchOn \/ SearchEnds

Receiver == at[receiver] = "idle" /\ (Fetch \/ Arm)
Emits(t) == Test(t) \/ Lock(t) \/ Write(t) \/ EndLine(t) \/ Unlock(t)

Next ==
  \/ \E n \in 1 .. Packet : Sends(n)
  \/ CdcIsr \/ Receiver \/ Frame
  \/ \E t \in Threads : Emit(t) \/ Emits(t)

Spec == Init /\ [][Next]_vars

(* The interrupt is taken while it is pending, and no thread is kept from  *)
(* running for ever: each of the others sleeps.                            *)
FairSpec ==
  /\ Spec
  /\ WF_vars(CdcIsr) /\ WF_vars(Receiver) /\ WF_vars(Frame)
  /\ \A t \in Threads : WF_vars(Emits(t))
-----------------------------------------------------------------------------
(* A frame is 64 bytes by counting only: as long as the host sends whole   *)
(* frames, what the receiver takes for a command is the first byte of one, *)
(* however the ring fills and the interrupt masks itself.                  *)
InStep == \A i \in 1 .. Len(taken) : taken[i] = i - 1

(* The lock keeps lines whole ("the two would interleave mid-line"), and   *)
(* "never interleave with a firmware transfer" comes to this: what is      *)
(* heard in one is at most a line of each other thread, past its test when *)
(* the transfer began, and none of the receiver's own.                     *)
LinesWhole == Cardinality(line \ {"info"}) <= 1
TransferQuiet ==
  active => late[receiver] = 0 /\ late[main] <= 1 /\ late[radio] <= 1

(* A search reports every place of the signature, and again, as one past   *)
(* the end, a place at the beginning that its last window comes round to.  *)
(* One at the seam of two windows is counted twice: they overlap by sizeof *)
(* sig, a byte more than a signature across the seam needs.                *)
SearchComplete ==
  cmd.op = "search" /\ cmd.next = "read" /\ cmd.addr >= Flash =>
    /\ cmd.found = {m \in Seen : m <= cmd.addr}
    /\ cmd.hits = Cardinality(cmd.found)
         + Cardinality({m \in cmd.found :
                          0 < m /\ m < cmd.addr /\ m % (Window - Sig) = 0})

(* Whatever masks the interrupt, a packet of the host's is taken at last;  *)
(* and the main loop, which waits for the lock without a limit, gets it.   *)
PacketTaken == packet # <<>> ~> packet = <<>>
MainEmits == at[main] # "idle" ~> at[main] = "idle"
=============================================================================
