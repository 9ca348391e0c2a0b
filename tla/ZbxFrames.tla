------------------------------ MODULE ZbxFrames ------------------------------
(***************************************************************************)
(* The frames of the radio link (src/zbx.c): the encoder, the decoder the  *)
(* USART interrupt feeds, and the ring of decoded frames that zbx_poll()   *)
(* empties.  The line carries noise between frames and breaks frames.      *)
(*                                                                         *)
(* A byte is a number modulo Base.  The ring copies frames without looking *)
(* at them and is its two indices.                                         *)
(***************************************************************************)
EXTENDS Integers, SequencesExt

CONSTANTS
  Base,           \* 256
  Esc, Sof, Eof,  \* ZBX_ESC, ZBX_SOF, ZBX_EOF
  MaxPayload,     \* ZBX_MAX_PAYLOAD, also the size of the decoder's buffer
  Slots           \* ZBX_Q

Bytes == 0 .. Base - 1
Controls == {Esc, Sof, Eof}
ASSUME ByteAssumption ==
  Base \in Nat \ {0} /\ Controls \subseteq Bytes
ASSUME DistinctAssumption == Esc # Sof /\ Sof # Eof /\ Eof # Esc
ASSUME SizeAssumption == MaxPayload \in Nat \ {0} /\ Slots \in Nat \ {0, 1}

Payloads == UNION {[1 .. n -> Bytes] : n \in 1 .. MaxPayload}

VARIABLES
  rx,           \* struct zbx_rx, and what it found so far of the frame
  wire,         \* the bytes still to come
  payload,      \* what the frame on the wire carries; <<>>: none
  clean,        \* nothing before the frame can spoil it
  altered,      \* the line has changed one of its bytes
  head, tail,   \* q_head, q_tail
  held,         \* the slot zbx_poll() returned last; Slots: none yet
  kept          \* nothing was written to it since

queue == <<head, tail, held, kept>>
vars  == <<rx, wire, payload, clean, altered, queue>>

Sum(s) == FoldLeft(LAMBDA a, b : (a + b) % Base, 0, s)
Reset == [buf |-> <<>>, inFrame |-> FALSE, esc |-> FALSE]
Init ==
  /\ rx = Reset /\ wire = <<>> /\ payload = <<>>
  /\ clean = TRUE /\ altered = FALSE
  /\ head = 0 /\ tail = 0 /\ held = Slots /\ kept = TRUE
-----------------------------------------------------------------------------
(* The encoder. *)
NeedsEsc(b) == b \in Controls
EscapedNot(b) == <<b>>                     \* mutant: bytes go as they are
Escaped(b) == IF NeedsEsc(b) THEN <<Esc, b>> ELSE <<b>>
Checksum(p) == (Base - Sum(p)) % Base
Encode(p) ==
  FoldLeft(LAMBDA w, b : w \o Escaped(b), <<Sof>>, Append(p, Checksum(p)))
    \o <<Eof>>

(* The decoder: what a byte makes of r, and the payload it completes. *)
Kept(r, b) ==
  CASE ~r.inFrame -> r
    [] Len(r.buf) >= MaxPayload -> [r EXCEPT !.inFrame = FALSE, !.buf = <<>>]
    [] OTHER -> [r EXCEPT !.buf = Append(@, b)]

Fed(r, b) ==
  CASE b = Esc /\ ~r.esc -> [r EXCEPT !.esc = TRUE]
    [] r.esc -> [Kept(r, b) EXCEPT !.esc = FALSE]
    [] b = Sof /\ ~r.esc -> [Reset EXCEPT !.inFrame = TRUE]
    [] b = Eof /\ ~r.esc -> Reset
    [] OTHER -> Kept(r, b)

GoodUnsummed(buf) == TRUE                  \* mutant: the sum is not looked at
Good(buf) == Sum(buf) = 0
Found(r, b) ==
  IF b = Eof /\ ~r.esc /\ r.inFrame /\ Len(r.buf) >= 2 /\ Good(r.buf)
    THEN Front(r.buf) ELSE <<>>
-----------------------------------------------------------------------------
(* zbx_isr(): the byte goes to the decoder, and a frame to the ring. *)
After(i) == (i + 1) % Slots
FullNever == FALSE                         \* mutant: no test
Full == After(head) = tail
Stored ==
  IF Full THEN UNCHANGED queue
  ELSE /\ head' = After(head)
       /\ kept' = (kept /\ head # held)
       /\ UNCHANGED <<tail, held>>
Isr(b) ==
  /\ rx' = Fed(rx, b)
  /\ IF Found(rx, b) = <<>> THEN UNCHANGED queue ELSE Stored

Quiet == payload = <<>>
Noise(b) == Quiet /\ Isr(b) /\ UNCHANGED <<wire, payload, clean, altered>>

(* zbx_send() opens a frame with 0x81 0x81, whatever the decoder is at; a  *)
(* sender that does not may meet an escape left over.                      *)
Burst ==
  /\ Quiet /\ rx' = Fed(Fed(rx, Sof), Sof)
  /\ UNCHANGED <<wire, payload, clean, altered, queue>>

(* Both ends encode alike. *)
Send(p) ==
  /\ Quiet /\ payload' = p /\ wire' = Encode(p)
  /\ clean' = ~rx.esc /\ altered' = FALSE
  /\ UNCHANGED <<rx, queue>>

Byte ==
  /\ wire # <<>> /\ Isr(Head(wire)) /\ wire' = Tail(wire)
  /\ UNCHANGED <<payload, clean, altered>>

(* An ordinary byte becomes another; a frame broken in any other way is    *)
(* noise from there on.                                                    *)
Alters(b) ==
  /\ wire # <<>> /\ ~altered /\ ~rx.esc
  /\ b # Head(wire) /\ {b, Head(wire)} \cap Controls = {}
  /\ Isr(b) /\ wire' = Tail(wire) /\ altered' = TRUE
  /\ UNCHANGED <<payload, clean>>

(* The frame ends, breaks, or zbx_uart_init() resets the radio and forgets *)
(* what was half received.                                                 *)
Silent == wire' = <<>> /\ payload' = <<>> /\ clean' = TRUE /\ altered' = FALSE
Ends == payload # <<>> /\ Silent /\ UNCHANGED <<rx, queue>>
Reinit == Silent /\ rx' = Reset /\ UNCHANGED queue

(* zbx_poll() gives the slot back before its caller has used the frame. *)
Poll ==
  /\ tail # head
  /\ tail' = After(tail) /\ held' = tail /\ kept' = TRUE
  /\ UNCHANGED <<rx, wire, payload, clean, altered, head>>

Next ==
  \/ \E b \in Bytes : Noise(b) \/ Alters(b)
  \/ \E p \in Payloads : Send(p)
  \/ Burst \/ Byte \/ Ends \/ Reinit \/ Poll

Spec == Init /\ [][Next]_vars
-----------------------------------------------------------------------------
(* A frame that meets no fault is found at its last byte, byte for byte,   *)
(* after any noise, restart or broken frame, if no escape was left over;   *)
(* one of MaxPayload bytes, which the encoder takes, never is: its         *)
(* checksum has no room.                                                   *)
LastByte == Len(wire) = 1 /\ clean
RoundTrip ==
  LastByte /\ ~altered => Found(rx, Head(wire))
                            = IF Len(payload) < MaxPayload THEN payload ELSE <<>>

(* "a single corrupted byte must be rejected" (zbx_selftest): so it is     *)
(* when an ordinary byte becomes another.                                  *)
AlteredRejected == LastByte /\ altered => Found(rx, Head(wire)) = <<>>

(* The frame a caller of zbx_poll() holds stays as it was until its next   *)
(* call, although its slot was given back: a full ring leaves one slot     *)
(* empty, and that is the one.                                             *)
HeldFrameKept == kept
=============================================================================
