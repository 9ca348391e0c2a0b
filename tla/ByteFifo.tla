------------------------------ MODULE ByteFifo ------------------------------
(***************************************************************************)
(* What the reader of a receive ring may rely on: bytes come out in the    *)
(* order they arrived, each once, a byte is lost only when Cap are held    *)
(* already, and a flush loses exactly the bytes held when it is called.    *)
(***************************************************************************)
EXTENDS Naturals, Sequences

CONSTANTS Bytes, Cap

VARIABLES
  held,     \* the bytes not read yet, oldest first
  stale,    \* how many of them a flush under way is about to lose
  out       \* the latest byte read, and its number modulo 2

vars == <<held, stale, out>>

Init == held = <<>> /\ stale = 0 /\ out \in [byte : Bytes, n : {0}]

Arrive(b) ==
  /\ held' = IF Len(held) < Cap THEN Append(held, b) ELSE held
  /\ UNCHANGED <<stale, out>>

Take ==
  /\ held # <<>> /\ stale = 0
  /\ held' = Tail(held)
  /\ out' = [byte |-> Head(held), n |-> 1 - out.n]
  /\ UNCHANGED stale

FlushCalled == stale' = Len(held) /\ UNCHANGED <<held, out>>

FlushDone ==
  /\ held' = SubSeq(held, stale + 1, Len(held))
  /\ stale' = 0
  /\ UNCHANGED out

Next == Take \/ FlushCalled \/ FlushDone \/ \E b \in Bytes : Arrive(b)

Spec == Init /\ [][Next]_vars
=============================================================================
