----------------------------- MODULE RemoteNotes -----------------------------
(***************************************************************************)
(* What the handset, its firmware and its Juno driver promise together to  *)
(* a room: a press is at most one click, or one hold, which is released    *)
(* before the next note.  On a lossy port releases may go missing, but     *)
(* still no click and no hold is given that no press accounts for.         *)
(***************************************************************************)
EXTENDS Naturals

CONSTANTS Keys, NoKey

VARIABLES
  lossy,    \* the port loses lines
  owed,     \* keys whose press has not been noted yet
  ramping,  \* the keys a room is ramping for
  note      \* the latest note, and its number modulo 2

vars == <<lossy, owed, ramping, note>>

Note(k, action) == note' = [key |-> k, action |-> action, n |-> 1 - note.n]

Init ==
  /\ lossy \in BOOLEAN
  /\ owed = {} /\ ramping = {}
  /\ note = [key |-> NoKey, action |-> "release", n |-> 0]

Press(k) ==
  /\ owed' = owed \cup {k}
  /\ UNCHANGED <<lossy, ramping, note>>

Click(k) ==
  /\ k \in owed /\ (lossy \/ ramping = {})
  /\ owed' = owed \ {k}
  /\ Note(k, "click")
  /\ UNCHANGED <<lossy, ramping>>

Hold(k) ==
  /\ k \in owed /\ (lossy \/ ramping = {})
  /\ owed' = owed \ {k} /\ ramping' = ramping \cup {k}
  /\ Note(k, "hold")
  /\ UNCHANGED lossy

Release(k) ==
  /\ lossy \/ k \in ramping
  /\ ramping' = ramping \ {k}
  /\ Note(k, "release")
  /\ UNCHANGED <<lossy, owed>>

Next == \E k \in Keys : Press(k) \/ Click(k) \/ Hold(k) \/ Release(k)

Spec == Init /\ [][Next]_vars
=============================================================================
