-------------------------------- MODULE Zbnet --------------------------------
(***************************************************************************)
(* The radio thread of src/zbnet.c: it joins the coordinator's network,    *)
(* unicasts the keys that are pressed and notices when the network is      *)
(* gone.  One AT exchange is one step (AtLink.tla has its inside); what    *)
(* matters of an answer is the words the thread looks for in it.           *)
(***************************************************************************)
EXTENDS Naturals, Sequences

CONSTANTS
  QueueSize,    \* what key_q holds
  MissLimit,    \* MISS_LIMIT
  MaxPress      \* bound: the keys pressed in a behaviour

ASSUME ZbnetAssumption ==
  /\ QueueSize \in Nat \ {0} /\ MissLimit \in Nat \ {0} /\ MaxPress \in Nat

(* The commands of join_once(), in order; 0 stands for the unicasts. *)
Walk == <<"N", "I", "S09", "S00", "S0A", "S44", "S40", "S42", "JN">>
Words == {"PAN", "NoPAN", "JPAN", "ACK", "NACK"}

VARIABLES
  poor,         \* the radio may not hear a command, may answer after the
                \* exchange has ended, and says NACK of a unicast nobody
                \* acknowledged
  pressed,      \* how many keys were pressed: the number of the latest
  key_q,        \* the presses to send, by those numbers
  step,         \* the command of Walk to send next, or 0
  joined_flag,
  miss,         \* unicasts in a row that were not acknowledged
  net,          \* the radio is on no network, the coordinator's, or one that
                \* the coordinator has left
  late,         \* words of the radio that are still to come
  delivered     \* the latest key the coordinator got, numbered modulo 2

thread == <<step, joined_flag, miss>>
radio  == <<poor, net, late, delivered>>
netVars == <<pressed, key_q, thread, radio>>

TypeOK ==
  /\ poor \in BOOLEAN
  /\ pressed \in 0 .. MaxPress
  /\ delivered \in [key : 0 .. MaxPress, n : {0, 1}]
  /\ key_q \in Seq(1 .. MaxPress) /\ Len(key_q) <= QueueSize
  /\ step \in 0 .. Len(Walk) /\ miss \in 0 .. MissLimit - 1
  /\ joined_flag \in BOOLEAN
  /\ net \in {"none", "home", "stale"} /\ late \subseteq Words

NetInit ==
  /\ poor \in BOOLEAN
  /\ pressed = 0 /\ key_q = <<>>
  /\ step = 1 /\ joined_flag = FALSE /\ miss = 0
  /\ net \in {"none", "home", "stale"} /\ late = {}
  /\ delivered = [key |-> 0, n |-> 0]
-----------------------------------------------------------------------------
(* zbnet_send_key(): a full queue drops the newest press. *)
Press ==
  /\ pressed < MaxPress
  /\ pressed' = pressed + 1
  /\ key_q' = IF Len(key_q) < QueueSize THEN Append(key_q, pressed') ELSE key_q
  /\ UNCHANGED <<thread, radio>>

(* The coordinator forms a new network; the radio loses the one it is on. *)
Reforms ==
  /\ net = "home" /\ net' = "stale"
  /\ UNCHANGED <<pressed, key_q, thread, poor, late, delivered>>
Drops ==
  /\ net # "none" /\ net' = "none"
  /\ UNCHANGED <<pressed, key_q, thread, poor, late, delivered>>

(* What em250_at() returns when the radio answers `answer`: the flush has  *)
(* taken some of what was late, and the answer itself may be late.         *)
Reads(answer, reply) ==
  \E rest \in SUBSET late :
    \/ reply = rest \cup answer /\ late' = {}
    \/ poor /\ reply \subseteq rest /\ late' = (rest \ reply) \cup answer
Replies(answer) == SUBSET (late \cup answer)

Heard == IF poor THEN BOOLEAN ELSE {TRUE}

(* join_until_up() is done. *)
Joined == step' = 0 /\ joined_flag' = TRUE
GoesOn(i) == step' = i /\ UNCHANGED joined_flag

(* A radio that is on a network is joined already. *)
EarlyReturnMissing(reply) == FALSE            \* mutant: it is set up again
OnNetwork(reply) == "PAN" \in reply /\ "NoPAN" \notin reply
Ask ==
  /\ step = 1
  /\ \E heard \in Heard :
       LET answer == IF ~heard THEN {}
                     ELSE IF net = "none" THEN {"NoPAN"} ELSE {"PAN"}
       IN  \E reply \in Replies(answer) :
             /\ Reads(answer, reply)
             /\ IF OnNetwork(reply) THEN Joined ELSE GoesOn(2)
  /\ UNCHANGED <<pressed, key_q, miss, poor, net, delivered>>

(* ATS0A drops a radio that is on a network off it. *)
SetUp ==
  /\ step \in 2 .. Len(Walk) - 1
  /\ \E heard \in Heard, reply \in Replies({}) :
       /\ Reads({}, reply)
       /\ net' = IF heard /\ Walk[step] = "S0A" THEN "none" ELSE net
  /\ GoesOn(step + 1)
  /\ UNCHANGED <<pressed, key_q, miss, poor, delivered>>

(* AT+JN, when the coordinator lets the radio in ... *)
JoinAnswered(answer) ==
  \E reply \in Replies(answer) :
    /\ Reads(answer, reply)
    /\ IF "JPAN" \in reply THEN Joined ELSE GoesOn(1)
Admitted ==
  /\ step = Len(Walk) /\ net = "none"
  /\ net' = "home"
  /\ JoinAnswered({"JPAN"})
  /\ UNCHANGED <<pressed, key_q, miss, poor, delivered>>

(* ... and when it does not. *)
Refused ==
  /\ step = Len(Walk)
  /\ JoinAnswered({})
  /\ UNCHANGED <<pressed, key_q, miss, poor, net, delivered>>

(* ucast(): "ACK" is looked for as a substring. *)
IsAcked(reply) == reply \cap {"ACK", "NACK"} # {}

(* A run of MissLimit misses pays for a rejoin. *)
MissForgotten == 0                            \* mutant: a miss is not counted
Misses == miss + 1
Enough(m) == m >= MissLimit
AfterUnicast(ok) ==
  IF ~ok /\ Enough(Misses)
    THEN step' = 1 /\ joined_flag' = FALSE /\ miss' = 0
    ELSE /\ miss' = IF ok THEN 0 ELSE Misses
         /\ UNCHANGED <<step, joined_flag>>

(* A key, or the heartbeat when none came for HEARTBEAT_MS.  The packet    *)
(* arrives or not, and its acknowledgement too.                            *)
PoppedIfAcked(ok) ==                          \* mutant: a miss resends
  IF ok THEN Tail(key_q) ELSE key_q
Popped(ok) == Tail(key_q)
Answer(heard, back) ==
  IF back THEN {"ACK"}
  ELSE IF poor /\ heard /\ net # "none" THEN {"NACK"} ELSE {}
Unicast ==
  /\ step = 0
  /\ \E heard \in Heard, arrives, back \in BOOLEAN :
       /\ arrives => heard /\ net = "home"
       /\ back => arrives
       /\ \E reply \in Replies(Answer(heard, back)) :
            /\ Reads(Answer(heard, back), reply)
            /\ AfterUnicast(IsAcked(reply))
            /\ key_q' = IF key_q = <<>> THEN key_q
                         ELSE Popped(IsAcked(reply))
       /\ delivered' = IF arrives /\ key_q # <<>>
                         THEN [key |-> Head(key_q), n |-> 1 - delivered.n]
                         ELSE delivered
  /\ UNCHANGED <<pressed, poor, net>>

Thread == Ask \/ SetUp \/ Admitted \/ Refused \/ Unicast

NetNext == Press \/ Reforms \/ Drops \/ Thread

NetSpec == NetInit /\ [][NetNext]_netVars

(* The thread runs, and a coordinator that is asked again and again lets   *)
(* the radio in at some time.                                              *)
NetFairSpec == NetSpec /\ WF_netVars(Thread) /\ SF_netVars(Admitted)
-----------------------------------------------------------------------------
(* "ATS0A rewrites the module's main function, and doing that to a node    *)
(* that is already joined drops it off the mesh" (join_once()): the walk   *)
(* that asks first never does it to one, as long as the answer to AT+N     *)
(* comes in time.                                                          *)
SetupOnlyWhenOff ==
  [][~poor /\ step = 5 /\ step' # 5 => net = "none"]_netVars

(* The coordinator gets a key at most once and in the order of the         *)
(* presses, whatever is lost, late or rejoined in between.                 *)
KeysOnceInOrder ==
  [][delivered' # delivered => delivered'.key > delivered.key]_netVars

(* A press that was queued is unicast in the end, however often the        *)
(* network is lost before, when the radio answers in time.                 *)
Queued(k) == \E i \in DOMAIN key_q : key_q[i] = k
KeysGoOut == \A k \in 1 .. MaxPress : ~poor /\ Queued(k) ~> ~Queued(k)

(* A radio that has lost its network is back on one in the end: misses     *)
(* are noticed and every path of the join leads to another attempt.  A     *)
(* NACK reads as an ACK, so this is of a radio that does not say it.       *)
LossRejoined == ~poor /\ net = "none" ~> net = "home"

(* "A run of unacked sends means the coordinator re-formed the mesh        *)
(* without us" (zbnet_thread()): a radio left on an old network gets off   *)
(* it again.                                                               *)
StaleRejoined == net = "stale" ~> net # "stale"
=============================================================================
