---------------------------- MODULE CdcPortProofs ----------------------------
(***************************************************************************)
(* Proofs about the USB port, for every size of frame, packet and ring and *)
(* every flash, window and signature.                                      *)
(***************************************************************************)
EXTENDS CdcPort, FiniteSetTheorems, SequenceTheorems, WellFoundedInduction,
        TLAPS

USE PortAssumption, SearchAssumption, ThreadAssumption

-----------------------------------------------------------------------------
(* Arithmetic of a byte's place in its frame.                              *)
LEMMA DivMod ==
  \A n \in Nat : /\ n \div FrameLen \in Nat /\ n % FrameLen \in 0 .. FrameLen - 1
                 /\ n = FrameLen * (n \div FrameLen) + (n % FrameLen)
OBVIOUS

LEMMA ModUnique ==
  ASSUME NEW q \in Int, NEW r \in 0 .. FrameLen - 1,
         NEW s \in Int, NEW t \in 0 .. FrameLen - 1,
         FrameLen * q + r = FrameLen * s + t
  PROVE  r = t
<1>1. CASE q = s
  BY <1>1
<1>2. CASE q >= s + 1
  <2>1. FrameLen * q >= FrameLen * (s + 1)
    BY <1>2
  <2>2. FrameLen * (s + 1) = FrameLen * s + FrameLen
    OBVIOUS
  <2> QED  BY <2>1, <2>2
<1>3. CASE s >= q + 1
  <2>1. FrameLen * s >= FrameLen * (q + 1)
    BY <1>3
  <2>2. FrameLen * (q + 1) = FrameLen * q + FrameLen
    OBVIOUS
  <2> QED  BY <2>1, <2>2
<1> QED  BY <1>1, <1>2, <1>3

LEMMA ModSmall == \A n \in 0 .. FrameLen - 1 : n % FrameLen = n
OBVIOUS

LEMMA ModAdd ==
  \A a, b \in Nat : ((a % FrameLen) + b) % FrameLen = (a + b) % FrameLen
<1> SUFFICES ASSUME NEW a \in Nat, NEW b \in Nat
      PROVE  ((a % FrameLen) + b) % FrameLen = (a + b) % FrameLen
  OBVIOUS
<1> DEFINE q == a \div FrameLen
           c == (a % FrameLen) + b
           s == c \div FrameLen
           u == (a + b) \div FrameLen
<1>1. a = FrameLen * q + (a % FrameLen) /\ q \in Nat /\ a % FrameLen \in Nat
  BY DivMod
<1>2. c = FrameLen * s + (c % FrameLen) /\ s \in Nat /\ c % FrameLen \in 0 .. FrameLen - 1
  BY <1>1, DivMod
<1>3. /\ a + b = FrameLen * u + ((a + b) % FrameLen) /\ u \in Nat
      /\ (a + b) % FrameLen \in 0 .. FrameLen - 1
  BY DivMod
<1>4. FrameLen * (q + s) = FrameLen * q + FrameLen * s
  BY <1>1, <1>2
<1>5. FrameLen * (q + s) + (c % FrameLen) = FrameLen * u + ((a + b) % FrameLen)
  BY <1>1, <1>2, <1>3, <1>4
<1>6. q + s \in Int /\ u \in Int
  BY <1>1, <1>2, <1>3
<1> QED  BY <1>2, <1>3, <1>5, <1>6, ModUnique, Zenon

LEMMA ModTurn == \A n \in Nat : (FrameLen + n) % FrameLen = n % FrameLen
<1> SUFFICES ASSUME NEW n \in Nat PROVE (FrameLen + n) % FrameLen = n % FrameLen
  OBVIOUS
<1>1. n = FrameLen * (n \div FrameLen) + (n % FrameLen) /\ n \div FrameLen \in Nat
  BY DivMod
<1>2. FrameLen + n = FrameLen * ((FrameLen + n) \div FrameLen) + ((FrameLen + n) % FrameLen)
  BY DivMod
<1>3. FrameLen * (n \div FrameLen + 1) = FrameLen * (n \div FrameLen) + FrameLen
  BY <1>1
<1>4. (FrameLen + n) \div FrameLen \in Nat
  BY DivMod
<1>5. n % FrameLen \in 0 .. FrameLen - 1 /\ (FrameLen + n) % FrameLen \in 0 .. FrameLen - 1
  BY DivMod
<1>6. FrameLen * (n \div FrameLen + 1) + (n % FrameLen)
        = FrameLen * ((FrameLen + n) \div FrameLen) + ((FrameLen + n) % FrameLen)
  BY <1>1, <1>2, <1>3, <1>4, <1>5
<1>7. n \div FrameLen + 1 \in Int /\ (FrameLen + n) \div FrameLen \in Int
  BY <1>1, <1>4
<1> QED  BY <1>5, <1>6, <1>7, ModUnique, Zenon
-----------------------------------------------------------------------------
(* Lines: only the owner of the lock is between the test and the end.      *)
Places == {"idle", "test", "lock", "wait", "write", "end", "unlock"}
Owns(t) == at[t] \in {"write", "end", "unlock"}
LineInv ==
  /\ at \in [Threads -> Places] /\ lock \subseteq Threads
  /\ \A t \in Threads : Owns(t) <=> t \in lock
  /\ \A s, t \in lock : s = t
  /\ \A t \in line \ {"info"} : t \in Threads /\ at[t] = "end"

(* The one a mutex passes to is one.                                       *)
LEMMA OneFirst == \A s, t \in First : s = t
BY DEF First, Ahead, Threads

LEMMA EmitLine ==
  ASSUME LineInv, NEW t \in Threads, Emit(t) \/ Emits(t) PROVE LineInv'
<1> USE DEF LineInv, Places, Owns
<1>1. CASE Emit(t) \/ Test(t)
  BY <1>1 DEF Emit, Calls, Test
<1>2. CASE Lock(t)
  BY <1>2 DEF Lock, Held
<1>3. CASE Write(t)
  BY <1>3 DEF Write
<1>4. CASE EndLine(t)
  BY <1>4 DEF EndLine
<1>5. CASE Unlock(t)
  <2>1. line' \ {"info"} = {}
    BY <1>5 DEF Unlock
  <2>2. First \subseteq Threads /\ \A s \in First : at[s] = "wait"
    BY DEF First
  <2>3. lock = {t}
    BY <1>5 DEF Unlock
  <2> QED  BY <1>5, <2>1, <2>2, <2>3, OneFirst DEF Unlock, Released
<1> QED  BY <1>1, <1>2, <1>3, <1>4, <1>5 DEF Emits

LEMMA FrameLine == LineInv /\ Frame => LineInv'
<1> SUFFICES ASSUME LineInv, Frame PROVE LineInv'
  OBVIOUS
<1> USE DEF LineInv, Places, Owns, Becomes
<1>1. CASE UNCHANGED <<at, line, lock>>
  BY <1>1
<1>2. CASE Calls(receiver) /\ UNCHANGED <<line, lock>>
  BY <1>2 DEF Calls, Threads
<1>3. CASE InfoReply
  BY <1>3 DEF InfoReply
<1> QED
  BY <1>1, <1>2, <1>3
  DEF Frame, Info, Start, Erased, Data, SpiRead, SpiLine, SpiSearch, SearchWindow,
      SearchHit, SearchOn, SearchEnds

LEMMA LineStep == LineInv /\ [Next]_vars => LineInv'
<1> SUFFICES ASSUME LineInv, [Next]_vars PROVE LineInv'
  OBVIOUS
<1>1. CASE UNCHANGED lines
  BY <1>1 DEF lines, LineInv, Owns
<1>2. CASE Frame
  BY <1>2, FrameLine
<1>3. CASE \E t \in Threads : Emit(t) \/ Emits(t)
  BY <1>3, EmitLine
<1> QED
  BY <1>1, <1>2, <1>3 DEF Next, Sends, CdcIsr, Receiver, Fetch, Arm, vars

(* The lock keeps lines whole: between the first character of a line and   *)
(* its end no other thread writes one (updater_emit).                      *)
THEOREM LinesAreWhole == Spec => []LinesWhole
<1>1. Init => LineInv
  BY DEF Init, LineInv, Owns, Places
<1>2. LineInv => LinesWhole
  <2> SUFFICES ASSUME LineInv PROVE LinesWhole
    OBVIOUS
  <2>1. \A s, t \in line \ {"info"} : s = t
    BY DEF LineInv, Owns
  <2>2. CASE line \ {"info"} = {}
    BY <2>2, FS_EmptySet DEF LinesWhole
  <2>3. CASE line \ {"info"} # {}
    <3>1. PICK t \in line \ {"info"} : TRUE
      BY <2>3
    <3>2. line \ {"info"} = {t}
      BY <2>1, <3>1
    <3> QED  BY <3>2, FS_Singleton DEF LinesWhole
  <2> QED  BY <2>2, <2>3
<1> QED  BY <1>1, <1>2, LineStep, PTL DEF Spec
-----------------------------------------------------------------------------
(* Transfers: the receiver is between two frames when one begins, and each *)
(* other thread that begins a line in it has to pass the test again.       *)
Between == {"idle", "test"}
QuietInv ==
  /\ late \in [Threads -> Nat]
  /\ taken # <<>> => cmd = Idle /\ at[receiver] = "idle"
  /\ active =>
       /\ at[receiver] \in Between /\ late[receiver] = 0
       /\ \A t \in {main, radio} :
            late[t] = 0 \/ (late[t] = 1 /\ at[t] \in Between \cup {"end", "unlock"})

LEMMA EmitQuiet ==
  ASSUME LineInv, QuietInv, NEW t \in Threads, Emit(t) \/ Emits(t)
  PROVE  QuietInv'
<1> USE DEF LineInv, QuietInv, Places, Between, Threads, input
<1>1. CASE Emit(t)
  BY <1>1 DEF Emit, Calls
<1>2. CASE Test(t)
  BY <1>2 DEF Test, Hushed
<1>3. CASE Lock(t)
  BY <1>3 DEF Lock, Held
<1>4. CASE Write(t)
  BY <1>4 DEF Write
<1>5. CASE EndLine(t)
  BY <1>5 DEF EndLine
<1>6. CASE Unlock(t)
  <2>1. \A s \in Threads :
          at'[s] = at[s] \/ (at[s] = "unlock" /\ at'[s] = "idle")
                        \/ (at[s] = "wait" /\ at'[s] = "write")
    BY <1>6 DEF Unlock, First
  <2> QED  BY <1>6, <2>1 DEF Unlock
<1> QED  BY <1>1, <1>2, <1>3, <1>4, <1>5, <1>6 DEF Emits

LEMMA FrameQuiet == LineInv /\ QuietInv /\ Frame => QuietInv'
<1> SUFFICES ASSUME LineInv, QuietInv, Frame PROVE QuietInv'
  OBVIOUS
<1> USE DEF LineInv, QuietInv, Places, Between, Threads, Idle, Becomes
<1>1. CASE Info \/ SpiRead \/ SpiSearch
  BY <1>1 DEF Info, SpiRead, SpiSearch, Takes, Calls
<1>2. CASE Start
  BY <1>2 DEF Start, Takes
<1>3. CASE Data
  <2>1. active' => active
    BY <1>3, Zenon DEF Data
  <2>2. taken' = <<>> /\ taken # <<>> /\ UNCHANGED <<at, line, late>>
    BY <1>3 DEF Data, Takes
  <2> QED  BY <2>1, <2>2
<1>4. CASE InfoReply \/ Erased
  BY <1>4 DEF InfoReply, Erased, Works
<1>5. CASE SpiLine \/ SearchEnds
  BY <1>5 DEF SpiLine, SearchEnds, Searches, Works, Calls
<1>6. CASE SearchWindow \/ SearchHit \/ SearchOn
  BY <1>6 DEF SearchWindow, SearchHit, SearchOn, Searches, Works, Calls
<1> QED
  BY <1>1, <1>2, <1>3, <1>4, <1>5, <1>6 DEF Frame

LEMMA QuietStep == LineInv /\ QuietInv /\ [Next]_vars => QuietInv'
<1> SUFFICES ASSUME LineInv, QuietInv, [Next]_vars PROVE QuietInv'
  OBVIOUS
<1>1. CASE UNCHANGED <<taken, cmd, active, lines, late>>
  BY <1>1 DEF QuietInv, lines
<1>2. CASE Receiver
  BY <1>2 DEF QuietInv, Receiver, Fetch, Arm, Reading, lines, host
<1>3. CASE Frame
  BY <1>3, FrameQuiet
<1>4. CASE \E t \in Threads : Emit(t) \/ Emits(t)
  BY <1>4, EmitQuiet
<1> QED
  BY <1>1, <1>2, <1>3, <1>4 DEF Next, Sends, CdcIsr, vars, input

(* "Never interleave with a firmware transfer" (updater_emit): a transfer  *)
(* hears no line of the receiver and at most a late one of each other      *)
(* thread.                                                                 *)
THEOREM TransfersAreQuiet == Spec => []TransferQuiet
<1>1. Init => LineInv /\ QuietInv
  BY DEF Init, LineInv, QuietInv, Owns, Places, Between
<1>2. QuietInv => TransferQuiet
  BY DEF QuietInv, TransferQuiet
<1> QED  BY <1>1, <1>2, LineStep, QuietStep, PTL DEF Spec
-----------------------------------------------------------------------------
(* Frames: what is taken, in the ring and at the endpoint is one stretch   *)
(* of the stream, which begins where a frame begins.                       *)
Runs(s, n) == \A i \in 1 .. Len(s) : s[i] = (n + i - 1) % FrameLen
StreamInv ==
  /\ taken \in Seq(Nat) /\ ring \in Seq(Nat) /\ packet \in Seq(Nat)
  /\ Len(taken) <= FrameLen /\ Len(ring) <= RingSize /\ Len(packet) <= Packet
  /\ \A i \in 1 .. Len(taken) : taken[i] = i - 1
  /\ Runs(ring, Len(taken)) /\ Runs(packet, Len(taken) + Len(ring))
  /\ place = (Len(taken) + Len(ring) + Len(packet)) % FrameLen

(* The smaller of two numbers, and the two parts of a sequence.            *)
LEMMA MinOfTwo ==
  \A a, b \in Int : Min({a, b}) \in {a, b} /\ Min({a, b}) <= a /\ Min({a, b}) <= b
<1> SUFFICES ASSUME NEW a \in Int, NEW b \in Int
      PROVE  Min({a, b}) \in {a, b} /\ \A y \in {a, b} : Min({a, b}) <= y
  BY Zenon
<1>1. \E x \in {a, b} : \A y \in {a, b} : x <= y
  OBVIOUS
<1> QED  BY <1>1, Zenon DEF Min

LEMMA Parts ==
  ASSUME NEW s \in Seq(Nat), NEW k \in 0 .. Len(s)
  PROVE  /\ SubSeq(s, 1, k) \in Seq(Nat) /\ Len(SubSeq(s, 1, k)) = k
         /\ \A i \in 1 .. k : SubSeq(s, 1, k)[i] = s[i]
         /\ SubSeq(s, k + 1, Len(s)) \in Seq(Nat)
         /\ Len(SubSeq(s, k + 1, Len(s))) = Len(s) - k
         /\ \A i \in 1 .. Len(s) - k : SubSeq(s, k + 1, Len(s))[i] = s[k + i]
<1>1. \A i \in 1 .. k : s[i] \in Nat
  OBVIOUS
<1>2. \A i \in k + 1 .. Len(s) : s[i] \in Nat
  OBVIOUS
<1>3. /\ SubSeq(s, 1, k) \in Seq(Nat) /\ Len(SubSeq(s, 1, k)) = k
      /\ \A i \in 1 .. k : SubSeq(s, 1, k)[i] = s[i]
  BY <1>1, SubSeqProperties
<1>4. /\ SubSeq(s, k + 1, Len(s)) \in Seq(Nat)
      /\ Len(SubSeq(s, k + 1, Len(s))) = Len(s) - k
      /\ \A i \in 1 .. Len(s) - k : SubSeq(s, k + 1, Len(s))[i] = s[k + i]
  BY <1>2, SubSeqProperties
<1> QED  BY <1>3, <1>4

LEMMA Lengths ==
  StreamInv => /\ taken \in Seq(Nat) /\ ring \in Seq(Nat) /\ packet \in Seq(Nat)
               /\ Len(taken) \in Nat /\ Len(ring) \in Nat /\ Len(packet) \in Nat
               /\ Len(taken) <= FrameLen /\ Len(ring) <= RingSize
               /\ Len(packet) <= Packet
BY DEF StreamInv

LEMMA SendsStream == StreamInv /\ (\E n \in 1 .. Packet : Sends(n)) => StreamInv'
<1> SUFFICES ASSUME StreamInv, NEW n \in 1 .. Packet, Sends(n) PROVE StreamInv'
  OBVIOUS
<1> DEFINE m == Len(taken) + Len(ring)
<1>1. m \in Nat /\ n \in Nat
  BY Lengths
<1> HIDE DEF m
<1>2. place = m % FrameLen
  <2>1. place = (Len(taken) + Len(ring) + Len(packet)) % FrameLen
    BY DEF StreamInv
  <2>2. Len(packet) = 0
    BY DEF Sends
  <2> QED  BY <2>1, <2>2, Lengths DEF m
<1>3. UNCHANGED <<taken, ring>>
  BY DEF Sends, input
<1>4. packet' = [i \in 1 .. n |-> (m + i - 1) % FrameLen]
  <2>1. ASSUME NEW i \in 1 .. n
        PROVE  (place + i - 1) % FrameLen = (m + i - 1) % FrameLen
    <3>1. i - 1 \in Nat
      OBVIOUS
    <3>2. (place + (i - 1)) % FrameLen = (m + (i - 1)) % FrameLen
      BY <1>1, <1>2, <3>1, ModAdd, Zenon
    <3>3. place \in Nat
      BY <1>1, <1>2, DivMod
    <3>4. place + (i - 1) = place + i - 1 /\ m + (i - 1) = m + i - 1
      BY <1>1, <3>3
    <3> QED  BY <3>2, <3>4
  <2>2. packet' = [i \in 1 .. n |-> (place + i - 1) % FrameLen]
    BY DEF Sends
  <2> QED  BY <2>1, <2>2
<1>5. packet' \in Seq(Nat) /\ Len(packet') = n
  <2>1. \A i \in 1 .. n : m + i - 1 \in Nat
    BY <1>1
  <2>2. \A i \in 1 .. n : (m + i - 1) % FrameLen \in Nat
    BY <2>1, DivMod
  <2> QED  BY <1>1, <1>4, <2>2
<1>6. Runs(packet', m)
  BY <1>4, <1>5 DEF Runs
<1>7. place' = (m + n) % FrameLen
  <2>1. place' = (place + n) % FrameLen
    BY DEF Sends
  <2> QED  BY <1>1, <1>2, <2>1, ModAdd, Zenon
<1> QED
  BY <1>1, <1>3, <1>5, <1>6, <1>7 DEF StreamInv, m

LEMMA IsrStream == StreamInv /\ CdcIsr => StreamInv'
<1> SUFFICES ASSUME StreamInv, CdcIsr PROVE StreamInv'
  OBVIOUS
<1>1. CASE UNCHANGED <<ring, packet>>
  BY <1>1 DEF CdcIsr, StreamInv
<1>2. CASE ~Crowded
  <2>1. Len(packet) <= RingSize - Len(ring)
    BY <1>2, Lengths DEF Crowded
  <2>2. Min({Len(packet), RingSize - Len(ring)}) = Len(packet)
    <3>1. Len(packet) \in Int /\ RingSize - Len(ring) \in Int
      BY Lengths
    <3> DEFINE least == Min({Len(packet), RingSize - Len(ring)})
    <3>2. least \in {Len(packet), RingSize - Len(ring)}
          /\ least <= Len(packet) /\ least <= RingSize - Len(ring)
      BY <3>1, MinOfTwo, Zenon
    <3> QED  BY <2>1, <3>1, <3>2
  <2>3. Fitting = packet
    BY <2>2, Lengths, SubSeqFull DEF Fitting
  <2>4. ring' = ring \o packet /\ packet' = <<>> /\ UNCHANGED <<taken, place>>
    BY <1>2, <2>3 DEF CdcIsr
  <2>5. ring' \in Seq(Nat) /\ Len(ring') = Len(ring) + Len(packet)
    BY <2>4, Lengths
  <2>6. Runs(ring', Len(taken))
    <3> SUFFICES ASSUME NEW i \in 1 .. Len(ring')
          PROVE  ring'[i] = (Len(taken) + i - 1) % FrameLen
      BY DEF Runs
    <3>1. CASE i <= Len(ring)
      <4>1. i \in 1 .. Len(ring) /\ ring'[i] = ring[i]
        BY <2>4, <2>5, <3>1, Lengths
      <4> QED  BY <4>1 DEF StreamInv, Runs
    <3>2. CASE i > Len(ring)
      <4>1. i - Len(ring) \in 1 .. Len(packet) /\ ring'[i] = packet[i - Len(ring)]
        BY <2>4, <2>5, <3>2, Lengths
      <4>2. Len(taken) + Len(ring) + (i - Len(ring)) - 1 = Len(taken) + i - 1
        BY Lengths
      <4>3. packet[i - Len(ring)]
              = (Len(taken) + Len(ring) + (i - Len(ring)) - 1) % FrameLen
        BY <4>1 DEF StreamInv, Runs
      <4> QED  BY <4>1, <4>2, <4>3
    <3> QED  BY <2>5, <3>1, <3>2, Lengths
  <2>7. Len(taken) + Len(ring') + Len(packet') = Len(taken) + Len(ring) + Len(packet)
    BY <2>4, <2>5, Lengths
  <2>8. Len(ring') <= RingSize /\ Len(packet') <= Packet
    BY <2>1, <2>4, <2>5, Lengths
  <2> QED  BY <2>4, <2>5, <2>6, <2>7, <2>8 DEF StreamInv, Runs
<1> QED  BY <1>1, <1>2 DEF CdcIsr

LEMMA FetchStream == StreamInv /\ Fetch => StreamInv'
<1> SUFFICES ASSUME StreamInv, Fetch PROVE StreamInv'
  OBVIOUS
<1> DEFINE k == Min({Len(ring), FrameLen - Len(taken)})
<1>1. k \in 0 .. Len(ring) /\ Len(taken) + k <= FrameLen
  <2>1. Len(ring) \in Int /\ FrameLen - Len(taken) \in Int
    BY Lengths
  <2>2. k \in {Len(ring), FrameLen - Len(taken)}
        /\ k <= Len(ring) /\ k <= FrameLen - Len(taken)
    BY <2>1, MinOfTwo, Zenon
  <2> QED  BY <2>1, <2>2, Lengths
<1> DEFINE head == SubSeq(ring, 1, k)
           rest == SubSeq(ring, k + 1, Len(ring))
<1>2. taken' = taken \o head /\ ring' = rest /\ UNCHANGED <<packet, place>>
  BY DEF Fetch, host
<1> HIDE DEF k
<1>3. /\ head \in Seq(Nat) /\ Len(head) = k
      /\ \A i \in 1 .. k : head[i] = ring[i]
      /\ rest \in Seq(Nat) /\ Len(rest) = Len(ring) - k
      /\ \A i \in 1 .. Len(ring) - k : rest[i] = ring[k + i]
  <2>1. ring \in Seq(Nat)
    BY Lengths
  <2> QED  BY <1>1, <2>1, Parts
<1> HIDE DEF head, rest
<1>4. /\ taken' \in Seq(Nat) /\ Len(taken') = Len(taken) + k
      /\ Len(ring') = Len(ring) - k /\ k \in Nat
  <2>1. k \in Nat /\ Len(ring') = Len(ring) - k
    BY <1>1, <1>2, <1>3, Lengths
  <2>2. taken \in Seq(Nat) /\ head \in Seq(Nat)
    BY <1>3, Lengths
  <2>3. taken \o head \in Seq(Nat) /\ Len(taken \o head) = Len(taken) + Len(head)
    BY <2>2
  <2> QED  BY <1>2, <1>3, <2>1, <2>3
<1>5. \A i \in 1 .. Len(taken') : taken'[i] = i - 1
  <2> SUFFICES ASSUME NEW i \in 1 .. Len(taken') PROVE taken'[i] = i - 1
    OBVIOUS
  <2>1. CASE i <= Len(taken)
    <3>1. i \in 1 .. Len(taken) /\ taken'[i] = taken[i]
      BY <1>2, <1>3, <1>4, <2>1, Lengths
    <3> QED  BY <3>1 DEF StreamInv
  <2>2. CASE i > Len(taken)
    <3>1. i - Len(taken) \in 1 .. k /\ taken'[i] = head[i - Len(taken)]
      BY <1>1, <1>2, <1>3, <1>4, <2>2, Lengths
    <3>2. i - Len(taken) \in 1 .. Len(ring) /\ head[i - Len(taken)] = ring[i - Len(taken)]
      <4>1. i - Len(taken) \in 1 .. Len(ring)
        BY <1>1, <3>1, Lengths
      <4> QED  BY <1>3, <3>1, <4>1
    <3>3. ring[i - Len(taken)] = (Len(taken) + (i - Len(taken)) - 1) % FrameLen
      BY <3>2 DEF StreamInv, Runs
    <3>4. Len(taken) + (i - Len(taken)) - 1 = i - 1 /\ i - 1 \in 0 .. FrameLen - 1
      BY <1>1, <1>4, <2>2, Lengths
    <3>5. (i - 1) % FrameLen = i - 1
      BY <3>4, ModSmall
    <3> QED  BY <3>1, <3>2, <3>3, <3>4, <3>5
  <2> QED  BY <1>1, <1>4, <2>1, <2>2, Lengths
<1>6. Runs(ring', Len(taken'))
  <2> SUFFICES ASSUME NEW i \in 1 .. Len(ring')
        PROVE  ring'[i] = (Len(taken') + i - 1) % FrameLen
    BY DEF Runs
  <2>1. ring'[i] = ring[k + i] /\ k + i \in 1 .. Len(ring)
    <3>1. i \in 1 .. Len(ring) - k
      BY <1>4
    <3>2. rest[i] = ring[k + i]
      BY <1>3, <3>1
    <3>3. k + i \in 1 .. Len(ring)
      BY <1>1, <1>4, <3>1, Lengths
    <3> QED  BY <1>2, <3>2, <3>3
  <2>2. Len(taken) + (k + i) - 1 = Len(taken') + i - 1
    BY <1>1, <1>4, Lengths
  <2>3. ring[k + i] = (Len(taken) + (k + i) - 1) % FrameLen
    BY <2>1 DEF StreamInv, Runs
  <2> QED  BY <2>1, <2>2, <2>3
<1>7. Len(taken') + Len(ring') = Len(taken) + Len(ring)
  BY <1>1, <1>4, Lengths
<1>8. Len(taken') <= FrameLen /\ Len(ring') <= RingSize /\ ring' \in Seq(Nat)
  BY <1>1, <1>2, <1>3, <1>4, Lengths
<1> QED  BY <1>2, <1>4, <1>5, <1>6, <1>7, <1>8 DEF StreamInv

(* A frame that is taken is a turn of the numbering.                       *)
LEMMA TakesStream ==
  StreamInv /\ Takes /\ UNCHANGED <<ring, packet, place>> => StreamInv'
<1> SUFFICES ASSUME StreamInv, Takes, UNCHANGED <<ring, packet, place>>
      PROVE  StreamInv'
  OBVIOUS
<1>1. taken' = <<>> /\ Len(taken) = FrameLen
  BY DEF Takes
<1>2. \A s \in Seq(Nat), n \in Nat : Runs(s, FrameLen + n) => Runs(s, n)
  <2> SUFFICES ASSUME NEW s \in Seq(Nat), NEW n \in Nat, Runs(s, FrameLen + n),
                      NEW i \in 1 .. Len(s)
        PROVE  s[i] = (n + i - 1) % FrameLen
    BY DEF Runs
  <2>1. s[i] = (FrameLen + n + i - 1) % FrameLen /\ n + i - 1 \in Nat
    BY DEF Runs
  <2>2. FrameLen + n + i - 1 = FrameLen + (n + i - 1)
    OBVIOUS
  <2>3. (FrameLen + (n + i - 1)) % FrameLen = (n + i - 1) % FrameLen
    BY <2>1, ModTurn, Zenon
  <2> QED  BY <2>1, <2>2, <2>3
<1>3. Runs(ring, 0) /\ Runs(packet, Len(ring))
  BY <1>1, <1>2 DEF StreamInv
<1>4. place = (Len(ring) + Len(packet)) % FrameLen
  <2>1. Len(ring) + Len(packet) \in Nat
    BY DEF StreamInv
  <2>2. (FrameLen + (Len(ring) + Len(packet))) % FrameLen
          = (Len(ring) + Len(packet)) % FrameLen
    BY <2>1, ModTurn, Zenon
  <2> QED  BY <1>1, <2>1, <2>2 DEF StreamInv
<1> QED  BY <1>1, <1>3, <1>4 DEF StreamInv, Runs

LEMMA StreamStep == StreamInv /\ [Next]_vars => StreamInv'
<1> SUFFICES ASSUME StreamInv, [Next]_vars PROVE StreamInv'
  OBVIOUS
<1>1. CASE UNCHANGED <<host, ring, taken>>
  BY <1>1 DEF StreamInv, Runs, host
<1>2. CASE \E n \in 1 .. Packet : Sends(n)
  BY <1>2, SendsStream
<1>3. CASE CdcIsr
  BY <1>3, IsrStream
<1>4. CASE Receiver
  BY <1>1, <1>4, FetchStream DEF Receiver, Arm
<1>5. CASE Frame
  <2>1. UNCHANGED <<host, ring>> /\ (Takes \/ UNCHANGED taken)
    BY <1>5
    DEF Frame, Info, InfoReply, Start, Erased, Data, SpiRead, SpiLine, SpiSearch,
        SearchWindow, SearchHit, SearchOn, SearchEnds, Searches, Works, Becomes
  <2> QED  BY <1>1, <2>1, TakesStream DEF host
<1>6. CASE \E t \in Threads : Emit(t) \/ Emits(t)
  <2>1. UNCHANGED <<host, input>>
    BY <1>6 DEF Emit, Emits, Test, Lock, Write, EndLine, Unlock
  <2> QED  BY <1>1, <2>1 DEF input
<1> QED
  BY <1>1, <1>2, <1>3, <1>4, <1>5, <1>6 DEF Next, vars, input

(* What the receiver takes for a frame is one, however the ring fills and  *)
(* the interrupt masks itself (cdc_isr, cdc_read).                         *)
THEOREM FramesInStep == Spec => []InStep
<1>1. Init => StreamInv
  BY ModSmall DEF Init, StreamInv, Runs
<1>2. StreamInv => InStep
  BY DEF StreamInv, InStep
<1> QED  BY <1>1, <1>2, StreamStep, PTL DEF Spec
-----------------------------------------------------------------------------
(* The search.  A window at addr finds what begins in addr .. addr+Overlap *)
(* (both included), so what begins at the seam of two is found by both.    *)
Step == Window - Sig
UpTo(a) == {m \in Seen : m <= a}
Seams(a) == {m \in Seen : m > 0 /\ m < a /\ m % Step = 0}

SearchCmd ==
  [op : {"search"}, addr : Nat, hits : Nat, found : SUBSET Seen,
   todo : SUBSET Seen, next : {"read", "report"}]
SearchInv ==
  /\ cmd.op = "lines" => cmd \in [op : {"lines"}, left : Nat]
  /\ cmd.op = "search" =>
       /\ cmd \in SearchCmd /\ cmd.addr % Step = 0
       /\ cmd.next = "read" =>
            /\ cmd.found = (IF cmd.addr = 0 THEN {} ELSE UpTo(cmd.addr))
            /\ cmd.hits = Cardinality(cmd.found) + Cardinality(Seams(cmd.addr))
       /\ cmd.next = "report" =>
            /\ cmd.found \cup cmd.todo = UpTo(cmd.addr + Step)
            /\ cmd.hits + Cardinality(cmd.todo)
                 = Cardinality(UpTo(cmd.addr + Step))
                     + Cardinality(Seams(cmd.addr + 1))

LEMMA SeenRange == \A m \in Seen : m \in Nat /\ m <= Flash + Flash
<1> SUFFICES ASSUME NEW m \in Seen PROVE m \in Nat /\ m <= Flash + Flash
  OBVIOUS
<1>1. m \in Marks \/ \E n \in Marks : m = Flash + n
  BY DEF Seen
<1>2. \A n \in Marks : n \in Nat /\ n <= Flash
  OBVIOUS
<1>3. CASE m \in Marks
  BY <1>2, <1>3
<1>4. ASSUME NEW n \in Marks, m = Flash + n PROVE m \in Nat /\ m <= Flash + Flash
  BY <1>2, <1>4
<1> QED  BY <1>1, <1>3, <1>4

LEMMA StepNat == Step \in Nat \ {0} /\ Seen \subseteq Nat
BY SeenRange DEF Step

LEMMA SeenFinite ==
  \A S \in SUBSET Seen : IsFiniteSet(S) /\ Cardinality(S) \in Nat
<1>1. IsFiniteSet(0 .. Flash + Flash)
  BY FS_Interval
<1>2. Seen \subseteq 0 .. Flash + Flash
  BY SeenRange
<1> QED  BY <1>1, <1>2, FS_Subset, FS_CardinalityType

(* The least of a set of numbers is in it.                                 *)
LEMMA LeastIn == \A S \in SUBSET Nat : S # {} => Min(S) \in S
<1> SUFFICES ASSUME NEW S \in SUBSET Nat, S # {} PROVE Min(S) \in S
  OBVIOUS
<1>1. PICK x \in S : \A y \in S : ~(<<y, x>> \in OpToRel(<, Nat))
  BY NatLessThanWellFounded, WFMin
<1>2. OpToRel(<, Nat) = {ss \in Nat \X Nat : ss[1] < ss[2]}
  BY DEF OpToRel
<1>3. \A y \in S : x <= y
  <2> SUFFICES ASSUME NEW y \in S PROVE ~(y < x)
    OBVIOUS
  <2>1. ~(<<y, x>> \in {ss \in Nat \X Nat : ss[1] < ss[2]})
    BY <1>1, <1>2
  <2> QED  BY <2>1
<1> QED  BY <1>3 DEF Min

(* No multiple of the step lies between two that follow each other.        *)
LEMMA Multiples ==
  ASSUME NEW a \in Nat, a % Step = 0
  PROVE  /\ (a + Step) % Step = 0
         /\ \A m \in Nat : a < m /\ m < a + Step => m % Step # 0
<1> USE StepNat
<1>1. \A n \in Nat : /\ n \div Step \in Nat /\ n % Step \in 0 .. Step - 1
                    /\ n = Step * (n \div Step) + (n % Step)
  OBVIOUS
<1>2. a = Step * (a \div Step)
  BY <1>1
<1>3. ASSUME NEW m \in Nat, a < m, m < a + Step, m % Step = 0 PROVE FALSE
  <2>1. m = Step * (m \div Step) /\ m \div Step \in Nat /\ a \div Step \in Nat
    BY <1>1, <1>3
  <2>2. CASE m \div Step <= a \div Step
    <3>1. Step * (m \div Step) <= Step * (a \div Step)
      BY <2>1, <2>2
    <3> QED  BY <1>2, <1>3, <2>1, <3>1
  <2>3. CASE m \div Step >= a \div Step + 1
    <3>1. Step * (m \div Step) >= Step * (a \div Step + 1)
      BY <2>1, <2>3
    <3>2. Step * (a \div Step + 1) = Step * (a \div Step) + Step
      BY <2>1
    <3> QED  BY <1>2, <1>3, <2>1, <3>1, <3>2
  <2> QED  BY <2>1, <2>2, <2>3
<1>4. (a + Step) % Step = 0
  <2> DEFINE u == (a + Step) \div Step
             r == (a + Step) % Step
  <2>1. u \in Nat /\ r \in 0 .. Step - 1 /\ a + Step = Step * u + r
    BY <1>1
  <2>2. r < Step /\ a \div Step \in Nat
    BY <1>1, <2>1
  <2>3. Step * (a \div Step + 1) = a + Step
    BY <1>2, <2>2
  <2>4. CASE u <= a \div Step
    <3>1. Step * u <= Step * (a \div Step)
      BY <2>1, <2>2, <2>4
    <3> QED  BY <1>2, <2>1, <2>2, <3>1
  <2>5. CASE u >= a \div Step + 1
    <3>1. Step * u >= Step * (a \div Step + 1)
      BY <2>1, <2>2, <2>5
    <3> QED  BY <2>1, <2>3, <3>1
  <2> QED  BY <2>1, <2>2, <2>4, <2>5
<1> QED  BY <1>3, <1>4

LEMMA WindowSearch == SearchInv /\ SearchWindow => SearchInv'
<1> SUFFICES ASSUME SearchInv, SearchWindow PROVE SearchInv'
  OBVIOUS
<1> DEFINE a == cmd.addr
           todo == {m \in Seen : a <= m /\ m + Sig <= a + Window}
           twice == {m \in {a} : m \in Seen /\ m > 0}
<1>1. cmd \in SearchCmd /\ a \in Nat /\ a % Step = 0 /\ cmd.next = "read"
  BY DEF SearchWindow, Searches, SearchInv, SearchCmd
<1>2. cmd' = [cmd EXCEPT !.todo = todo, !.next = "report"]
  BY DEF SearchWindow, Becomes
<1>3. /\ cmd' \in SearchCmd /\ cmd'.addr = a /\ cmd'.hits = cmd.hits
      /\ cmd'.found = cmd.found /\ cmd'.todo = todo /\ cmd'.next = "report"
  BY <1>1, <1>2 DEF SearchCmd
<1>4. todo = {m \in Seen : a <= m /\ m <= a + Step}
  <2>1. \A m \in Nat : m + Sig <= a + Window <=> m <= a + Step
    BY <1>1 DEF Step
  <2> QED  BY <2>1, StepNat
<1>5. cmd.found \cup todo = UpTo(a + Step) /\ cmd.found \cap todo = twice
  BY <1>1, <1>4, StepNat DEF SearchInv, SearchWindow, Searches, UpTo
<1>6. Seams(a + 1) = Seams(a) \cup twice /\ Seams(a) \cap twice = {}
  <2>1. \A m \in Nat : (m < a + 1 <=> m < a \/ m = a) /\ (m < a => m # a)
    BY <1>1
  <2>2. \A m \in Seen : m \in Seams(a + 1) <=> m \in Seams(a) \/ m \in twice
    BY <1>1, <2>1, StepNat DEF Seams
  <2>3. Seams(a + 1) \subseteq Seen /\ Seams(a) \subseteq Seen /\ twice \subseteq Seen
    BY DEF Seams
  <2>4. \A m \in Seams(a) : m \notin twice
    BY <2>1, <2>3, StepNat DEF Seams
  <2> QED  BY <2>2, <2>3, <2>4
<1>7. /\ cmd.found \in SUBSET Seen /\ todo \in SUBSET Seen /\ twice \in SUBSET Seen
      /\ Seams(a) \in SUBSET Seen
  BY <1>1 DEF SearchCmd, Seams
<1>8. Cardinality(UpTo(a + Step))
        = Cardinality(cmd.found) + Cardinality(todo) - Cardinality(twice)
  BY <1>5, <1>7, SeenFinite, FS_Union, Zenon
<1>9. Cardinality(Seams(a + 1)) = Cardinality(Seams(a)) + Cardinality(twice)
  <2>1. Cardinality(Seams(a + 1))
          = Cardinality(Seams(a)) + Cardinality(twice) - Cardinality(Seams(a) \cap twice)
    BY <1>6, <1>7, SeenFinite, FS_Union, Zenon
  <2> QED  BY <1>6, <1>7, <2>1, SeenFinite, FS_EmptySet
<1>10. cmd.hits = Cardinality(cmd.found) + Cardinality(Seams(a))
  BY <1>1 DEF SearchInv, SearchWindow, Searches
<1>11. /\ Cardinality(cmd.found) \in Nat /\ Cardinality(todo) \in Nat
       /\ Cardinality(twice) \in Nat /\ Cardinality(Seams(a)) \in Nat
  BY <1>7, SeenFinite
<1>12. cmd.hits + Cardinality(todo)
         = Cardinality(UpTo(a + Step)) + Cardinality(Seams(a + 1))
  BY <1>8, <1>9, <1>10, <1>11
<1>13. cmd'.op = "search"
  BY <1>3 DEF SearchCmd
<1> HIDE DEF a, todo
<1> QED  BY <1>1, <1>3, <1>5, <1>12, <1>13 DEF SearchInv

LEMMA HitSearch == SearchInv /\ SearchHit => SearchInv'
<1> SUFFICES ASSUME SearchInv, SearchHit PROVE SearchInv'
  OBVIOUS
<1> DEFINE m == Min(cmd.todo)
<1>1. cmd \in SearchCmd /\ cmd.op = "search" /\ cmd.next = "report" /\ cmd.todo # {}
  BY DEF SearchHit, Searches, SearchInv
<1>2. m \in cmd.todo
  BY <1>1, StepNat, LeastIn DEF SearchCmd
<1> HIDE DEF m
<1>3. cmd' = [cmd EXCEPT !.todo = @ \ {m}, !.hits = @ + 1, !.found = @ \cup {m}]
  BY DEF SearchHit, Becomes, m
<1>4. /\ cmd' \in SearchCmd /\ cmd'.op = "search" /\ cmd'.addr = cmd.addr
      /\ cmd'.hits = cmd.hits + 1 /\ cmd'.found = cmd.found \cup {m}
      /\ cmd'.todo = cmd.todo \ {m} /\ cmd'.next = "report"
  <2>1. m \in Seen /\ cmd.hits + 1 \in Nat
    BY <1>1, <1>2 DEF SearchCmd
  <2> QED  BY <1>1, <1>3, <2>1 DEF SearchCmd
<1>5. cmd'.found \cup cmd'.todo = cmd.found \cup cmd.todo
  BY <1>2, <1>4
<1>6. Cardinality(cmd'.todo) = Cardinality(cmd.todo) - 1 /\ Cardinality(cmd.todo) \in Nat
  BY <1>1, <1>2, <1>4, SeenFinite, FS_RemoveElement DEF SearchCmd
<1>7. cmd.hits \in Nat /\ cmd'.hits + Cardinality(cmd'.todo) = cmd.hits + Cardinality(cmd.todo)
  BY <1>1, <1>4, <1>6 DEF SearchCmd
<1> QED  BY <1>1, <1>4, <1>5, <1>7 DEF SearchInv

LEMMA OnSearch == SearchInv /\ SearchOn => SearchInv'
<1> SUFFICES ASSUME SearchInv, SearchOn PROVE SearchInv'
  OBVIOUS
<1> DEFINE a == cmd.addr
<1>1. /\ cmd \in SearchCmd /\ cmd.op = "search" /\ cmd.next = "report" /\ cmd.todo = {}
      /\ a \in Nat /\ a % Step = 0
  BY DEF SearchOn, Searches, SearchInv, SearchCmd
<1>2. cmd' = [cmd EXCEPT !.addr = @ + Step, !.next = "read"]
  BY DEF SearchOn, Becomes, Advance, Step
<1>3. /\ cmd' \in SearchCmd /\ cmd'.op = "search" /\ cmd'.addr = a + Step
      /\ cmd'.hits = cmd.hits /\ cmd'.found = cmd.found /\ cmd'.next = "read"
  <2>1. a + Step \in Nat
    BY <1>1, StepNat
  <2> QED  BY <1>1, <1>2, <2>1 DEF SearchCmd
<1>4. cmd.found = UpTo(a + Step)
  BY <1>1 DEF SearchInv
<1>5. (a + Step) % Step = 0 /\ \A m \in Nat : a < m /\ m < a + Step => m % Step # 0
  BY <1>1, Multiples
<1>6. Seams(a + Step) = Seams(a + 1)
  <2>1. \A m \in Nat : m % Step = 0 => (m < a + Step <=> m < a + 1)
    BY <1>1, <1>5, StepNat
  <2> QED  BY <2>1, StepNat DEF Seams
<1>7. cmd.hits = Cardinality(UpTo(a + Step)) + Cardinality(Seams(a + 1))
  BY <1>1, SeenFinite, FS_EmptySet DEF SearchInv, SearchCmd
<1>8. a + Step # 0
  BY <1>1, StepNat
<1> HIDE DEF a
<1> QED  BY <1>1, <1>3, <1>4, <1>5, <1>6, <1>7, <1>8 DEF SearchInv

LEMMA SearchStep == SearchInv /\ [Next]_vars => SearchInv'
<1> SUFFICES ASSUME SearchInv, [Next]_vars PROVE SearchInv'
  OBVIOUS
<1>1. CASE UNCHANGED cmd
  BY <1>1 DEF SearchInv
<1>2. CASE cmd'.op \notin {"search", "lines"}
  BY <1>2 DEF SearchInv
<1>3. CASE SpiRead
  <2>1. \E n \in Nat : cmd' = [op |-> "lines", left |-> n]
    BY <1>3 DEF SpiRead, Becomes
  <2> QED  BY <2>1 DEF SearchInv
<1>4. CASE SpiLine
  <2>1. cmd \in [op : {"lines"}, left : Nat]
    BY <1>4 DEF SpiLine, SearchInv
  <2>2. cmd' = IF cmd.left = 0 THEN Idle ELSE [cmd EXCEPT !.left = @ - 1]
    BY <1>4 DEF SpiLine, Becomes
  <2>3. cmd' = Idle \/ cmd' \in [op : {"lines"}, left : Nat]
    BY <2>1, <2>2
  <2> QED  BY <2>3 DEF SearchInv, Idle
<1>5. CASE SpiSearch
  <2>1. cmd' = [op |-> "search", addr |-> 0, hits |-> 0, found |-> {},
                todo |-> {}, next |-> "read"]
    BY <1>5 DEF SpiSearch, Becomes
  <2>2. Seams(0) = {}
    <3>1. \A m \in Nat : ~(m < 0)
      OBVIOUS
    <3> QED  BY <3>1, StepNat DEF Seams
  <2>3. \A n \in 0 .. Step - 1 : n % Step = n
    BY StepNat
  <2>4. 0 % Step = 0
    BY <2>3, StepNat
  <2>5. cmd' \in SearchCmd /\ cmd'.op = "search" /\ cmd'.addr = 0 /\ cmd'.next = "read"
        /\ cmd'.found = {} /\ cmd'.hits = 0
    BY <2>1 DEF SearchCmd
  <2>6. cmd'.hits = Cardinality(cmd'.found) + Cardinality(Seams(0))
    BY <2>2, <2>5, FS_EmptySet
  <2>7. cmd'.op # "lines" /\ cmd'.next # "report"
    BY <2>5
  <2> QED  BY <2>4, <2>5, <2>6, <2>7 DEF SearchInv
<1>6. CASE SearchWindow \/ SearchHit \/ SearchOn
  BY <1>6, WindowSearch, HitSearch, OnSearch
<1>7. CASE Info \/ InfoReply \/ Start \/ Erased \/ Data \/ SearchEnds
  <2>1. cmd' \in {[op |-> "info"], [op |-> "none"], [op |-> "erase"]}
    BY <1>7, Zenon DEF Info, InfoReply, Start, Erased, Data, SearchEnds, Becomes, Idle
  <2> QED  BY <1>2, <2>1
<1>8. CASE ~Frame
  <2>1. UNCHANGED cmd
    BY <1>8 DEF Next, vars, Sends, CdcIsr, Receiver, Fetch, Arm, Emit, Emits, Test,
                Lock, Write, EndLine, Unlock
  <2> QED  BY <1>1, <2>1
<1> QED
  BY <1>3, <1>4, <1>5, <1>6, <1>7, <1>8 DEF Frame

(* Frame 0x92's search, wherever the signature lies and however the        *)
(* windows divide the flash: every place is found, those at a seam twice,  *)
(* and those that the end of the last window comes round to once more.     *)
THEOREM SearchIsComplete == Spec => []SearchComplete
<1>1. Init => SearchInv
  BY DEF Init, Idle, SearchInv
<1>2. SearchInv => SearchComplete
  <2> SUFFICES ASSUME SearchInv, cmd.op = "search", cmd.next = "read", cmd.addr >= Flash
        PROVE  /\ cmd.found = UpTo(cmd.addr)
               /\ cmd.hits = Cardinality(cmd.found) + Cardinality(Seams(cmd.addr))
               /\ Seams(cmd.addr) = {m \in cmd.found :
                                       0 < m /\ m < cmd.addr /\ m % (Window - Sig) = 0}
    BY DEF SearchComplete, UpTo
  <2>1. cmd.addr \in Nat /\ cmd.addr # 0
    BY DEF SearchInv, SearchCmd
  <2>2. cmd.found = UpTo(cmd.addr)
    BY <2>1 DEF SearchInv
  <2>3. \A m \in Seen : m < cmd.addr => m <= cmd.addr
    BY <2>1, StepNat
  <2>4. Seams(cmd.addr) = {m \in cmd.found :
                            0 < m /\ m < cmd.addr /\ m % (Window - Sig) = 0}
    BY <2>1, <2>2, <2>3, StepNat DEF Seams, UpTo, Step
  <2> QED  BY <2>2, <2>4 DEF SearchInv
<1> QED  BY <1>1, <1>2, SearchStep, PTL DEF Spec
=============================================================================
