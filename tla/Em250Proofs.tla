----------------------------- MODULE Em250Proofs -----------------------------
(***************************************************************************)
(* Proofs about src/em250.c.  The receive ring of AtLink: types and the    *)
(* USART's speed for any readers, and for a single reader that the ring    *)
(* implements ByteFifo, whatever its size.                                 *)
(*                                                                         *)
(* The reflash of Loader, for every length of the image, every modulus of  *)
(* the block numbers and every count of tries.  An upload that reports     *)
(* success is whole for one of two reasons.  If no character was late, an  *)
(* ACK answers the block sent last, so the receiver has that block.  If    *)
(* nothing was lost or damaged, the receiver has it because it was sent,   *)
(* whatever is read as the answer.                                         *)
(***************************************************************************)
EXTENDS AtLink, Loader, SequenceTheorems, TLAPS

(* At most one thread reads the ring. *)
SoleReader == \A r, s \in Readers : r = s

TypeInv == TypeOK /\ Waits

USE RingAssumption, ReaderAssumption

(* Arithmetic of the ring's indices.                                       *)
LEMMA SuccSlot == \A i \in Slots : Succ(i) \in Slots /\ Succ(i) # i
BY DEF Succ, Slots

LEMMA BetweenNat ==
  \A t, h \in Slots : /\ Between(t, h) \in 0 .. RawQ - 1
                      /\ Between(t, h) = 0 <=> t = h
BY DEF Between, Slots

LEMMA BetweenSucc ==
  \A t, h \in Slots :
    /\ Succ(h) # t => Between(t, Succ(h)) = Between(t, h) + 1
    /\ t # h => Between(Succ(t), h) = Between(t, h) - 1
BY DEF Between, Slots, Succ

LEMMA BetweenDiff ==
  \A t, u, h \in Slots : Between(t, u) <= Between(t, h) =>
    Between(u, h) = Between(t, h) - Between(t, u)
BY DEF Between, Slots

LEMMA SlotSucc ==
  \A t \in Slots, i \in 1 .. RawQ - 1 : Slot(t, i + 1) = Slot(Succ(t), i)
BY DEF Slot, Slots, Succ

LEMMA SlotJump ==
  \A t, u \in Slots, i \in 1 .. RawQ : Between(t, u) + i <= RawQ =>
    Slot(t, Between(t, u) + i) = Slot(u, i)
BY DEF Slot, Slots, Between

LEMMA BudgetNat ==
  ASSUME TypeOK, NEW r \in Readers
  PROVE  Budget(r) \in Nat /\ Budget(r) <= Patience
BY DEF Budget, TypeOK

-----------------------------------------------------------------------------
(* Types, for any set of readers.                                          *)
LEMMA TypeInit == Init => TypeInv
<1> SUFFICES ASSUME Init PROVE TypeInv
  OBVIOUS
<1>1. TypeOK
  BY DEF Init, TypeOK, Slots, Speeds, Steps
<1>2. Waits
  BY DEF Init, Waits
<1> QED  BY <1>1, <1>2 DEF TypeInv

LEMMA ArriveType == TypeInv /\ (\E c \in Bytes : Arrive(c)) => TypeInv'
<1> SUFFICES ASSUME TypeInv, NEW c \in Bytes, Arrive(c) PROVE TypeInv'
  OBVIOUS
<1>1. TypeOK'
  BY SuccSlot DEF TypeInv, TypeOK, Arrive, reader
<1>2. Waits'
  BY DEF TypeInv, Waits, Arrive, reader, Budget
<1> QED  BY <1>1, <1>2 DEF TypeInv

LEMMA ReaderType ==
  ASSUME TypeInv, NEW r \in Readers, Begin(r) \/ Exchange(r)
  PROVE  TypeInv'
<1> USE DEF TypeInv, ring, reader, At, Goes
<1>1. CASE Begin(r)
  <2>1. TypeOK'
    BY <1>1 DEF Begin, Found, TypeOK, Speeds, Steps
  <2>2. Waits'
    BY <1>1 DEF Begin, TypeOK, Waits, Budget, Steps
  <2> QED  BY <2>1, <2>2
<1>2. CASE FlushLoad(r)
  BY <1>2 DEF FlushLoad, TypeOK, Waits, Budget, Steps
<1>3. CASE FlushStore(r)
  BY <1>3, BudgetNat DEF FlushStore, TypeOK, Waits, Budget, Steps
<1>4. CASE Poll(r)
  BY <1>4, BudgetNat DEF Poll, TypeOK, Waits, Budget, Steps
<1>5. CASE Awakes(r)
  BY <1>5 DEF Awakes, Finish, TypeOK, Waits, Budget, Steps
<1>6. CASE Fetch(r)
  BY <1>6 DEF Fetch, TypeOK, Waits, Budget, Steps
<1>7. CASE Load(r)
  BY <1>7 DEF Load, TypeOK, Waits, Budget, Steps
<1>8. CASE Store(r)
  <2>1. /\ tail' \in Slots /\ out' \in [byte : Bytes, n : {0, 1}]
        /\ n' \in [Readers -> 0 .. ReplyMax - 1]
    BY <1>8, SuccSlot DEF Store, TypeOK, Room
  <2>2. brr' \in Speeds /\ pc' \in [Readers -> Steps]
    BY <1>8 DEF Store, Finish, TypeOK, Steps
  <2>3. /\ rawq' = rawq /\ head' = head /\ prev' = prev /\ reg' = reg /\ byte' = byte
        /\ waited' \in [Readers -> 0 .. Patience + 1]
    BY <1>8 DEF Store, TypeOK
  <2>4. TypeOK'
    BY <2>1, <2>2, <2>3 DEF TypeOK
  <2>5. Waits'
    BY <1>8, <2>4 DEF Store, Finish, TypeOK, Waits, Budget
  <2> QED  BY <2>4, <2>5
<1> QED
  BY <1>1, <1>2, <1>3, <1>4, <1>5, <1>6, <1>7, <1>8 DEF Exchange

(* Indices, buffers and poll counters stay in range, for any readers.      *)
THEOREM TypeCorrect == Spec => []TypeOK
<1>1. TypeInv /\ [Next]_vars => TypeInv'
  <2>1. TypeInv /\ UNCHANGED vars => TypeInv'
    BY DEF TypeInv, vars, ring, reader, TypeOK, Waits, Budget
  <2> QED  BY <2>1, ArriveType, ReaderType DEF Next
<1>2. TypeInv => TypeOK
  BY DEF TypeInv
<1> QED  BY TypeInit, <1>1, <1>2, PTL DEF Spec
-----------------------------------------------------------------------------
(* The speed of the USART, for a single reader that sets it back, as       *)
(* em250_at() does.  An exchange begins when there is none, so the speed   *)
(* it finds, and sets back, is the frames' own.                            *)
SpeedInv ==
  /\ TypeInv /\ SpeedHeld
  /\ \A r \in Readers : pc[r] # "idle" => prev[r] = "zbx"

LEMMA SpeedInit == Init => SpeedInv
<1> SUFFICES ASSUME Init PROVE SpeedInv
  OBVIOUS
<1>1. SpeedHeld /\ \A r \in Readers : pc[r] = "idle"
  BY DEF Init, SpeedHeld
<1> QED  BY <1>1, TypeInit DEF SpeedInv

LEMMA ReaderSpeed ==
  ASSUME SoleReader, Restores = Readers, SpeedInv,
         NEW r \in Readers, Begin(r) \/ Exchange(r)
  PROVE  SpeedInv'
<1> USE DEF ring, reader, At, Goes
<1>1. TypeInv'
  BY ReaderType DEF SpeedInv
<1>2. /\ SpeedHeld <=> (pc[r] # "idle" <=> brr = "at")
      /\ SpeedHeld' <=> (pc'[r] # "idle" <=> brr' = "at")
  BY DEF SoleReader, SpeedHeld
<1>3. brr \in Speeds /\ pc \in [Readers -> Steps] /\ prev \in [Readers -> Speeds]
  BY DEF SpeedInv, TypeInv, TypeOK
<1>4. pc[r] # "idle" => prev[r] = "zbx" /\ brr = "at"
  BY <1>2 DEF SpeedInv
<1>5. (pc'[r] # "idle" <=> brr' = "at") /\ (pc'[r] # "idle" => prev'[r] = "zbx")
  <2>1. CASE Begin(r)
    BY <2>1, <1>2, <1>3 DEF Begin, Found, SpeedInv, Speeds
  <2>2. CASE FlushLoad(r) \/ FlushStore(r) \/ Poll(r) \/ Fetch(r) \/ Load(r)
    BY <2>2, <1>3, <1>4 DEF FlushLoad, FlushStore, Poll, Fetch, Load
  <2>3. CASE Awakes(r)
    BY <2>3, <1>3, <1>4 DEF Awakes, Finish
  <2>4. CASE Store(r)
    BY <2>4, <1>3, <1>4 DEF Store, Finish
  <2> QED  BY <2>1, <2>2, <2>3, <2>4 DEF Exchange
<1>6. \A s \in Readers : s = r
  BY DEF SoleReader
<1> QED  BY <1>1, <1>2, <1>5, <1>6 DEF SpeedInv

(* The USART is at the radio's speed exactly while an exchange lasts.      *)
THEOREM SpeedIsHeld == SoleReader /\ Restores = Readers => (Spec => []SpeedHeld)
<1> SUFFICES ASSUME SoleReader, Restores = Readers PROVE Spec => []SpeedHeld
  OBVIOUS
<1>1. SpeedInv /\ [Next]_vars => SpeedInv'
  <2> SUFFICES ASSUME SpeedInv, [Next]_vars PROVE SpeedInv'
    OBVIOUS
  <2>1. CASE \E c \in Bytes : Arrive(c)
    <3>1. UNCHANGED <<pc, brr, prev>>
      BY <2>1 DEF Arrive, reader
    <3> QED  BY <2>1, <3>1, ArriveType DEF SpeedInv, SpeedHeld
  <2>2. CASE \E r \in Readers : Begin(r) \/ Exchange(r)
    BY <2>2, ReaderSpeed
  <2>3. CASE UNCHANGED vars
    BY <2>3 DEF vars, ring, reader, SpeedInv, SpeedHeld, TypeInv, TypeOK, Waits, Budget
  <2> QED  BY <2>1, <2>2, <2>3 DEF Next
<1>2. SpeedInv => SpeedHeld
  BY DEF SpeedInv
<1> QED  BY SpeedInit, <1>1, <1>2, PTL DEF Spec
-----------------------------------------------------------------------------
(* What a single reader is after, for a ring of any size.                  *)
RingInv == TypeInv /\ Reading

LEMMA RingInit == Init => RingInv
<1> SUFFICES ASSUME Init PROVE RingInv
  OBVIOUS
<1>1. Reading
  BY DEF Init, Reading
<1> QED  BY <1>1, TypeInit DEF RingInv

(* A byte that arrives goes to a slot nobody is reading.                   *)
LEMMA ArriveRing ==
  ASSUME RingInv, NEW c \in Bytes, Arrive(c)
  PROVE  Reading'
<1> SUFFICES ASSUME NEW r \in Readers
      PROVE  /\ pc[r] \in {"fetch", "load", "store"} => tail # head'
             /\ pc[r] \in {"load", "store"} => byte[r] = rawq'[tail]
             /\ pc[r] = "store" => reg[r] = tail
             /\ pc[r] = "drop" => Between(tail, reg[r]) <= Between(tail, head')
  BY DEF Arrive, Reading, reader, Between
<1>1. head' = Succ(head) /\ tail # head' /\ head \in Slots /\ tail \in Slots
  BY DEF Arrive, Full, RingInv, TypeInv, TypeOK
<1>2. Between(tail, head') = Between(tail, head) + 1
  BY <1>1, BetweenSucc
<1>3. tail # head => rawq'[tail] = rawq[tail]
  BY <1>1 DEF Arrive, RingInv, TypeInv, TypeOK
<1>4. reg[r] \in Slots /\ Between(tail, reg[r]) \in Nat /\ Between(tail, head) \in Nat
  BY <1>1, BetweenNat DEF RingInv, TypeInv, TypeOK
<1> QED
  BY <1>1, <1>2, <1>3, <1>4 DEF RingInv, Reading

LEMMA ReaderRing ==
  ASSUME SoleReader, RingInv, NEW r \in Readers, Begin(r) \/ Exchange(r)
  PROVE  Reading'
<1> USE DEF RingInv, TypeInv, ring, reader, At, Goes
<1>0. Readers = {r}
  BY DEF SoleReader
<1>a. SUFFICES
        /\ pc'[r] \in {"fetch", "load", "store"} => tail' # head'
        /\ pc'[r] \in {"load", "store"} => byte'[r] = rawq'[tail']
        /\ pc'[r] = "store" => reg'[r] = tail'
        /\ pc'[r] = "drop" => Between(tail', reg'[r]) <= Between(tail', head')
  BY <1>0 DEF Reading, Between
<1>1. CASE Begin(r)
  BY <1>1 DEF Begin, TypeOK
<1>2. CASE FlushLoad(r)
  <2>1. Between(tail, head) \in Nat
    BY BetweenNat DEF TypeOK
  <2> QED  BY <1>2, <2>1 DEF FlushLoad, TypeOK
<1>3. CASE FlushStore(r)
  BY <1>3 DEF FlushStore, TypeOK
<1>4. CASE Poll(r)
  BY <1>4 DEF Poll, TypeOK
<1>5. CASE Awakes(r)
  BY <1>5 DEF Awakes, Finish, TypeOK
<1>6. CASE Fetch(r)
  BY <1>6 DEF Fetch, TypeOK, Reading
<1>7. CASE Load(r)
  BY <1>7 DEF Load, TypeOK, Reading
<1>8. CASE Store(r)
  BY <1>8 DEF Store, Finish, TypeOK
<1> QED
  BY <1>1, <1>2, <1>3, <1>4, <1>5, <1>6, <1>7, <1>8 DEF Exchange

LEMMA RingNext == SoleReader /\ RingInv /\ [Next]_vars => RingInv'
<1> SUFFICES ASSUME SoleReader, RingInv, [Next]_vars PROVE RingInv'
  OBVIOUS
<1>1. CASE \E c \in Bytes : Arrive(c)
  BY <1>1, ArriveType, ArriveRing DEF RingInv
<1>2. CASE \E r \in Readers : Begin(r) \/ Exchange(r)
  BY <1>2, ReaderType, ReaderRing DEF RingInv
<1>3. CASE UNCHANGED vars
  BY <1>3 DEF RingInv, TypeInv, vars, ring, reader, TypeOK, Waits, Budget,
              Reading, Between
<1> QED  BY <1>1, <1>2, <1>3 DEF Next

(* Between its test and its store, the byte the reader is after stays the  *)
(* oldest one in the ring, whatever arrives meanwhile.                     *)
THEOREM ReadsTheOldest == SoleReader => (Spec => []Reading)
<1> SUFFICES ASSUME SoleReader PROVE Spec => []Reading
  OBVIOUS
<1>1. RingInv /\ [Next]_vars => RingInv'
  BY RingNext
<1>2. RingInv => Reading
  BY DEF RingInv
<1> QED  BY RingInit, <1>1, <1>2, PTL DEF Spec
-----------------------------------------------------------------------------
(* The sequence the ring stands for.                                       *)
LEMMA SlotInRing ==
  ASSUME TypeOK, NEW i \in 1 .. RawQ
  PROVE  Slot(tail, i) \in Slots
BY DEF TypeOK, Slots, Slot

HeldIsSeq ==
  /\ Count \in 0 .. RawQ - 1
  /\ Held \in Seq(Bytes) /\ Len(Held) = Count
  /\ \A i \in 1 .. Count : Held[i] = rawq[Slot(tail, i)]

LEMMA HeldSeq == TypeOK => HeldIsSeq
<1> SUFFICES ASSUME TypeOK PROVE HeldIsSeq
  OBVIOUS
<1> USE DEF HeldIsSeq
<1>1. Count \in 0 .. RawQ - 1
  BY BetweenNat DEF Count, TypeOK
<1>2. \A i \in 1 .. Count : rawq[Slot(tail, i)] \in Bytes
  BY <1>1, SlotInRing DEF TypeOK
<1>3. Held \in [1 .. Count -> Bytes]
  BY <1>2 DEF Held
<1>4. Held \in Seq(Bytes) /\ Len(Held) = Count
  BY <1>1, <1>3
<1> QED  BY <1>1, <1>4 DEF Held

(* Two readings of the ring agree when their bytes do.                     *)
LEMMA SameBytes ==
  ASSUME NEW s \in Seq(Bytes), TypeOK', Len(s) = Count',
         \A i \in 1 .. Count' : s[i] = rawq'[Slot(tail', i)]
  PROVE  Held' = s
<1>1. HeldIsSeq'
  BY HeldSeq, PTL
<1>2. /\ Held' \in Seq(Bytes) /\ Len(Held') = Count'
      /\ \A i \in 1 .. Count' : Held'[i] = rawq'[Slot(tail', i)]
  BY <1>1 DEF HeldIsSeq
<1> QED  BY <1>2, SeqEqual

LEMMA FifoInit == Init => Fifo!Init
<1> SUFFICES ASSUME Init PROVE Fifo!Init
  OBVIOUS
<1>1. Count = 0
  BY DEF Init, Count, Between
<1>2. TypeOK
  BY TypeInit DEF TypeInv
<1>3. Held = <<>>
  BY <1>1, <1>2, HeldSeq DEF HeldIsSeq
<1>4. Stale = 0
  BY DEF Init, Stale
<1> QED  BY <1>3, <1>4 DEF Init, Fifo!Init

(* An arrival appends.                                                     *)
LEMMA ArriveFifo ==
  ASSUME RingInv, NEW c \in Bytes, Arrive(c)
  PROVE  Fifo!Arrive(c)
<1>1. TypeOK /\ TypeOK' /\ tail' = tail /\ head' = Succ(head) /\ head' # tail
  BY ArriveType DEF RingInv, TypeInv, Arrive, Full
<1>2. Count' = Count + 1
  BY <1>1, BetweenSucc DEF Count, TypeOK, Between
<1>3. Len(Held) < RawQ - 1
  BY <1>1, <1>2, HeldSeq, BetweenNat DEF HeldIsSeq, Count, TypeOK, Between, Slots
<1>4. \A i \in 1 .. Count' : Append(Held, c)[i] = rawq'[Slot(tail', i)]
  <2> SUFFICES ASSUME NEW i \in 1 .. Count'
        PROVE  Append(Held, c)[i] = rawq'[Slot(tail, i)]
    BY <1>1 DEF Slot
  <2>1. Slot(tail, i) = head <=> i = Count + 1
    BY <1>1, <1>2, <1>3, HeldSeq DEF HeldIsSeq, Slot, Count, Between, Slots, TypeOK
  <2>2. Slot(tail, i) \in Slots
    BY <1>1, <1>2, <1>3, HeldSeq, SlotInRing DEF HeldIsSeq
  <2>3. rawq'[Slot(tail, i)] = IF i = Count + 1 THEN c ELSE rawq[Slot(tail, i)]
    BY <2>1, <2>2, <1>1 DEF Arrive, TypeOK
  <2>4. Append(Held, c)[i] = IF i = Count + 1 THEN c ELSE Held[i]
    BY <1>1, <1>2, HeldSeq DEF HeldIsSeq
  <2> QED  BY <2>3, <2>4, <1>1, <1>2, HeldSeq DEF HeldIsSeq
<1>5. Append(Held, c) \in Seq(Bytes) /\ Len(Append(Held, c)) = Count'
  BY <1>1, <1>2, HeldSeq DEF HeldIsSeq
<1>6. Held' = Append(Held, c)
  BY <1>1, <1>4, <1>5, SameBytes
<1>7. Stale' = Stale
  BY DEF Arrive, reader, Stale, Between
<1> QED  BY <1>3, <1>6, <1>7 DEF Fifo!Arrive, Arrive

(* What a flush under way is about to lose.                                *)
StaleOf(r) == IF pc[r] = "drop" THEN Between(tail, reg[r]) ELSE 0

LEMMA StaleSole ==
  ASSUME SoleReader, NEW r \in Readers
  PROVE  Stale = StaleOf(r) /\ Stale' = StaleOf(r)'
<1>1. Readers = {r}
  BY DEF SoleReader
<1>2. Stale = StaleOf(r)
  BY <1>1 DEF Stale, StaleOf
<1>3. Stale' = StaleOf(r)'
  BY <1>1 DEF Stale, StaleOf, Between
<1> QED  BY <1>2, <1>3

(* Taking the oldest byte.                                                 *)
LEMMA StoreFifo ==
  ASSUME SoleReader, RingInv, NEW r \in Readers, Store(r)
  PROVE  Fifo!Take
<1>1. /\ TypeOK /\ tail # head /\ byte[r] = rawq[tail] /\ reg[r] = tail
      /\ pc[r] = "store"
  BY DEF RingInv, TypeInv, Reading, Store, At
<1>2. /\ TypeOK' /\ tail' = Succ(tail) /\ head' = head /\ rawq' = rawq
      /\ out' = [byte |-> rawq[tail], n |-> 1 - out.n]
  BY <1>1, ReaderType DEF RingInv, TypeInv, Store, Exchange
<1>3. Count' = Count - 1 /\ Count # 0
  BY <1>1, <1>2, BetweenSucc, BetweenNat DEF Count, TypeOK, Between
<1>4. Held # <<>> /\ Len(Held) = Count /\ Held \in Seq(Bytes)
  BY <1>1, <1>3, HeldSeq DEF HeldIsSeq
<1>5. Head(Held) = rawq[tail]
  BY <1>1, <1>3, <1>4, HeldSeq DEF HeldIsSeq, Slot, TypeOK, Slots
<1>6. Tail(Held) \in Seq(Bytes) /\ Len(Tail(Held)) = Count'
  BY <1>3, <1>4, HeadTailProperties
<1>7. \A i \in 1 .. Count' : Tail(Held)[i] = rawq'[Slot(tail', i)]
  <2> SUFFICES ASSUME NEW i \in 1 .. Count'
        PROVE  Tail(Held)[i] = rawq'[Slot(tail', i)]
    OBVIOUS
  <2>1. i \in Nat \ {0} /\ i + 1 \in 1 .. Count
    BY <1>1, <1>3, HeldSeq DEF HeldIsSeq
  <2>2. Tail(Held)[i] = rawq[Slot(tail, i + 1)]
    BY <1>1, <1>4, <1>6, <2>1, HeadTailProperties, HeldSeq DEF HeldIsSeq
  <2>3. i \in 1 .. RawQ - 1 /\ tail \in Slots
    BY <1>1, <1>3, <2>1, HeldSeq DEF HeldIsSeq, TypeOK
  <2>4. Slot(tail, i + 1) = Slot(tail', i)
    BY <1>2, <2>3, SlotSucc
  <2> QED  BY <1>2, <2>2, <2>4
<1>8. Held' = Tail(Held)
  BY <1>2, <1>6, <1>7, SameBytes
<1>9. Stale = 0 /\ Stale' = 0
  BY <1>1, StaleSole DEF Store, Finish, Goes, StaleOf, TypeOK
<1> QED  BY <1>2, <1>4, <1>5, <1>8, <1>9 DEF Fifo!Take

(* A flush drops what was there when it was called.                        *)
LEMMA FlushFifo ==
  ASSUME SoleReader, RingInv, NEW r \in Readers, FlushStore(r)
  PROVE  Fifo!FlushDone
<1> DEFINE s == Between(tail, reg[r])
<1>1. TypeOK /\ s <= Count /\ pc[r] = "drop"
  BY DEF RingInv, TypeInv, Reading, FlushStore, At, Count
<1>2. /\ TypeOK' /\ tail' = reg[r] /\ head' = head /\ rawq' = rawq /\ out' = out
      /\ reg[r] \in Slots
  BY <1>1, ReaderType DEF RingInv, TypeInv, FlushStore, Exchange, TypeOK
<1>3. Stale = s /\ Stale' = 0
  BY <1>1, StaleSole DEF FlushStore, Goes, StaleOf, TypeOK
<1>4. s \in 0 .. RawQ - 1 /\ Count \in 0 .. RawQ - 1 /\ Count' = Count - s
  <2>1. tail \in Slots /\ head \in Slots /\ Count' = Between(reg[r], head)
    BY <1>1, <1>2 DEF Count, TypeOK, Between
  <2> QED  BY <1>1, <1>2, <2>1, BetweenNat, BetweenDiff DEF Count
<1>5. /\ Len(Held) = Count /\ Held \in Seq(Bytes)
      /\ \A i \in s + 1 .. Count : Held[i] \in Bytes
  BY <1>1, <1>4, HeldSeq, ElementOfSeq DEF HeldIsSeq
<1> DEFINE rest == SubSeq(Held, s + 1, Count)
<1>6. /\ rest \in Seq(Bytes) /\ Len(rest) = Count'
      /\ \A i \in 1 .. Count' : rest[i] = Held[s + i]
  <2> HIDE DEF s
  <2>1. /\ rest \in Seq(Bytes)
        /\ Len(rest) = IF s + 1 <= Count THEN Count - (s + 1) + 1 ELSE 0
        /\ \A i \in 1 .. Count - (s + 1) + 1 : rest[i] = Held[(s + 1) + i - 1]
    BY <1>4, <1>5, SubSeqProperties
  <2> QED  BY <1>1, <1>4, <2>1
<1>7. \A i \in 1 .. Count' : rest[i] = rawq'[Slot(tail', i)]
  <2> SUFFICES ASSUME NEW i \in 1 .. Count'
        PROVE  rest[i] = rawq'[Slot(tail', i)]
    OBVIOUS
  <2>1. i \in Nat \ {0} /\ s + i \in 1 .. Count
    BY <1>4
  <2>2. rest[i] = rawq[Slot(tail, s + i)]
    BY <1>1, <1>6, <2>1, HeldSeq DEF HeldIsSeq
  <2>3. i \in 1 .. RawQ /\ s + i <= RawQ /\ tail \in Slots
    BY <1>1, <1>4, <2>1 DEF TypeOK
  <2>4. Slot(tail, s + i) = Slot(tail', i)
    BY <1>2, <2>3, SlotJump
  <2> QED  BY <1>2, <2>2, <2>4
<1>8. Held' = rest
  BY <1>2, <1>6, <1>7, SameBytes
<1> QED  BY <1>2, <1>3, <1>5, <1>8 DEF Fifo!FlushDone

(* The steps a fifo does not see, and the call of a flush.                 *)
LEMMA ReaderFifo ==
  ASSUME SoleReader, RingInv, NEW r \in Readers, Begin(r) \/ Exchange(r)
  PROVE  Fifo!Next \/ UNCHANGED Fifo!vars
<1> USE DEF ring, reader, At, Goes
<1>1. CASE Store(r)
  BY <1>1, StoreFifo DEF Fifo!Next
<1>2. CASE FlushStore(r)
  BY <1>2, FlushFifo DEF Fifo!Next
<1>3. TypeOK
  BY DEF RingInv, TypeInv
<1>4. CASE FlushLoad(r)
  <2>1. Held' = Held /\ out' = out
    BY <1>4 DEF FlushLoad, Held, Count, Slot, Between
  <2>2. StaleOf(r)' = Count
    BY <1>3, <1>4 DEF FlushLoad, StaleOf, Count, Between, TypeOK
  <2>3. Stale' = Len(Held)
    BY <1>3, <2>2, StaleSole, HeldSeq DEF HeldIsSeq
  <2> QED  BY <2>1, <2>3 DEF Fifo!Next, Fifo!FlushCalled
<1>5. CASE Begin(r) \/ Poll(r) \/ Awakes(r) \/ Fetch(r) \/ Load(r)
  <2>1. Held' = Held /\ out' = out
    BY <1>5 DEF Begin, Poll, Awakes, Fetch, Load, Held, Count, Slot, Between
  <2>2. StaleOf(r)' = 0 /\ StaleOf(r) = 0
    BY <1>3, <1>5 DEF Begin, Poll, Awakes, Finish, Fetch, Load, StaleOf, TypeOK
  <2> QED  BY <2>1, <2>2, StaleSole DEF Fifo!vars
<1> QED
  BY <1>1, <1>2, <1>4, <1>5 DEF Exchange

(* A ring with one reader is a fifo, whatever its size and whenever the    *)
(* interrupt comes between two of the reader's accesses.                   *)
THEOREM RingIsFifo == SoleReader => (Spec => IsFifo)
<1> SUFFICES ASSUME SoleReader PROVE Spec => IsFifo
  OBVIOUS
<1>1. RingInv /\ [Next]_vars => RingInv'
  BY RingNext
<1>2. RingInv /\ [Next]_vars => [Fifo!Next]_(Fifo!vars)
  <2> SUFFICES ASSUME RingInv, [Next]_vars
        PROVE  Fifo!Next \/ UNCHANGED Fifo!vars
    OBVIOUS
  <2>1. CASE \E c \in Bytes : Arrive(c)
    BY <2>1, ArriveFifo DEF Fifo!Next
  <2>2. CASE \E r \in Readers : Begin(r) \/ Exchange(r)
    BY <2>2, ReaderFifo
  <2>3. CASE UNCHANGED vars
    BY <2>3 DEF vars, ring, reader, Fifo!vars, Held, Count, Slot, Between, Stale
  <2> QED  BY <2>1, <2>2, <2>3 DEF Next
<1> QED
  BY RingInit, FifoInit, <1>1, <1>2, PTL DEF Spec, IsFifo, Fifo!Spec
-----------------------------------------------------------------------------
(* The reflash. *)
USE LoaderAssumption

(* The first m blocks. *)
First(m) == [i \in 1 .. m |-> i]

Uploading == {"ask", "send", "answer", "end", "ended", "done"}
OnLine == ToSet(rq) \cup ToSet(air)

LoaderTypes ==
  /\ mode \in Modes
  /\ air \in Seq(Chars) /\ rq \in Seq(Chars)
  /\ late \in BOOLEAN /\ broken \in BOOLEAN /\ raw \in BOOLEAN /\ shared \in BOOLEAN

(* Before there is an upload nothing has answered a block, and a receiver  *)
(* that another's text has started has none: whoever has the port.         *)
Quiet == ~again /\ at \notin Uploading =>
           "ACK" \notin OnLine /\ (mode = "upload" => image = <<>>)
Starts == at = "start" => ~again

(* The rest is about a remote that has the port for itself.                *)
(* Asking for the first block. *)
Asking == at = "ask" => /\ b = 1 /\ "ACK" \notin OnLine
                        /\ mode = "upload" => image = <<>>

(* Nobody receives, and nobody has answered. *)
Deaf == mode # "upload" /\ "ACK" \notin OnLine

(* Sending a block: the receiver has all before it, and perhaps itself.    *)
Sound == ~(late /\ broken)
Sending ==
  at \in {"send", "answer"} =>
    /\ b \in 1 .. Total
    /\ mode = "upload" /\ Sound => image \in {First(b - 1), First(b)}
    /\ ~broken => mode = "upload" \/ Deaf
(* After the first send it has it, or something went wrong ...             *)
SentAndTaken == at = "answer" /\ ~broken => image = First(b) \/ Deaf
(* ... and it has it when its answer can be trusted and says so.           *)
Acked == at = "answer" /\ ~late /\ "ACK" \in OnLine => image = First(b)

Ending == at \in {"end", "ended", "done"} /\ Sound => image = Whole

Alone  == Asking /\ Sending /\ SentAndTaken /\ Acked /\ Ending
Course == Quiet /\ Starts /\ (~shared => Alone)
UploadInv == LoaderTypes /\ Course

(* A banner in the capture was printed since it was emptied.               *)
EntryInv == ((at \in {"prompt", "look"} /\ raw) \/ at = "entered") /\ ~shared =>
              mode # "app"
-----------------------------------------------------------------------------
(* The characters of a sequence. *)
LEMMA SetOfEmpty == ToSet(<<>>) = {}
BY DEF ToSet

LEMMA SetOfAppend ==
  ASSUME NEW S, NEW s \in Seq(S), NEW c \in S
  PROVE  Append(s, c) \in Seq(S) /\ ToSet(Append(s, c)) = ToSet(s) \cup {c}
<1>1. /\ Append(s, c) \in Seq(S) /\ Len(Append(s, c)) = Len(s) + 1
      /\ \A i \in 1 .. Len(s) : Append(s, c)[i] = s[i]
      /\ Append(s, c)[Len(s) + 1] = c
  BY AppendProperties
<1>2. DOMAIN s = 1 .. Len(s) /\ DOMAIN Append(s, c) = 1 .. (Len(s) + 1) /\ Len(s) \in Nat
  BY <1>1
<1>3. 1 .. (Len(s) + 1) = (1 .. Len(s)) \cup {Len(s) + 1}
  BY <1>2
<1>4. \A i \in 1 .. Len(s) : i \in DOMAIN Append(s, c)
  BY <1>2
<1>5. Len(s) + 1 \in DOMAIN Append(s, c)
  BY <1>2
<1>6. ToSet(Append(s, c)) \subseteq ToSet(s) \cup {c}
  BY <1>1, <1>2, <1>3 DEF ToSet
<1>7. ToSet(s) \subseteq ToSet(Append(s, c)) /\ c \in ToSet(Append(s, c))
  BY <1>1, <1>2, <1>4, <1>5 DEF ToSet
<1> QED  BY <1>1, <1>6, <1>7

LEMMA SetOfTail ==
  ASSUME NEW S, NEW s \in Seq(S), s # <<>>
  PROVE  /\ Head(s) \in ToSet(s) /\ Tail(s) \in Seq(S)
         /\ ToSet(Tail(s)) \subseteq ToSet(s)
<1>1. /\ Head(s) = s[1] /\ Tail(s) \in Seq(S) /\ Len(Tail(s)) = Len(s) - 1
      /\ \A i \in 1 .. Len(Tail(s)) : Tail(s)[i] = s[i + 1]
  BY HeadTailProperties
<1>2. /\ Len(s) \in Nat \ {0} /\ DOMAIN s = 1 .. Len(s)
      /\ DOMAIN Tail(s) = 1 .. (Len(s) - 1)
  BY <1>1, EmptySeq
<1>3. \A i \in DOMAIN Tail(s) : Tail(s)[i] = s[i + 1] /\ i + 1 \in DOMAIN s
  BY <1>1, <1>2
<1>4. 1 \in DOMAIN s
  BY <1>2
<1>5. Head(s) \in ToSet(s)
  BY <1>1, <1>4, Zenon DEF ToSet
<1>6. ToSet(Tail(s)) \subseteq ToSet(s)
  BY <1>3, Zenon DEF ToSet
<1> QED  BY <1>1, <1>5, <1>6

LEMMA SetOfCons ==
  ASSUME NEW S, NEW s \in Seq(S), NEW c \in S
  PROVE  <<c>> \o s \in Seq(S) /\ ToSet(<<c>> \o s) \subseteq {c} \cup ToSet(s)
<1>1. <<c>> \in Seq(S) /\ Len(<<c>>) = 1 /\ <<c>>[1] = c
  OBVIOUS
<1>2. /\ <<c>> \o s \in Seq(S) /\ Len(<<c>> \o s) = Len(s) + 1
      /\ \A i \in 1 .. (Len(s) + 1) :
            (<<c>> \o s)[i] = IF i <= 1 THEN <<c>>[i] ELSE s[i - 1]
  BY <1>1, ConcatProperties
<1>3. \A i \in DOMAIN (<<c>> \o s) :
        (<<c>> \o s)[i] = c \/ ((<<c>> \o s)[i] = s[i - 1] /\ i - 1 \in DOMAIN s)
  BY <1>1, <1>2
<1> QED  BY <1>2, <1>3, Zenon DEF ToSet

(* The first blocks of the image. *)
LEMMA FirstBlocks ==
  /\ First(0) = <<>>
  /\ \A m \in Nat : First(m) \in Seq(Nat) /\ Len(First(m)) = m
  /\ \A m \in Nat : Append(First(m), m + 1) = First(m + 1)
<1>1. ASSUME NEW m \in Nat PROVE First(m) \in Seq(Nat) /\ Len(First(m)) = m
  BY DEF First
<1>2. First(0) = <<>>
  BY DEF First
<1>3. ASSUME NEW m \in Nat PROVE Append(First(m), m + 1) = First(m + 1)
  <2>0. m + 1 \in Nat
    OBVIOUS
  <2>1. /\ First(m) \in Seq(Nat) /\ Len(First(m)) = m
        /\ First(m + 1) \in Seq(Nat) /\ Len(First(m + 1)) = m + 1
    BY <1>1, <2>0, Zenon
  <2>2. /\ Append(First(m), m + 1) \in Seq(Nat) /\ Len(Append(First(m), m + 1)) = m + 1
        /\ \A i \in 1 .. m : Append(First(m), m + 1)[i] = First(m)[i]
        /\ Append(First(m), m + 1)[m + 1] = m + 1
    BY <2>1, AppendProperties
  <2>3. \A i \in 1 .. (m + 1) : Append(First(m), m + 1)[i] = First(m + 1)[i]
    BY <2>2 DEF First
  <2> QED  BY <2>1, <2>2, <2>3, SeqEqual
<1> QED  BY <1>1, <1>2, <1>3

(* The number of a block tells it from its neighbours. *)
LEMMA Neighbours == \A m \in Nat : Number(m) # Number(m + 1)
<1> SUFFICES ASSUME NEW m \in Nat, m % NumMod = (m + 1) % NumMod PROVE FALSE
  BY DEF Number
<1> DEFINE q == m \div NumMod
           u == (m + 1) \div NumMod
<1>1. NumMod \in Nat /\ NumMod >= 2
  OBVIOUS
<1>2. m = NumMod * q + (m % NumMod) /\ q \in Nat /\ m % NumMod \in Nat
  BY <1>1
<1>3. m + 1 = NumMod * u + ((m + 1) % NumMod) /\ u \in Nat
  BY <1>1
<1> HIDE DEF q, u
<1>4. NumMod * u = NumMod * q + 1 /\ NumMod * u \in Nat /\ NumMod * q \in Nat
  BY <1>1, <1>2, <1>3
<1>5. CASE u <= q
  <2>1. NumMod * u <= NumMod * q
    BY <1>1, <1>2, <1>3, <1>5
  <2> QED  BY <1>4, <2>1
<1>6. CASE u >= q + 1
  <2>1. NumMod * u >= NumMod * (q + 1)
    BY <1>1, <1>2, <1>3, <1>6
  <2>2. NumMod * (q + 1) = NumMod * q + NumMod
    BY <1>1, <1>2
  <2> QED  BY <1>1, <1>4, <2>1, <2>2
<1> QED  BY <1>2, <1>3, <1>5, <1>6
-----------------------------------------------------------------------------
LEMMA EntryStep == EntryInv /\ [LoaderNext]_loaderVars => EntryInv'
<1> SUFFICES ASSUME EntryInv, [LoaderNext]_loaderVars PROVE EntryInv'
  OBVIOUS
<1> USE DEF EntryInv, Move
<1>1. CASE Banner
  BY <1>1 DEF Banner, loop
<1>2. CASE Arrives \/ Garbled \/ \E c \in {"C", "other"} : Says(c)
  BY <1>2 DEF Arrives, Garbled, Says, radio, loop
<1>3. CASE GivesUp
  BY <1>3 DEF GivesUp, loop
<1>4. CASE Call \/ Prompt \/ Look
  BY <1>4 DEF Call, Prompt, Look, CaptureReset, radio
<1>5. CASE Reset
  BY <1>5 DEF Reset
<1>6. CASE Entered \/ Run \/ Start
  BY <1>6 DEF Entered, Run, Start
<1>7. CASE SendBlock \/ SendEnd \/ Done
  BY <1>7 DEF SendBlock, SendEnd, Done, Leaves
<1>8. ASSUME NEW c \in Chars, Ask(c) \/ Answer(c) \/ Ended(c) PROVE EntryInv'
  BY <1>8 DEF Ask, Answer, Ended, Leaves
<1>9. CASE AtCommand
  BY <1>9 DEF AtCommand
<1>10. CASE UNCHANGED loaderVars
  BY <1>10 DEF loaderVars, radio, loop
<1> QED
  BY <1>1, <1>2, <1>3, <1>4, <1>5, <1>6, <1>7, <1>8, <1>9, <1>10 DEF LoaderNext, Remote

(* When em250_bl_enter() says that the radio is in its bootloader, and     *)
(* nobody else has had the port since the call, it is: the banner it saw   *)
(* is none from before a reset.                                            *)
THEOREM EntryIsVerified == LoaderSpec => []EntryVerified
<1>1. LoaderInit => EntryInv
  BY DEF LoaderInit, EntryInv
<1>2. EntryInv /\ [LoaderNext]_loaderVars => EntryInv'
  BY EntryStep
<1>3. EntryInv => EntryVerified
  BY DEF EntryInv, EntryVerified
<1> QED  BY <1>1, <1>2, <1>3, PTL DEF LoaderSpec
-----------------------------------------------------------------------------
(* What the steps do to the characters on the line. *)
LEMMA LineSays ==
  ASSUME LoaderTypes, NEW c \in Chars, air' = Append(air, c), rq' = rq
  PROVE  air' \in Seq(Chars) /\ OnLine' = OnLine \cup {c}
BY SetOfAppend DEF LoaderTypes, OnLine

LEMMA LineTaken ==
  ASSUME LoaderTypes, rq' = Taken, air' = air
  PROVE  rq' \in Seq(Chars) /\ OnLine' \subseteq OnLine
BY SetOfTail DEF LoaderTypes, OnLine, Taken

LEMMA LineGot ==
  ASSUME LoaderTypes, NEW c, c # "none", Got(c)
  PROVE  c \in OnLine
BY SetOfTail DEF LoaderTypes, OnLine, Got

LEMMA LineLeft ==
  ASSUME Leaves
  PROVE  /\ air' \in Seq(Chars) /\ rq' \in Seq(Chars)
         /\ late' \in BOOLEAN /\ broken' \in BOOLEAN
<1>1. <<>> \in Seq(Chars)
  BY EmptySeq
<1> QED  BY <1>1 DEF Leaves

LEMMA LineArrives ==
  ASSUME LoaderTypes, Arrives
  PROVE  /\ air' \in Seq(Chars) /\ rq' \in Seq(Chars)
         /\ OnLine # {} /\ OnLine' \subseteq OnLine
<1>1. /\ Head(air) \in ToSet(air) /\ Tail(air) \in Seq(Chars)
      /\ ToSet(Tail(air)) \subseteq ToSet(air) /\ Head(air) \in Chars
  BY SetOfTail DEF LoaderTypes, Arrives
<1>2. Append(rq, Head(air)) \in Seq(Chars)
      /\ ToSet(Append(rq, Head(air))) = ToSet(rq) \cup {Head(air)}
  BY <1>1, SetOfAppend DEF LoaderTypes
<1> QED  BY <1>1, <1>2 DEF Arrives, OnLine

LEMMA LineGarbled ==
  ASSUME LoaderTypes, Garbled
  PROVE  /\ air' \in Seq(Chars) /\ rq' = rq
         /\ OnLine # {} /\ OnLine' \subseteq OnLine \cup {"other"}
<1>1. /\ Head(air) \in ToSet(air) /\ Tail(air) \in Seq(Chars)
      /\ ToSet(Tail(air)) \subseteq ToSet(air)
  BY SetOfTail DEF LoaderTypes, Garbled
<1>2. /\ <<"other">> \o Tail(air) \in Seq(Chars)
      /\ ToSet(<<"other">> \o Tail(air)) \subseteq {"other"} \cup ToSet(Tail(air))
  <2>1. "other" \in Chars
    BY DEF Chars
  <2> QED  BY <1>1, <2>1, SetOfCons
<1> QED  BY <1>1, <1>2 DEF Garbled, OnLine

LEMMA LineExchanged ==
  ASSUME LoaderTypes, AtCommand
  PROVE  /\ air' \in Seq(Chars) /\ rq' \in Seq(Chars)
         /\ OnLine' \subseteq OnLine \cup {"other"}
<1>1. rq' = <<>> /\ ToSet(rq') = {} /\ rq' \in Seq(Chars)
  BY SetOfEmpty, EmptySeq DEF AtCommand
<1>2. air' = air \/ air' = Append(air, "other")
  BY DEF AtCommand
<1>3. /\ Append(air, "other") \in Seq(Chars)
      /\ ToSet(Append(air, "other")) = ToSet(air) \cup {"other"}
  <2>1. "other" \in Chars
    BY DEF Chars
  <2> QED  BY <2>1, SetOfAppend DEF LoaderTypes
<1>4. air' \in Seq(Chars) /\ ToSet(air') \subseteq ToSet(air) \cup {"other"}
  BY <1>2, <1>3 DEF LoaderTypes
<1> QED  BY <1>1, <1>4 DEF OnLine

LEMMA LineTypes == LoaderTypes /\ [LoaderNext]_loaderVars => LoaderTypes'
<1> SUFFICES ASSUME LoaderTypes, [LoaderNext]_loaderVars PROVE LoaderTypes'
  OBVIOUS
<1> USE DEF LoaderTypes, Modes, radio
<1>1. CASE Banner \/ GivesUp
  BY <1>1 DEF Banner, GivesUp
<1>2. ASSUME NEW c \in {"C", "other"}, Says(c) PROVE LoaderTypes'
  <2>1. c \in Chars
    BY DEF Chars
  <2> QED  BY <1>2, <2>1, LineSays DEF Says
<1>3. CASE Arrives
  BY <1>3, LineArrives DEF Arrives
<1>4. CASE Garbled
  BY <1>4, LineGarbled DEF Garbled
<1>5. CASE Call \/ Prompt
  BY <1>5 DEF Call, Prompt, CaptureReset
<1>6. CASE Look \/ Entered \/ Run \/ Start
  <2>1. CASE Look \/ Entered
    BY <2>1 DEF Look, Entered, CaptureReset
  <2>2. CASE Run
    BY <2>2 DEF Run
  <2>3. CASE Start
    <3>1. <<>> \in Seq(Chars)
      BY EmptySeq
    <3> QED  BY <2>3, <3>1 DEF Start
  <2> QED  BY <1>6, <2>1, <2>2, <2>3
<1>7. CASE Reset
  BY <1>7 DEF Reset
<1>8. CASE SendBlock
  <2>1. \A c \in {"ACK", "CAN", "other"} : Append(air, c) \in Seq(Chars)
    BY SetOfAppend DEF Chars
  <2>2. air' \in Seq(Chars) /\ mode' \in Modes /\ broken' \in BOOLEAN
    BY <1>8, <2>1 DEF SendBlock, TakesBlock, Answers
  <2> QED  BY <1>8, <2>2 DEF SendBlock, Outstanding
<1>9. CASE SendEnd
  <2>1. \A c \in {"ACK", "CAN", "other"} : Append(air, c) \in Seq(Chars)
    BY SetOfAppend DEF Chars
  <2>2. air' \in Seq(Chars) /\ mode' \in Modes
    BY <1>9, <2>1 DEF SendEnd, TakesEnd, Answers
  <2> QED  BY <1>9, <2>2 DEF SendEnd, Outstanding
<1>10. CASE Done
  BY <1>10, LineLeft DEF Done
<1>11. ASSUME NEW c \in Chars, Ask(c) \/ Answer(c) \/ Ended(c) PROVE LoaderTypes'
  <2>1. CASE Leaves
    BY <1>11, <2>1, LineLeft DEF Ask, Answer, Ended
  <2>2. CASE rq' = Taken /\ Stays
    <3>1. air' = air
      BY <2>2 DEF Stays
    <3>2. rq' \in Seq(Chars)
      BY <2>2, <3>1, LineTaken
    <3> QED  BY <1>11, <2>2, <3>2 DEF Ask, Answer, Ended, Stays
  <2> QED  BY <1>11, <2>1, <2>2 DEF Ask, Answer, Ended
<1>12. CASE UNCHANGED loaderVars
  BY <1>12 DEF loaderVars
<1>13. CASE AtCommand
  BY <1>13, LineExchanged DEF AtCommand, Chooses
<1> QED
  BY <1>1, <1>2, <1>3, <1>4, <1>5, <1>6, <1>7, <1>8, <1>9, <1>10, <1>11, <1>12, <1>13
     DEF LoaderNext, Remote
-----------------------------------------------------------------------------
(* What a block does to an image that has all before it. *)
LEMMA BlockTaken ==
  ASSUME NEW i \in {First(b - 1), First(b)}, b \in 1 .. Total
  PROVE  /\ Number(b) = Number(Len(i) + 1) => Append(i, b) = First(b)
         /\ i # <<>> /\ Number(b) = Number(Len(i)) => i = First(b)
<1>1. b \in Nat /\ b - 1 \in Nat /\ (b - 1) + 1 = b
  OBVIOUS
<1>2. Number(b) # Number(b + 1) /\ Number(b - 1) # Number(b)
  BY <1>1, Neighbours
<1>3. /\ Len(First(b)) = b /\ Len(First(b - 1)) = b - 1
      /\ Append(First(b - 1), b) = First(b)
  BY <1>1, FirstBlocks
<1> QED  BY <1>1, <1>2, <1>3

LEMMA SendStep == UploadInv /\ SendBlock => Course'
<1> SUFFICES ASSUME UploadInv, SendBlock PROVE Course'
  OBVIOUS
<1> USE DEF Sound, Deaf
<1>1. /\ at = "send" /\ at' = "answer" /\ b' = b /\ again' = again /\ rq' = rq
      /\ shared' = shared
      /\ late' = (late \/ rq # <<>> \/ air # <<>>) /\ TakesBlock
  BY DEF SendBlock, Move, Outstanding
<1>0. CASE shared
  BY <1>0, <1>1 DEF Course, Quiet, Starts, Uploading
<1> SUFFICES ASSUME ~shared PROVE Course'
  BY <1>0
<1>2. /\ b \in 1 .. Total /\ (~broken => mode = "upload" \/ Deaf)
      /\ mode = "upload" /\ Sound => image \in {First(b - 1), First(b)}
  BY <1>1 DEF UploadInv, Course, Alone, Sending
<1>3. LoaderTypes /\ LoaderTypes'
  BY LineTypes DEF UploadInv, LoaderNext, Remote
<1>4. Quiet' /\ Starts' /\ Asking' /\ Ending'
  BY <1>1 DEF Quiet, Starts, Asking, Ending, Uploading
<1>5. ~late' => ~late /\ OnLine = {}
  BY <1>1, SetOfEmpty DEF OnLine
<1> DEFINE After == /\ broken => broken'
                    /\ mode' = "upload" /\ Sound' => image' \in {First(b - 1), First(b)}
                    /\ ~broken' => (mode' = "upload" /\ image' = First(b)) \/ Deaf'
                    /\ ~late' /\ "ACK" \in OnLine' => image' = First(b)
<1>6. CASE mode # "upload"
  <2>1. UNCHANGED <<mode, image, air, broken>> /\ OnLine' = OnLine
    BY <1>1, <1>6 DEF TakesBlock, OnLine
  <2>2. After
    BY <1>2, <1>5, <1>6, <2>1
  <2> QED  BY <1>1, <1>2, <1>4, <2>2 DEF Course, Alone, Sending, SentAndTaken, Acked
<1>7. CASE mode = "upload"
  <2> SUFFICES After
    BY <1>1, <1>2, <1>4 DEF Course, Alone, Sending, SentAndTaken, Acked
  <2> USE DEF Answers
  <2>1. ASSUME Sound PROVE /\ Number(b) = Number(Len(image) + 1) => Append(image, b) = First(b)
                           /\ Repeated => image = First(b)
    BY <1>2, <1>7, <2>1, BlockTaken DEF Repeated
  <2>2. {"ACK", "CAN", "other"} \subseteq Chars
    BY DEF Chars
  <2>3. CASE /\ Number(b) = Number(Len(image) + 1)
             /\ image' = Append(image, b) /\ Answers("ACK") /\ UNCHANGED <<mode, broken>>
    BY <1>2, <1>3, <1>5, <1>7, <2>1, <2>3 DEF LoaderTypes
  <2>4. CASE Repeated /\ Answers("ACK") /\ UNCHANGED <<mode, image, broken>>
    BY <1>2, <1>3, <1>5, <1>7, <2>1, <2>4 DEF LoaderTypes
  <2>5. CASE Answers("CAN") /\ mode' = "menu" /\ broken' = TRUE /\ UNCHANGED image
    <3>1. OnLine' = OnLine \cup {"CAN"}
      BY <1>1, <1>3, <2>2, <2>5, LineSays
    <3> QED  BY <1>5, <2>5, <3>1
  <2>6. CASE /\ Answers("other") \/ UNCHANGED air
             /\ broken' = TRUE /\ UNCHANGED <<mode, image>>
    <3>1. OnLine' \subseteq OnLine \cup {"other"}
      <4>1. CASE Answers("other")
        BY <1>1, <1>3, <2>2, <4>1, LineSays
      <4>2. CASE UNCHANGED air
        BY <1>1, <4>2 DEF OnLine
      <4> QED  BY <2>6, <4>1, <4>2
    <3>2. ~(~late' /\ "ACK" \in OnLine')
      BY <1>5, <3>1
    <3>3. Sound' => Sound
      BY <1>5, <2>6
    <3> QED  BY <1>2, <1>7, <2>6, <3>2, <3>3
  <2> QED  BY <1>1, <1>7, <2>3, <2>4, <2>5, <2>6 DEF TakesBlock
<1> QED  BY <1>6, <1>7

LEMMA UploadStep == UploadInv /\ [LoaderNext]_loaderVars => UploadInv'
<1> SUFFICES ASSUME UploadInv, [LoaderNext]_loaderVars PROVE UploadInv'
  OBVIOUS
<1>0. LoaderTypes /\ LoaderTypes' /\ Course
  BY LineTypes DEF UploadInv
<1> SUFFICES Course'
  BY <1>0 DEF UploadInv
<1> USE DEF Course, Quiet, Starts, Alone, Asking, Sending, SentAndTaken, Acked, Ending,
            Sound, Deaf, Uploading, Move, radio, loop
<1>1. CASE Banner
  BY <1>0, <1>1 DEF Banner, OnLine
<1>2. ASSUME NEW c \in {"C", "other"}, Says(c) PROVE Course'
  <2>1. OnLine' = OnLine \cup {c}
    BY <1>0, <1>2, LineSays DEF Says, Chars
  <2>2. (c = "other" /\ at = "ask") \/ (c = "C" /\ mode = "upload")
    BY <1>2 DEF Says
  <2>3. UNCHANGED <<mode, image, at, again, b, late, broken, shared>>
    BY <1>2 DEF Says
  <2> QED  BY <1>0, <2>1, <2>2, <2>3
<1>3. CASE Arrives \/ Garbled
  <2>1. OnLine # {} /\ OnLine' \subseteq OnLine \cup {"other"}
    BY <1>0, <1>3, LineArrives, LineGarbled
  <2>2. UNCHANGED <<mode, image, at, again, b, late, broken, shared>>
    BY <1>3 DEF Arrives, Garbled
  <2>3. /\ "C" \in OnLine' => "C" \in OnLine
        /\ "ACK" \in OnLine' => "ACK" \in OnLine
    BY <2>1
  <2> QED  BY <1>0, <2>1, <2>2, <2>3
<1>4. CASE GivesUp
  <2>1. OnLine' = OnLine
    BY <1>4 DEF GivesUp, OnLine
  <2> QED  BY <1>0, <1>4, <2>1 DEF GivesUp, LoaderTypes
<1>5. CASE Call \/ Prompt \/ Look \/ Entered \/ Run \/ Reset
  <2>1. OnLine' = OnLine /\ again' = again
    BY <1>5 DEF Call, Prompt, Look, Entered, Run, Reset, OnLine
  <2>2. (mode # "upload" => mode' # "upload") /\ image' = image
    BY <1>5 DEF Call, Prompt, Look, Entered, Run, Reset
  <2>3. at \notin Uploading /\ at' \notin Uploading
    <3>1. CASE Call \/ Prompt \/ Look
      BY <3>1 DEF Call, Prompt, Look
    <3>2. CASE Entered \/ Run \/ Reset
      BY <3>2 DEF Entered, Run, Reset
    <3> QED  BY <1>5, <3>1, <3>2
  <2>4. at' = "start" => ~again
    BY <1>5 DEF Call, Prompt, Look, Entered, Run, Reset
  <2> QED  BY <1>0, <2>1, <2>2, <2>3, <2>4
<1>6. CASE Start
  <2>1. at = "start" /\ at' = "ask" /\ b' = 1 /\ rq' = <<>> /\ air' = air
    BY <1>6 DEF Start
  <2>2. "ACK" \notin OnLine /\ (mode = "upload" => image = <<>>)
    BY <1>0, <2>1
  <2>3. "ACK" \notin OnLine'
    BY <2>1, <2>2, SetOfEmpty DEF OnLine
  <2>4. mode' = "upload" => image' = <<>>
    BY <1>6, <2>2 DEF Start
  <2> QED  BY <2>1, <2>3, <2>4
<1>7. CASE SendBlock
  BY <1>7, SendStep
<1>8. CASE SendEnd
  BY <1>0, <1>8 DEF SendEnd, Outstanding, LoaderTypes
<1>9. CASE Leaves
  BY <1>9 DEF Leaves
<1>10. ASSUME NEW c \in Chars, Ask(c), ~Leaves PROVE Course'
  <2>1. /\ at = "ask" /\ Got(c) /\ rq' = Taken /\ air' = air
        /\ IF c = "C" THEN at' = "send" ELSE at' = "ask"
        /\ UNCHANGED <<mode, image, again, b, late, broken, shared>>
    BY <1>10 DEF Ask, Stays
  <2>2. OnLine' \subseteq OnLine
    BY <1>0, <2>1, LineTaken
  <2>4. First(0) = <<>> /\ 1 - 1 = 0 /\ 1 \in 1 .. Total
    BY FirstBlocks
  <2> QED  BY <1>0, <2>1, <2>2, <2>4 DEF LoaderTypes
<1>11. ASSUME NEW c \in Chars, Answer(c), ~Leaves PROVE Course'
  <2>1. /\ at = "answer" /\ Got(c) /\ rq' = Taken /\ air' = air
        /\ IF c = "ACK" THEN /\ b' = b + 1
                            /\ at' = IF b = Total THEN "end" ELSE "send"
                       ELSE b' = b /\ at' = "send"
        /\ UNCHANGED <<mode, image, again, late, broken, shared>>
    BY <1>11 DEF Answer, Stays, Accepts
  <2>2. c = "ACK" => "ACK" \in OnLine
    BY <1>0, <2>1, LineGot
  <2>3. CASE c = "ACK"
    <3>1. ~shared /\ Sound => image = First(b)
      BY <1>0, <2>1, <2>2, <2>3 DEF LoaderTypes
    <3>2. ~shared => /\ b \in 1 .. Total /\ (~broken => mode = "upload")
                     /\ (b + 1) - 1 = b
      BY <1>0, <2>1, <2>2, <2>3
    <3>3. First(Total) = Whole
      BY DEF First, Whole
    <3> QED  BY <1>0, <2>1, <2>3, <3>1, <3>2, <3>3
  <2>4. CASE c # "ACK"
    <3>1. OnLine' \subseteq OnLine
      BY <1>0, <2>1, LineTaken
    <3> QED  BY <1>0, <2>1, <2>4, <3>1
  <2> QED  BY <2>3, <2>4
<1>12. ASSUME NEW c \in Chars, Ended(c), ~Leaves PROVE Course'
  BY <1>0, <1>12 DEF Ended, Stays
<1>13. CASE Done
  BY <1>9, <1>13 DEF Done
<1>14. CASE UNCHANGED loaderVars
  BY <1>0, <1>14 DEF loaderVars, OnLine
<1>15. CASE AtCommand
  <2>1. "ACK" \notin OnLine => "ACK" \notin OnLine'
    BY <1>0, <1>15, LineExchanged
  <2>2. (mode = "upload" => image = <<>>) => (mode' = "upload" => image' = <<>>)
    BY <1>15 DEF AtCommand, Chooses
  <2>3. shared' /\ UNCHANGED <<at, again>>
    BY <1>15 DEF AtCommand
  <2> QED  BY <1>0, <2>1, <2>2, <2>3
<1> QED
  BY <1>1, <1>2, <1>3, <1>4, <1>5, <1>6, <1>7, <1>8, <1>9, <1>10, <1>11, <1>12, <1>13, <1>14, <1>15
     DEF LoaderNext, Remote

(* An upload that reports OK, with nobody else on the port, has put every  *)
(* block in its place, unless both a character was late and a block was    *)
(* lost or damaged (em250_flash_ebl()).                                    *)
THEOREM UploadIsComplete == LoaderSpec => []UploadComplete
<1>1. LoaderInit => UploadInv
  <2> SUFFICES ASSUME LoaderInit PROVE UploadInv
    OBVIOUS
  <2>1. <<>> \in Seq(Chars)
    BY EmptySeq
  <2>2. LoaderTypes
    BY <2>1 DEF LoaderInit, LoaderTypes, Modes
  <2>3. OnLine = {} /\ mode # "upload" /\ at = "call"
    BY SetOfEmpty DEF LoaderInit, OnLine
  <2> QED
    BY <2>2, <2>3 DEF UploadInv, Course, Alone, Quiet, Starts, Asking, Sending, SentAndTaken,
                      Acked, Ending, Uploading
<1>2. UploadInv /\ [LoaderNext]_loaderVars => UploadInv'
  BY UploadStep
<1>3. UploadInv => UploadComplete
  BY DEF UploadInv, Course, Alone, Ending, Sound, UploadComplete
<1> QED  BY <1>1, <1>2, <1>3, PTL DEF LoaderSpec
=============================================================================
