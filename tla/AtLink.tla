------------------------------- MODULE AtLink -------------------------------
(***************************************************************************)
(* An AT exchange with the radio (em250_at() of src/em250.c, frame 0x90 of *)
(* src/updater.c) over the raw receive ring of src/zbx.c.  The USART       *)
(* interrupt fills the ring; a reader flushes it, sends its command and    *)
(* takes bytes until a wait runs out or its buffer is full.  Threads are   *)
(* interleaved at each access to the ring's two indices.                   *)
(***************************************************************************)
EXTENDS Naturals

CONSTANTS
  Bytes,        \* what can arrive
  RawQ,         \* RAWQ, the slots of the ring
  Readers,      \* the threads that hold AT exchanges
  Ahead,        \* for each, the readers of higher priority
  Restores,     \* those that set the USART's speed back afterwards
  Patience,     \* wait_ms before the first byte, in polls
  Gap,          \* ... and between bytes
  ReplyMax      \* the size of the reader's buffer

ASSUME RingAssumption == RawQ \in Nat \ {0, 1}
ASSUME ReaderAssumption ==
  /\ Ahead \in [Readers -> SUBSET Readers] /\ Restores \subseteq Readers
  /\ Patience \in Nat /\ Gap \in Nat /\ Gap <= Patience
  /\ ReplyMax \in Nat \ {0}

VARIABLES
  rawq, head, tail,     \* rawq[], rq_head, rq_tail
  brr,                  \* the speed of the USART
  pc,                   \* what each reader does next
  prev,                 \* the speed it found
  reg,                  \* the index it has loaded
  byte,                 \* the byte it has fetched
  waited,               \* its polls since the last byte
  n,                    \* the bytes in its buffer
  out                   \* the latest byte any of them took, numbered modulo 2

ring   == <<rawq, head, tail>>
reader == <<prev, reg, byte, waited, n>>
vars   == <<ring, brr, pc, reader, out>>

Slots  == 0 .. RawQ - 1
Speeds == {"zbx", "at"}
Steps  == {"idle", "flush", "drop", "test", "asleep", "fetch", "load", "store"}

TypeOK ==
  /\ rawq \in [Slots -> Bytes] /\ head \in Slots /\ tail \in Slots
  /\ brr \in Speeds /\ prev \in [Readers -> Speeds]
  /\ pc \in [Readers -> Steps]
  /\ reg \in [Readers -> Slots] /\ byte \in [Readers -> Bytes]
  /\ waited \in [Readers -> 0 .. Patience + 1]
  /\ n \in [Readers -> 0 .. ReplyMax - 1]
  /\ out \in [byte : Bytes, n : {0, 1}]

Init ==
  /\ rawq \in [Slots -> Bytes] /\ head = 0 /\ tail = 0
  /\ brr = "zbx" /\ prev = [r \in Readers |-> "zbx"]
  /\ pc = [r \in Readers |-> "idle"]
  /\ reg = [r \in Readers |-> 0] /\ byte \in [Readers -> Bytes]
  /\ waited = [r \in Readers |-> 0] /\ n = [r \in Readers |-> 0]
  /\ out \in [byte : Bytes, n : {0}]
-----------------------------------------------------------------------------
(* The index after i, and how many bytes lie between two indices. *)
Succ(i) == IF i + 1 = RawQ THEN 0 ELSE i + 1
Between(t, h) == IF t <= h THEN h - t ELSE h + RawQ - t

(* The USART interrupt: a byte that finds the ring full is dropped. *)
FullNever(nh) == FALSE                        \* mutant: the ring overruns
Full(nh) == nh = tail
Arrive(b) ==
  /\ ~Full(Succ(head))
  /\ rawq' = [rawq EXCEPT ![head] = b]
  /\ head' = Succ(head)
  /\ UNCHANGED <<tail, brr, pc, reader, out>>

(* A reader runs while none of higher priority is ready. *)
Ready(r) == pc[r] \notin {"idle", "asleep"}
Runs(r)  == \A s \in Ahead[r] : ~Ready(s)

At(r, step) == pc[r] = step /\ Runs(r)
Goes(r, step) == pc' = [pc EXCEPT ![r] = step]

FoundLate == "at"                             \* mutant: read after it is set
Found == brr
Begin(r) ==
  /\ At(r, "idle")
  /\ prev' = [prev EXCEPT ![r] = Found] /\ brr' = "at"
  /\ n' = [n EXCEPT ![r] = 0]
  /\ Goes(r, "flush")
  /\ UNCHANGED <<ring, reg, byte, waited, out>>

(* zbx_getc_flush(), and then the command is sent. *)
FlushLoad(r) ==
  /\ At(r, "flush")
  /\ reg' = [reg EXCEPT ![r] = head]
  /\ Goes(r, "drop")
  /\ UNCHANGED <<ring, brr, prev, byte, waited, n, out>>

FlushStore(r) ==
  /\ At(r, "drop")
  /\ tail' = reg[r]
  /\ waited' = [waited EXCEPT ![r] = 0]
  /\ Goes(r, "test")
  /\ UNCHANGED <<rawq, head, brr, prev, reg, byte, n, out>>

(* zbx_getc(): poll, then fetch, advance and return. *)
Poll(r) ==
  /\ At(r, "test")
  /\ IF tail # head
       THEN Goes(r, "fetch") /\ UNCHANGED waited
       ELSE Goes(r, "asleep") /\ waited' = [waited EXCEPT ![r] = @ + 1]
  /\ UNCHANGED <<ring, brr, prev, reg, byte, n, out>>

Finish(r) ==
  /\ Goes(r, "idle")
  /\ brr' = IF r \in Restores THEN prev[r] ELSE brr

Budget(r) == IF n[r] = 0 THEN Patience ELSE Gap
Awakes(r) ==
  /\ At(r, "asleep")
  /\ IF waited[r] <= Budget(r) THEN Goes(r, "test") /\ UNCHANGED brr
                               ELSE Finish(r)
  /\ UNCHANGED <<ring, reader, out>>

Fetch(r) ==
  /\ At(r, "fetch")
  /\ byte' = [byte EXCEPT ![r] = rawq[tail]]
  /\ Goes(r, "load")
  /\ UNCHANGED <<ring, brr, prev, reg, waited, n, out>>

Load(r) ==
  /\ At(r, "load")
  /\ reg' = [reg EXCEPT ![r] = tail]
  /\ Goes(r, "store")
  /\ UNCHANGED <<ring, brr, prev, byte, waited, n, out>>

(* The byte that finds the buffer full is read and dropped. *)
RoomOffByOne(r) == n[r] < ReplyMax            \* mutant: no room for the 0
Room(r) == n[r] + 1 < ReplyMax
MoreForEver(r) == TRUE                        \* mutant: the rest is read too
More(r) == Room(r)
Store(r) ==
  /\ At(r, "store")
  /\ tail' = Succ(reg[r])
  /\ out' = [byte |-> byte[r], n |-> 1 - out.n]
  /\ waited' = [waited EXCEPT ![r] = 0]
  /\ n' = IF Room(r) THEN [n EXCEPT ![r] = @ + 1] ELSE n
  /\ IF More(r) THEN Goes(r, "test") /\ UNCHANGED brr ELSE Finish(r)
  /\ UNCHANGED <<rawq, head, prev, reg, byte>>

Exchange(r) ==
  \/ FlushLoad(r) \/ FlushStore(r) \/ Poll(r) \/ Awakes(r)
  \/ Fetch(r) \/ Load(r) \/ Store(r)

Next ==
  \/ \E b \in Bytes : Arrive(b)
  \/ \E r \in Readers : Begin(r) \/ Exchange(r)

Spec == Init /\ [][Next]_vars

(* A reader that is ready runs, once those ahead of it wait. *)
FairSpec == Spec /\ \A r \in Readers : WF_vars(Exchange(r))
-----------------------------------------------------------------------------
Count == Between(tail, head)
Slot(t, i) == IF t + i - 1 < RawQ THEN t + i - 1 ELSE t + i - 1 - RawQ
Held  == [i \in 1 .. Count |-> rawq[Slot(tail, i)]]
Stale == IF \E r \in Readers : pc[r] = "drop"
           THEN Between(tail, reg[CHOOSE r \in Readers : pc[r] = "drop"])
           ELSE 0

Fifo == INSTANCE ByteFifo WITH
  Cap <- RawQ - 1, held <- Held, stale <- Stale

(* With one reader the ring and its two unlocked indices are a fifo: every *)
(* byte once, in order, lost only to a full ring or a flush that came      *)
(* later, whatever arrives between any two of the reader's accesses.       *)
IsFifo == Fifo!Spec

(* "This thread is the sole reader of the zbx RX rings ... or the two      *)
(* readers race" (zbnet.c): a reader only ever takes bytes out of the      *)
(* ring, it never makes bytes that were read already come back.            *)
ReadersOnlyTake == [][head' = head => Count' <= Count]_vars

(* "Telegesis firmware, which runs at 19200" (zbx.h): the USART is at the *)
(* radio's speed exactly while an exchange lasts.  A second reader breaks  *)
(* this: the exchange that ends first takes the speed back.                *)
SpeedHeld == (\E r \in Readers : pc[r] # "idle") <=> brr = "at"

(* However fast and however long bytes keep coming, an exchange ends.      *)
ExchangeEnds == \A r \in Readers : pc[r] # "idle" ~> pc[r] = "idle"

(* A wait never outlasts its budget, so the poll counter stays in range.   *)
Waits == \A r \in Readers : pc[r] = "test" => waited[r] <= Budget(r)

(* What makes IsFifo inductive for one reader: between its test and its    *)
(* store the byte it is after stays the oldest one.                        *)
Reading == \A r \in Readers :
  /\ pc[r] \in {"fetch", "load", "store"} => tail # head
  /\ pc[r] \in {"load", "store"} => byte[r] = rawq[tail]
  /\ pc[r] = "store" => reg[r] = tail
  /\ pc[r] = "drop" => Between(tail, reg[r]) <= Between(tail, head)
=============================================================================
