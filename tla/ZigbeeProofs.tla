---------------------------- MODULE ZigbeeProofs ----------------------------
(***************************************************************************)
(* Proofs about the radio link.  The frames of ZbxFrames, for every        *)
(* modulus, any three control bytes and every size of buffer: where each   *)
(* byte of a payload lies in the encoded frame (Layout), and how far the   *)
(* decoder has come in it (Course).  What a fold computes is proved with   *)
(* the principle of the least number, over the places of a sequence.  Its  *)
(* ring of decoded frames, and the thread of Zbnet, for every queue and    *)
(* any number of presses.                                                  *)
(***************************************************************************)
EXTENDS ZbxFrames, Zbnet, SequenceTheorems, WellFoundedInduction, TLAPS

USE ByteAssumption, DistinctAssumption, SizeAssumption
-----------------------------------------------------------------------------
(* Induction over a set of numbers. *)
LEMMA LeastNumber ==
  ASSUME NEW T \in SUBSET Nat, T # {}
  PROVE  \E x \in T : \A y \in T : x <= y
<1> DEFINE R == OpToRel(<, Nat)
<1>1. IsWellFoundedOn(R, Nat)
  BY NatLessThanWellFounded
<1>2. \A x, y \in Nat : <<y, x>> \in R <=> y < x
  BY DEF OpToRel
<1> HIDE DEF R
<1>3. \E x \in T : \A y \in T : <<y, x>> \notin R
  BY <1>1, WFMin
<1>4. \A y, x \in Nat : ~(y < x) => x <= y
  OBVIOUS
<1> QED  BY <1>2, <1>3, <1>4

LEMMA UpTo ==
  ASSUME NEW n \in Nat, NEW S, 0 \in S, \A k \in 1 .. n : k - 1 \in S => k \in S
  PROVE  0 .. n \subseteq S
<1> SUFFICES ASSUME NEW k \in 0 .. n, k \notin S PROVE FALSE
  OBVIOUS
<1> DEFINE T == (0 .. n) \ S
<1>0. T \in SUBSET Nat /\ T # {}
  OBVIOUS
<1>1. PICK x \in T : \A y \in T : x <= y
  BY <1>0, LeastNumber
<1>2. x \in 1 .. n
  BY <1>1
<1>3. x - 1 \in S
  BY <1>1, <1>2
<1> QED  BY <1>1, <1>2, <1>3

LEMMA MaxOf ==
  ASSUME NEW m \in Nat, NEW t \in SUBSET (1 .. m), t # {}
  PROVE  Max(t) \in t /\ \A y \in t : y <= Max(t)
<1> DEFINE U == {u \in Nat : \A y \in t : y <= u}
<1>1. PICK u \in U : \A v \in U : u <= v
  <2>1. m \in U
    OBVIOUS
  <2>2. U \in SUBSET Nat /\ U # {}
    BY <2>1
  <2> QED  BY <2>2, LeastNumber
<1>2. u \in t
  <2> SUFFICES ASSUME u \notin t PROVE FALSE
    OBVIOUS
  <2>1. PICK y \in t : TRUE
    OBVIOUS
  <2>2. u - 1 \in U
    BY <2>1
  <2> QED  BY <2>2, <1>1
<1>3. \E x \in t : \A y \in t : x >= y
  BY <1>2, <1>1
<1>4. Max(t) \in t /\ \A y \in t : Max(t) >= y
  BY <1>3, Zenon DEF Max
<1> QED  BY <1>4

LEMMA MaxOfInterval == ASSUME NEW k \in Nat \ {0} PROVE Max(1 .. k) = k
<1>0. 1 .. k \in SUBSET (1 .. k) /\ 1 .. k # {} /\ k \in Nat /\ k \in 1 .. k
  OBVIOUS
<1>1. Max(1 .. k) \in 1 .. k /\ \A y \in 1 .. k : y <= Max(1 .. k)
  BY <1>0, MaxOf
<1> QED  BY <1>1
-----------------------------------------------------------------------------
(* A fold over the places of a sequence is defined, ... *)
IsFold(g, F, V, base, n) ==
  /\ g \in [SUBSET (1 .. n) -> V]
  /\ \A t \in SUBSET (1 .. n) :
       g[t] = IF t = {} THEN base ELSE F[g[t \ {Max(t)}]][Max(t)]

LEMMA FoldExists ==
  ASSUME NEW V, NEW base \in V, NEW n \in Nat, NEW F \in [V -> [1 .. n -> V]]
  PROVE  \E g : IsFold(g, F, V, base, n)
<1> DEFINE Fold(g, m) == IsFold(g, F, V, base, m)
           Safe(m) == \E g : Fold(g, m)
<1> USE DEF IsFold
<1>1. Safe(0)
  <2> DEFINE g == [t \in SUBSET (1 .. 0) |-> base]
  <2>1. \A t \in SUBSET (1 .. 0) : t = {}
    OBVIOUS
  <2>2. Fold(g, 0)
    BY <2>1
  <2> QED  BY <2>2
<1>2. ASSUME NEW m \in 1 .. n, Safe(m - 1) PROVE Safe(m)
  <2>0. m \in Nat /\ m \in 1 .. m /\ \A y \in 1 .. m : y # m => y \in 1 .. m - 1
    OBVIOUS
  <2>1. PICK h : Fold(h, m - 1)
    BY <1>2
  <2> DEFINE g == [t \in SUBSET (1 .. m) |-> IF m \in t THEN F[h[t \ {m}]][m] ELSE h[t]]
  <2>2. \A t \in SUBSET (1 .. m) : t \ {m} \in SUBSET (1 .. m - 1)
    OBVIOUS
  <2>3. \A t \in SUBSET (1 .. m) : m \notin t => t \in SUBSET (1 .. m - 1)
    BY <2>0
  <2>4. g \in [SUBSET (1 .. m) -> V]
    BY <2>1, <2>2, <2>3
  <2>5. ASSUME NEW t \in SUBSET (1 .. m)
        PROVE  g[t] = IF t = {} THEN base ELSE F[g[t \ {Max(t)}]][Max(t)]
    <3>1. CASE m \in t
      <4>1. Max(t) = m
        <5>1. Max(t) \in t /\ \A y \in t : y <= Max(t)
          BY <2>0, <3>1, MaxOf
        <5>2. Max(t) \in 1 .. m /\ m <= Max(t)
          BY <3>1, <5>1
        <5> QED  BY <2>0, <5>2
      <4>2. g[t \ {m}] = h[t \ {m}]
        BY <2>2
      <4>3. g[t] = F[h[t \ {m}]][m]
        BY <3>1
      <4> QED  BY <3>1, <4>1, <4>2, <4>3
    <3>2. CASE m \notin t /\ t # {}
      <4>1. g[t] = h[t]
        BY <3>2
      <4>2. g[t \ {Max(t)}] = h[t \ {Max(t)}]
        BY <3>2
      <4>3. h[t] = F[h[t \ {Max(t)}]][Max(t)]
        BY <2>1, <2>3, <3>2
      <4> QED  BY <3>2, <4>1, <4>2, <4>3
    <3>3. CASE t = {}
      BY <2>1, <2>3, <3>3
    <3> QED  BY <3>1, <3>2, <3>3
  <2>6. Fold(g, m)
    BY <2>4, <2>5, Zenon
  <2> QED  BY <2>6, Zenon
<1> HIDE DEF Safe
<1> DEFINE S == {m \in 0 .. n : Safe(m)}
<1>3. 0 \in S
  BY <1>1
<1>4. \A m \in 1 .. n : m - 1 \in S => m \in S
  BY <1>2
<1> HIDE DEF S
<1>5. 0 .. n \subseteq S
  BY <1>3, <1>4, UpTo
<1>6. Safe(n)
  BY <1>5 DEF S
<1> QED  BY <1>6 DEF Safe

(* ... and goes through them in their order. *)
LEMMA Intervals ==
  ASSUME NEW n \in Nat
  PROVE  /\ 1 .. 0 = {} /\ 1 .. 0 \in SUBSET (1 .. n)
         /\ \A k \in 1 .. n : /\ 1 .. k \in SUBSET (1 .. n) /\ 1 .. k # {}
                              /\ (1 .. k) \ {Max(1 .. k)} = 1 .. k - 1
                              /\ Max(1 .. k) = k
<1>1. \A k \in 1 .. n : Max(1 .. k) = k
  BY MaxOfInterval
<1> QED  BY <1>1
-----------------------------------------------------------------------------
(* The sum of a sequence, place by place. *)
LEMMA AddBytes ==
  ASSUME NEW x \in Bytes, NEW y \in Bytes
  PROVE  /\ (x + y) % Base = IF x + y < Base THEN x + y ELSE x + y - Base
         /\ (x + y) % Base \in Bytes
<1>1. Base \in Nat /\ Base > 0 /\ x \in Nat /\ y \in Nat /\ x < Base /\ y < Base
  BY DEF Bytes
<1>2. CASE x + y < Base
  BY <1>1, <1>2 DEF Bytes
<1>3. CASE x + y >= Base
  <2>1. (x + y) % Base = x + y - Base
    BY <1>1, <1>3
  <2> QED  BY <1>1, <1>3, <2>1 DEF Bytes
<1> QED  BY <1>1, <1>2, <1>3

LEMMA AddCancels ==
  ASSUME NEW x \in Bytes, NEW y \in Bytes, NEW z \in Bytes
  PROVE  /\ (x + z) % Base = (y + z) % Base => x = y
         /\ (z + x) % Base = (z + y) % Base => x = y
<1>1. Base \in Nat /\ \A v \in {x, y, z} : v \in Nat /\ v < Base
  BY DEF Bytes
<1>2. \A v, w \in {x, y, z} : (v + w) % Base = IF v + w < Base THEN v + w ELSE v + w - Base
  BY AddBytes
<1> QED  BY <1>1, <1>2

RunningSum(P, s) ==
  /\ P \in [0 .. Len(s) -> Bytes]
  /\ P[0] = 0
  /\ \A k \in 1 .. Len(s) : P[k] = (P[k - 1] + s[k]) % Base
  /\ P[Len(s)] = Sum(s)

LEMMA SumRuns == ASSUME NEW s \in Seq(Bytes) PROVE \E P : RunningSum(P, s)
<1> DEFINE n == Len(s)
           Fold(g) == g = [t \in SUBSET DOMAIN s |->
                             IF t = {} THEN 0 ELSE (g[t \ {Max(t)}] + s[Max(t)]) % Base]
<1>1. n \in Nat /\ DOMAIN s = 1 .. n /\ \A k \in 1 .. n : s[k] \in Bytes
  BY LenProperties
<1>2. 0 \in Bytes
  BY DEF Bytes
<1>3. \E g : Fold(g)
  <2> DEFINE F == [v \in Bytes |-> [k \in 1 .. n |-> (v + s[k]) % Base]]
  <2>1. F \in [Bytes -> [1 .. n -> Bytes]]
    BY <1>1, AddBytes
  <2>0. PICK g : IsFold(g, F, Bytes, 0, n)
    <3> HIDE DEF F, n
    <3> QED  BY <1>1, <1>2, <2>1, FoldExists
  <2>2. /\ g \in [SUBSET (1 .. n) -> Bytes]
        /\ \A t \in SUBSET (1 .. n) :
             g[t] = IF t = {} THEN 0 ELSE F[g[t \ {Max(t)}]][Max(t)]
    <3> HIDE DEF F
    <3> QED  BY <2>0 DEF IsFold
  <2>3. ASSUME NEW t \in SUBSET (1 .. n), t # {}
        PROVE  g[t] = (g[t \ {Max(t)}] + s[Max(t)]) % Base
    <3>1. Max(t) \in 1 .. n
      BY <1>1, <2>3, MaxOf
    <3>2. g[t \ {Max(t)}] \in Bytes
      BY <2>2
    <3>3. F[g[t \ {Max(t)}]][Max(t)] = (g[t \ {Max(t)}] + s[Max(t)]) % Base
      BY <3>1, <3>2
    <3> HIDE DEF F
    <3> QED  BY <2>2, <2>3, <3>3
  <2> HIDE DEF F
  <2>4. Fold(g)
    BY <1>1, <2>2, <2>3
  <2> QED  BY <2>4
<1>4. PICK g : Fold(g) /\ Sum(s) = g[DOMAIN s]
  BY <1>3, Zenon DEF Sum, FoldLeft, MapThenFoldSet
<1>5. \A t \in SUBSET (1 .. n) :
        g[t] = IF t = {} THEN 0 ELSE (g[t \ {Max(t)}] + s[Max(t)]) % Base
  BY <1>1, <1>4
<1> DEFINE P == [k \in 0 .. n |-> g[1 .. k]]
<1>6. P[0] = 0 /\ \A k \in 1 .. n : P[k] = (P[k - 1] + s[k]) % Base
  <2>1. P[0] = 0
    <3>1. P[0] = g[1 .. 0]
      BY <1>1
    <3>2. 1 .. 0 = {} /\ {} \in SUBSET (1 .. n)
      OBVIOUS
    <3>3. g[{}] = 0
      BY <1>5, <3>2, Zenon
    <3> QED  BY <3>1, <3>2, <3>3, Zenon
  <2>2. ASSUME NEW k \in 1 .. n PROVE P[k] = (P[k - 1] + s[k]) % Base
    <3>1. g[1 .. k] = (g[1 .. k - 1] + s[k]) % Base
      BY <1>1, <1>5, Intervals
    <3> QED  BY <1>1, <3>1
  <2> QED  BY <2>1, <2>2
<1>7. \A k \in 0 .. n : P[k] \in Bytes
  <2> DEFINE S == {k \in 0 .. n : P[k] \in Bytes}
  <2> HIDE DEF P
  <2>1. 0 \in S
    BY <1>1, <1>2, <1>6
  <2>2. \A k \in 1 .. n : k - 1 \in S => k \in S
    BY <1>1, <1>6, AddBytes
  <2> HIDE DEF S
  <2>3. 0 .. n \subseteq S
    BY <1>1, <2>1, <2>2, UpTo
  <2> QED  BY <2>3 DEF S
<1>8. P \in [0 .. n -> Bytes] /\ P[n] = Sum(s)
  <2>1. P[n] = g[1 .. n] /\ P = [k \in 0 .. n |-> P[k]]
    BY <1>1
  <2>2. P[n] = Sum(s)
    BY <1>1, <1>4, <2>1, Zenon
  <2> HIDE DEF P
  <2> QED  BY <1>7, <2>1, <2>2
<1> HIDE DEF P
<1> QED  BY <1>6, <1>8 DEF RunningSum

LEMMA SumOfAppend ==
  ASSUME NEW p \in Seq(Bytes), NEW c \in Bytes
  PROVE  Sum(p) \in Bytes /\ Sum(Append(p, c)) = (Sum(p) + c) % Base
<1> DEFINE n == Len(p)
           a == Append(p, c)
<1>1. /\ n \in Nat /\ a \in Seq(Bytes) /\ Len(a) = n + 1 /\ a[n + 1] = c
      /\ \A k \in 1 .. n : a[k] = p[k]
  BY AppendProperties, LenProperties
<1> HIDE DEF a
<1>2. PICK P : RunningSum(P, p)
  BY SumRuns
<1>3. PICK A : RunningSum(A, a)
  BY <1>1, SumRuns
<1> DEFINE S == {k \in 0 .. n : A[k] = P[k]}
<1>4. 0 \in S
  BY <1>1, <1>2, <1>3 DEF RunningSum
<1>5. \A k \in 1 .. n : k - 1 \in S => k \in S
  BY <1>1, <1>2, <1>3 DEF RunningSum
<1> HIDE DEF S
<1>6. 0 .. n \subseteq S
  BY <1>1, <1>4, <1>5, UpTo
<1>7. A[n] = P[n] /\ P[n] = Sum(p) /\ P[n] \in Bytes
  BY <1>1, <1>2, <1>6 DEF S, RunningSum
<1>8. A[n + 1] = (A[n] + c) % Base /\ A[n + 1] = Sum(a)
  <2>1. n + 1 \in 1 .. Len(a) /\ (n + 1) - 1 = n
    BY <1>1
  <2> QED  BY <1>1, <1>3, <2>1 DEF RunningSum
<1> QED  BY <1>7, <1>8 DEF a

(* The checksum makes it zero. *)
LEMMA ChecksumSums ==
  ASSUME NEW p \in Seq(Bytes)
  PROVE  Checksum(p) \in Bytes /\ Sum(Append(p, Checksum(p))) = 0
<1>1. 0 \in Bytes /\ Base \in Nat /\ Base > 0
  BY DEF Bytes
<1>2. Sum(p) \in Bytes
  BY <1>1, SumOfAppend
<1>3. Checksum(p) = IF Sum(p) = 0 THEN 0 ELSE Base - Sum(p)
  <2>1. CASE Sum(p) = 0
    BY <1>1, <2>1 DEF Checksum
  <2>2. CASE Sum(p) # 0
    <3> DEFINE d == Base - Sum(p)
    <3>1. d \in Nat /\ d < Base
      BY <1>1, <1>2, <2>2 DEF Bytes
    <3> HIDE DEF d
    <3>2. d % Base = d
      BY <1>1, <3>1
    <3> QED  BY <2>2, <3>2 DEF Checksum, d
  <2> QED  BY <2>1, <2>2
<1>4. Checksum(p) \in Bytes
  BY <1>1, <1>2, <1>3 DEF Bytes
<1>5. Sum(Append(p, Checksum(p))) = (Sum(p) + Checksum(p)) % Base
  BY <1>4, SumOfAppend
<1>6. (Sum(p) + Checksum(p)) % Base = 0
  BY <1>1, <1>2, <1>3, <1>4, AddBytes DEF Bytes
<1> QED  BY <1>4, <1>5, <1>6

(* One other byte makes another sum. *)
DifferAt(s, t, j) ==
  /\ Len(t) = Len(s) /\ j \in 1 .. Len(s) /\ s[j] # t[j]
  /\ \A i \in 1 .. Len(s) : i # j => s[i] = t[i]

LEMMA SumDiffers ==
  ASSUME NEW s \in Seq(Bytes), NEW t \in Seq(Bytes), NEW j, DifferAt(s, t, j)
  PROVE  Sum(s) # Sum(t)
<1> DEFINE n == Len(s)
<1>1. /\ n \in Nat /\ Len(t) = n /\ j \in 1 .. n /\ n \in 0 .. n
      /\ \A k \in 1 .. n : s[k] \in Bytes /\ t[k] \in Bytes
  BY LenProperties DEF DifferAt
<1>2. PICK P : RunningSum(P, s)
  BY SumRuns
<1>3. PICK Q : RunningSum(Q, t)
  BY SumRuns
<1> DEFINE S == {k \in 0 .. n : P[k] = Q[k] <=> k < j}
<1>4. 0 \in S
  BY <1>1, <1>2, <1>3 DEF RunningSum
<1>5. ASSUME NEW k \in 1 .. n, k - 1 \in S PROVE k \in S
  <2>1. /\ P[k - 1] \in Bytes /\ Q[k - 1] \in Bytes
        /\ P[k] = (P[k - 1] + s[k]) % Base /\ Q[k] = (Q[k - 1] + t[k]) % Base
    <3>1. k - 1 \in 0 .. Len(s) /\ k - 1 \in 0 .. Len(t) /\ k \in 1 .. Len(s) /\ k \in 1 .. Len(t)
      BY <1>1
    <3> QED  BY <1>2, <1>3, <3>1 DEF RunningSum
  <2>2. CASE k # j
    <3>1. s[k] = t[k] /\ (k < j <=> k - 1 < j)
      BY <1>1, <2>2 DEF DifferAt
    <3>2. P[k] = Q[k] <=> P[k - 1] = Q[k - 1]
      BY <1>1, <2>1, <3>1, AddCancels
    <3>3. P[k - 1] = Q[k - 1] <=> k - 1 < j
      BY <1>5
    <3> QED  BY <3>1, <3>2, <3>3
  <2>3. CASE k = j
    <3>1. s[k] # t[k] /\ P[k - 1] = Q[k - 1] /\ ~(k < j)
      BY <1>1, <1>5, <2>3 DEF DifferAt
    <3>2. P[k] # Q[k]
      BY <1>1, <2>1, <2>3, <3>1, AddCancels
    <3> QED  BY <3>1, <3>2
  <2> QED  BY <2>2, <2>3
<1> HIDE DEF S
<1>6. 0 .. n \subseteq S
  BY <1>1, <1>4, <1>5, UpTo
<1>7. P[n] # Q[n]
  BY <1>1, <1>6 DEF S
<1> QED  BY <1>1, <1>2, <1>3, <1>7 DEF RunningSum
-----------------------------------------------------------------------------
(* The encoded frame, place by place. *)
Framed(p) == Append(p, Checksum(p))

LEMMA FramedIs ==
  ASSUME NEW p \in Seq(Bytes)
  PROVE  /\ Framed(p) \in Seq(Bytes) /\ Len(Framed(p)) = Len(p) + 1 /\ Sum(Framed(p)) = 0
         /\ Front(Framed(p)) = p
<1>1. Checksum(p) \in Bytes /\ Sum(Framed(p)) = 0
  BY ChecksumSums DEF Framed
<1>2. Framed(p) \in Seq(Bytes) /\ Len(Framed(p)) = Len(p) + 1
  BY <1>1, AppendProperties DEF Framed
<1>3. Front(Framed(p)) = p
  <2>1. /\ Len(p) \in Nat /\ 1 \in 1 .. Len(Framed(p)) + 1 /\ Len(Framed(p)) - 1 = Len(p)
        /\ Len(p) \in 1 - 1 .. Len(Framed(p))
    BY <1>2, LenProperties
  <2>2. /\ Front(Framed(p)) \in Seq(Bytes) /\ Len(Front(Framed(p))) = Len(p)
        /\ \A i \in 1 .. Len(p) : Front(Framed(p))[i] = Framed(p)[i]
    BY <1>2, <2>1, SubSeqProperties DEF Front
  <2>3. \A i \in 1 .. Len(p) : Framed(p)[i] = p[i]
    BY <1>1, AppendProperties DEF Framed
  <2> QED  BY <2>2, <2>3, SeqEqual
<1> QED  BY <1>1, <1>2, <1>3

LEMMA EscapedIs ==
  ASSUME NEW b \in Bytes
  PROVE  /\ Escaped(b) \in Seq(Bytes)
         /\ b \in Controls => Len(Escaped(b)) = 2 /\ Escaped(b)[1] = Esc /\ Escaped(b)[2] = b
         /\ b \notin Controls => Len(Escaped(b)) = 1 /\ Escaped(b)[1] = b
BY DEF Escaped, NeedsEsc, Controls

RunningCode(P, s) ==
  /\ P \in [0 .. Len(s) -> Seq(Bytes)]
  /\ P[0] = <<Sof>>
  /\ \A k \in 1 .. Len(s) : P[k] = P[k - 1] \o Escaped(s[k])

LEMMA CodeRuns ==
  ASSUME NEW p \in Seq(Bytes)
  PROVE  \E P : RunningCode(P, Framed(p)) /\ Encode(p) = P[Len(Framed(p))] \o <<Eof>>
<1> DEFINE s == Framed(p)
           n == Len(s)
           Fold(g) == g = [t \in SUBSET DOMAIN s |->
                             IF t = {} THEN <<Sof>> ELSE g[t \ {Max(t)}] \o Escaped(s[Max(t)])]
<1>1. n \in Nat /\ DOMAIN s = 1 .. n /\ \A k \in 1 .. n : s[k] \in Bytes
  BY FramedIs, LenProperties
<1>2. <<Sof>> \in Seq(Bytes)
  BY DEF Controls
<1>3. \A w \in Seq(Bytes), k \in 1 .. n : w \o Escaped(s[k]) \in Seq(Bytes)
  BY <1>1, EscapedIs, ConcatProperties
<1> HIDE DEF s
<1>4. \E g : Fold(g)
  <2> DEFINE F == [w \in Seq(Bytes) |-> [k \in 1 .. n |-> w \o Escaped(s[k])]]
  <2>1. F \in [Seq(Bytes) -> [1 .. n -> Seq(Bytes)]]
    BY <1>3
  <2>2. PICK g : IsFold(g, F, Seq(Bytes), <<Sof>>, n)
    <3> HIDE DEF F, n
    <3> QED  BY <1>1, <1>2, <2>1, FoldExists
  <2>3. /\ g \in [SUBSET (1 .. n) -> Seq(Bytes)]
        /\ \A t \in SUBSET (1 .. n) :
             g[t] = IF t = {} THEN <<Sof>> ELSE F[g[t \ {Max(t)}]][Max(t)]
    <3> HIDE DEF F
    <3> QED  BY <2>2 DEF IsFold
  <2>4. ASSUME NEW t \in SUBSET (1 .. n), t # {}
        PROVE  g[t] = g[t \ {Max(t)}] \o Escaped(s[Max(t)])
    <3>1. Max(t) \in 1 .. n
      BY <1>1, <2>4, MaxOf
    <3>2. g[t \ {Max(t)}] \in Seq(Bytes)
      BY <2>3
    <3>3. F[g[t \ {Max(t)}]][Max(t)] = g[t \ {Max(t)}] \o Escaped(s[Max(t)])
      BY <3>1, <3>2
    <3> HIDE DEF F
    <3> QED  BY <2>3, <2>4, <3>3
  <2> HIDE DEF F
  <2>5. Fold(g)
    BY <1>1, <2>3, <2>4
  <2> QED  BY <2>5
<1>5. PICK g : Fold(g) /\ Encode(p) = g[DOMAIN s] \o <<Eof>>
  BY <1>4, Zenon DEF Encode, FoldLeft, MapThenFoldSet, s, Framed
<1>6. \A t \in SUBSET (1 .. n) :
        g[t] = IF t = {} THEN <<Sof>> ELSE g[t \ {Max(t)}] \o Escaped(s[Max(t)])
  BY <1>1, <1>5
<1> DEFINE P == [k \in 0 .. n |-> g[1 .. k]]
<1>7. P[0] = <<Sof>>
  <2>1. P[0] = g[1 .. 0]
    BY <1>1
  <2>2. 1 .. 0 = {} /\ {} \in SUBSET (1 .. n)
    OBVIOUS
  <2>3. g[{}] = <<Sof>>
    BY <1>6, <2>2, Zenon
  <2> QED  BY <2>1, <2>2, <2>3, Zenon
<1>8. ASSUME NEW k \in 1 .. n PROVE P[k] = P[k - 1] \o Escaped(s[k])
  <2>1. g[1 .. k] = g[1 .. k - 1] \o Escaped(s[k])
    BY <1>1, <1>6, Intervals
  <2> QED  BY <1>1, <2>1
<1>9. \A k \in 0 .. n : P[k] \in Seq(Bytes)
  <2> DEFINE V == Seq(Bytes)
             S == {k \in 0 .. n : P[k] \in V}
  <2>0. /\ P[0] \in V
        /\ \A k \in 1 .. n : P[k - 1] \in V => P[k] \in V
    <3> HIDE DEF P
    <3> QED  BY <1>2, <1>3, <1>7, <1>8
  <2> HIDE DEF P, V
  <2>1. 0 \in S
    BY <1>1, <2>0
  <2>2. \A k \in 1 .. n : k - 1 \in S => k \in S
    BY <1>1, <2>0
  <2> HIDE DEF S
  <2>3. 0 .. n \subseteq S
    BY <1>1, <2>1, <2>2, UpTo
  <2> QED  BY <2>3 DEF S, V
<1>10. P = [k \in 0 .. n |-> P[k]] /\ P[n] = g[1 .. n]
  BY <1>1
<1> HIDE DEF P
<1>11. RunningCode(P, s)
  BY <1>7, <1>8, <1>9, <1>10 DEF RunningCode
<1>12. Encode(p) = P[n] \o <<Eof>>
  BY <1>1, <1>5, <1>10, Zenon
<1> QED  BY <1>11, <1>12 DEF s

(* The byte k of s lies in w behind the first L[k - 1], alone or escaped.  *)
Placed(w, s, L, k) ==
  IF s[k] \in Controls
    THEN L[k] = L[k - 1] + 2 /\ w[L[k - 1] + 1] = Esc /\ w[L[k - 1] + 2] = s[k]
    ELSE L[k] = L[k - 1] + 1 /\ w[L[k - 1] + 1] = s[k]
Layout(w, s, L, m) ==
  /\ w[1] = Sof /\ L[0] = 1
  /\ \A k \in 1 .. m : Placed(w, s, L, k)
  /\ \A k \in 0 .. m : L[k] \in Nat \ {0} /\ L[k] + (m - k) <= L[m]

LEMMA PlacedKept ==
  ASSUME NEW w, NEW v, NEW s, NEW L, NEW k, Placed(w, s, L, k),
         L[k - 1] \in Nat, L[k] \in Nat,
         \A i \in Nat : 1 <= i /\ i <= L[k] => v[i] = w[i]
  PROVE  Placed(v, s, L, k)
<1> DEFINE a == L[k - 1]
<1>1. a \in Nat /\ a + 1 \in Nat /\ a + 2 \in Nat /\ 1 <= a + 1 /\ 1 <= a + 2
  OBVIOUS
<1>2. L[k] = a + 1 \/ L[k] = a + 2
  BY DEF Placed
<1>3. v[a + 1] = w[a + 1] /\ (L[k] = a + 2 => v[a + 2] = w[a + 2])
  BY <1>1, <1>2
<1> QED  BY <1>3 DEF Placed

LEMMA LayoutGrows ==
  ASSUME NEW s, NEW L, NEW m \in Nat, NEW w, NEW v, Layout(w, s, L, m),
         Placed(v, s, L, m + 1), \A i \in Nat : 1 <= i /\ i <= L[m] => v[i] = w[i]
  PROVE  Layout(v, s, L, m + 1)
<1>1. L[m] \in Nat \ {0}
  BY DEF Layout
<1>2. L[m + 1] = L[m] + 1 \/ L[m + 1] = L[m] + 2
  BY DEF Placed
<1>3. v[1] = Sof /\ L[0] = 1
  BY <1>1 DEF Layout
<1>4. ASSUME NEW k \in 0 .. m + 1
      PROVE  L[k] \in Nat \ {0} /\ L[k] + (m + 1 - k) <= L[m + 1]
  <2>1. CASE k = m + 1
    BY <1>1, <1>2, <2>1
  <2>2. CASE k # m + 1
    <3>1. k \in 0 .. m /\ L[k] \in Nat \ {0} /\ L[k] + (m - k) <= L[m]
      BY <2>2 DEF Layout
    <3> QED  BY <1>1, <1>2, <3>1
  <2> QED  BY <2>1, <2>2
<1>5. ASSUME NEW k \in 1 .. m + 1 PROVE Placed(v, s, L, k)
  <2>1. CASE k = m + 1
    BY <2>1
  <2>2. CASE k # m + 1
    <3>1. k \in 1 .. m /\ k \in 0 .. m /\ k - 1 \in 0 .. m
      BY <2>2
    <3>2. Placed(w, s, L, k) /\ L[k - 1] \in Nat \ {0} /\ L[k] \in Nat
      BY <3>1 DEF Layout
    <3>3. L[k] <= L[m]
      BY <1>1, <3>1 DEF Layout
    <3>4. \A i \in Nat : 1 <= i /\ i <= L[k] => v[i] = w[i]
      BY <1>1, <3>2, <3>3
    <3> QED  BY <3>2, <3>4, PlacedKept
  <2> QED  BY <2>1, <2>2
<1> QED  BY <1>3, <1>4, <1>5 DEF Layout

(* v is w and one more byte, alone or escaped.                             *)
LongerBy(v, w, b) ==
  /\ \A i \in Nat : 1 <= i /\ i <= Len(w) => v[i] = w[i]
  /\ IF b \in Controls
       THEN Len(v) = Len(w) + 2 /\ v[Len(w) + 1] = Esc /\ v[Len(w) + 2] = b
       ELSE Len(v) = Len(w) + 1 /\ v[Len(w) + 1] = b

LEMMA EscapedBehind ==
  ASSUME NEW w \in Seq(Bytes), NEW b \in Bytes
  PROVE  LongerBy(w \o Escaped(b), w, b)
<1> DEFINE e == Escaped(b)
<1>1. /\ e \in Seq(Bytes)
      /\ b \in Controls => Len(e) = 2 /\ e[1] = Esc /\ e[2] = b
      /\ b \notin Controls => Len(e) = 1 /\ e[1] = b
  BY EscapedIs
<1> HIDE DEF e
<1>2. /\ Len(w \o e) = Len(w) + Len(e)
      /\ \A i \in 1 .. Len(w) + Len(e) :
           (w \o e)[i] = IF i <= Len(w) THEN w[i] ELSE e[i - Len(w)]
  BY <1>1, ConcatProperties
<1>3. Len(w) \in Nat /\ Len(e) \in Nat
  BY <1>1, LenProperties
<1>4. ASSUME NEW j \in Nat, 1 <= j, j <= Len(e) PROVE (w \o e)[Len(w) + j] = e[j]
  <2>1. /\ Len(w) + j \in 1 .. Len(w) + Len(e) /\ ~(Len(w) + j <= Len(w))
        /\ (Len(w) + j) - Len(w) = j
    BY <1>3, <1>4
  <2> QED  BY <1>2, <2>1
<1>5. \A i \in Nat : 1 <= i /\ i <= Len(w) => (w \o e)[i] = w[i]
  BY <1>2, <1>3
<1>6. 2 <= Len(e) => (w \o e)[Len(w) + 2] = e[2]
  BY <1>4
<1>7. 1 <= Len(e) => (w \o e)[Len(w) + 1] = e[1]
  BY <1>4
<1> QED  BY <1>1, <1>2, <1>5, <1>6, <1>7 DEF e, LongerBy

LEMMA EncodeLaysOut ==
  ASSUME NEW p \in Seq(Bytes)
  PROVE  /\ Encode(p) \in Seq(Bytes)
         /\ \E L : /\ Layout(Encode(p), Framed(p), L, Len(Framed(p)))
                   /\ Len(Encode(p)) = L[Len(Framed(p))] + 1
                   /\ Encode(p)[Len(Encode(p))] = Eof
<1> DEFINE s == Framed(p)
           n == Len(s)
<1>1. n \in Nat /\ s \in Seq(Bytes) /\ \A k \in 1 .. n : s[k] \in Bytes
  BY FramedIs, LenProperties
<1>2. PICK P : RunningCode(P, s) /\ Encode(p) = P[n] \o <<Eof>>
  BY CodeRuns
<1> HIDE DEF s
<1> DEFINE L == [k \in 0 .. n |-> Len(P[k])]
           S == {k \in 0 .. n : Layout(P[k], s, L, k)}
<1>3. \A k \in 0 .. n : L[k] = Len(P[k]) /\ P[k] \in Seq(Bytes)
  BY <1>2 DEF RunningCode
<1> HIDE DEF L
<1>4. 0 \in S
  <2>1. P[0] = <<Sof>> /\ 0 \in 0 .. n
    BY <1>1, <1>2 DEF RunningCode
  <2>2. P[0][1] = Sof /\ L[0] = 1
    BY <1>3, <2>1, Len(<<Sof>>) = 1 /\ <<Sof>>[1] = Sof, Zenon
  <2>3. Layout(P[0], s, L, 0)
    BY <2>2 DEF Layout
  <2> QED  BY <2>1, <2>3
<1>5. ASSUME NEW k \in 1 .. n, k - 1 \in S PROVE k \in S
  <2> DEFINE m == k - 1
  <2>1. m \in Nat /\ m < n /\ m + 1 = k /\ m \in 0 .. n /\ k \in 0 .. n
    BY <1>1
  <2>2. P[k] = P[m] \o Escaped(s[k])
    BY <1>2 DEF RunningCode
  <2>3. Layout(P[m], s, L, m)
    BY <1>5
  <2>5. /\ s[k] \in Bytes /\ P[m] \in Seq(Bytes)
        /\ L[m] = Len(P[m]) /\ L[k] = Len(P[m] \o Escaped(s[k]))
    BY <1>1, <1>3, <2>1, <2>2
  <2>6. LongerBy(P[k], P[m], s[k])
    <3> HIDE DEF m
    <3> QED  BY <2>2, <2>5, EscapedBehind
  <2>7. /\ \A i \in Nat : 1 <= i /\ i <= L[m] => P[k][i] = P[m][i]
        /\ Placed(P[k], s, L, k)
    BY <2>2, <2>5, <2>6 DEF Placed, LongerBy
  <2> HIDE DEF m
  <2>4. Layout(P[m + 1], s, L, m + 1)
    BY <2>1, <2>3, <2>7, LayoutGrows
  <2> QED  BY <2>1, <2>4
<1>6. Layout(P[n], s, L, n)
  <2> HIDE DEF S
  <2>1. 0 .. n \subseteq S
    BY <1>1, <1>4, <1>5, UpTo
  <2> QED  BY <1>1, <2>1 DEF S
<1>7. P[n] \in Seq(Bytes) /\ Len(P[n]) = L[n] /\ L[n] \in Nat
  BY <1>1, <1>3, LenProperties
<1>8. /\ Encode(p) \in Seq(Bytes) /\ Len(Encode(p)) = L[n] + 1
      /\ Encode(p)[L[n] + 1] = Eof /\ \A i \in 1 .. L[n] : Encode(p)[i] = P[n][i]
  <2>1. Encode(p) = Append(P[n], Eof) /\ Eof \in Bytes
    BY <1>2, <1>7, AppendIsConcat DEF Controls
  <2> QED  BY <1>7, <2>1, AppendProperties
<1>9. Layout(Encode(p), s, L, n)
  <2> DEFINE w == P[n]
             v == Encode(p)
  <2>1. ASSUME NEW k \in 0 .. n PROVE L[k] \in Nat \ {0} /\ L[k] <= L[n]
    <3>1. L[k] \in Nat \ {0} /\ L[k] + (n - k) <= L[n]
      BY <1>6 DEF Layout
    <3>2. n - k \in Nat
      BY <1>1
    <3> HIDE DEF n
    <3> QED  BY <1>7, <3>1, <3>2
  <2>2. v[1] = Sof /\ L[0] = 1
    BY <1>1, <1>6, <1>8, <2>1 DEF Layout
  <2>3. ASSUME NEW k \in 1 .. n PROVE Placed(v, s, L, k)
    <3>1. k \in 0 .. n /\ k - 1 \in 0 .. n
      BY <1>1
    <3>2. Placed(w, s, L, k)
      BY <1>6 DEF Layout
    <3>3. \A i \in Nat : 1 <= i /\ i <= L[k] => v[i] = w[i]
      <4>1. L[k] \in Nat /\ L[k] <= L[n] /\ \A i \in 1 .. L[n] : v[i] = w[i]
        BY <1>8, <2>1, <3>1
      <4> HIDE DEF w, v
      <4> QED  BY <1>7, <4>1
    <3> HIDE DEF w, v
    <3> QED  BY <2>1, <3>1, <3>2, <3>3, PlacedKept
  <2> HIDE DEF w, v
  <2> QED  BY <1>6, <2>2, <2>3 DEF Layout, v
<1> QED  BY <1>8, <1>9 DEF s
-----------------------------------------------------------------------------
(* The decoder on its way through a frame: r is its state, rest what is    *)
(* still to come, changed whether a byte has been altered.                 *)
Decoders == [buf : Seq(Bytes), inFrame : BOOLEAN, esc : BOOLEAN]
Rest(rest, w, a) ==
  /\ a \in Nat /\ Len(rest) = Len(w) - a
  /\ \A i \in Nat : 1 <= i /\ i <= Len(rest) => rest[i] = w[a + i]

(* It has taken k bytes of s, one of them perhaps altered; one more than   *)
(* its buffer holds, and it has given up.                                  *)
Took(r, changed, s, k) ==
  IF k > MaxPayload THEN ~r.inFrame
  ELSE /\ r.inFrame /\ Len(r.buf) = k
       /\ IF changed THEN \E j \in 1 .. k : /\ s[j] # r.buf[j]
                                            /\ \A i \in 1 .. k : i # j => s[i] = r.buf[i]
                     ELSE \A i \in 1 .. k : s[i] = r.buf[i]

Laid(p, L) ==
  /\ Layout(Encode(p), Framed(p), L, Len(p) + 1)
  /\ Len(Encode(p)) = L[Len(p) + 1] + 1 /\ Encode(p)[L[Len(p) + 1] + 1] = Eof
Begun(r, rest, changed, p) == ~r.esc /\ ~changed /\ Rest(rest, Encode(p), 0)
Between(r, rest, changed, p, L, k) ==
  ~r.esc /\ Rest(rest, Encode(p), L[k]) /\ Took(r, changed, Framed(p), k)
Escaping(r, rest, changed, p, L, k) ==
  /\ r.esc /\ k <= Len(p) /\ Framed(p)[k + 1] \in Controls
  /\ Rest(rest, Encode(p), L[k] + 1) /\ Took(r, changed, Framed(p), k)
Course(r, rest, changed, p) ==
  \E L : /\ Laid(p, L)
         /\ \/ Begun(r, rest, changed, p)
            \/ \E k \in 0 .. Len(p) + 1 : \/ Between(r, rest, changed, p, L, k)
                                          \/ Escaping(r, rest, changed, p, L, k)

LEMMA RestGoesOn ==
  ASSUME NEW rest \in Seq(Bytes), rest # <<>>, NEW w, Len(w) \in Nat, NEW a, Rest(rest, w, a)
  PROVE  Head(rest) = w[a + 1] /\ Rest(Tail(rest), w, a + 1)
<1>1. /\ Len(rest) \in Nat /\ Len(rest) >= 1 /\ Head(rest) = rest[1]
      /\ Len(Tail(rest)) = Len(rest) - 1
      /\ \A i \in 1 .. Len(Tail(rest)) : Tail(rest)[i] = rest[i + 1]
  BY HeadTailProperties, LenProperties, EmptySeq
<1>2. a \in Nat /\ Head(rest) = w[a + 1]
  BY <1>1 DEF Rest
<1>3. ASSUME NEW i \in Nat, 1 <= i, i <= Len(Tail(rest)) PROVE Tail(rest)[i] = w[(a + 1) + i]
  <2>1. i \in 1 .. Len(Tail(rest)) /\ i + 1 \in Nat /\ 1 <= i + 1 /\ i + 1 <= Len(rest)
    BY <1>1, <1>3
  <2>2. Tail(rest)[i] = rest[i + 1] /\ rest[i + 1] = w[a + (i + 1)]
    BY <1>1, <2>1 DEF Rest
  <2>3. a + (i + 1) = (a + 1) + i
    BY <1>2
  <2> QED  BY <2>2, <2>3
<1>4. a + 1 \in Nat /\ Len(Tail(rest)) = Len(w) - (a + 1)
  BY <1>1, <1>2 DEF Rest
<1> QED  BY <1>2, <1>3, <1>4 DEF Rest

(* What is kept of a byte. *)
LEMMA KeptTakes ==
  ASSUME NEW r \in Decoders, NEW b \in Bytes, NEW s, NEW k \in Nat, k <= MaxPayload,
         NEW changed \in BOOLEAN, Took(r, changed, s, k),
         NEW after \in BOOLEAN, IF b = s[k + 1] THEN after = changed ELSE ~changed /\ after
  PROVE  Kept(r, b) \in Decoders /\ Took(Kept(r, b), after, s, k + 1)
<1>1. r.inFrame /\ Len(r.buf) = k /\ r.buf \in Seq(Bytes)
  BY DEF Took, Decoders
<1>2. CASE k = MaxPayload
  <2>1. Kept(r, b) = [buf |-> <<>>, inFrame |-> FALSE, esc |-> r.esc]
    BY <1>1, <1>2 DEF Kept, Decoders
  <2>2. Kept(r, b) \in Decoders /\ ~Kept(r, b).inFrame
    BY <2>1, EmptySeq DEF Decoders
  <2>3. k + 1 > MaxPayload
    BY <1>2
  <2> QED  BY <2>2, <2>3 DEF Took
<1>3. CASE k < MaxPayload
  <2> DEFINE buf == Append(r.buf, b)
  <2>1. Kept(r, b) = [r EXCEPT !.buf = buf]
    BY <1>1, <1>3 DEF Kept
  <2>2. /\ buf \in Seq(Bytes) /\ Len(buf) = k + 1 /\ buf[k + 1] = b
        /\ \A i \in 1 .. k : buf[i] = r.buf[i]
    BY <1>1, AppendProperties
  <2> HIDE DEF buf
  <2>3. Kept(r, b) \in Decoders /\ Kept(r, b).inFrame /\ Kept(r, b).buf = buf
    BY <1>1, <2>1, <2>2 DEF Decoders
  <2>4. CASE b = s[k + 1] /\ ~changed
    <3>1. ~after /\ \A i \in 1 .. k + 1 : s[i] = buf[i]
      BY <1>1, <1>3, <2>2, <2>4 DEF Took
    <3> QED  BY <1>3, <2>2, <2>3, <3>1 DEF Took
  <2>5. CASE b = s[k + 1] /\ changed
    <3>1. PICK j \in 1 .. k : s[j] # r.buf[j] /\ \A i \in 1 .. k : i # j => s[i] = r.buf[i]
      BY <1>3, <2>5 DEF Took
    <3>2. after /\ s[j] # buf[j] /\ \A i \in 1 .. k + 1 : i # j => s[i] = buf[i]
      BY <2>2, <2>5, <3>1
    <3> QED  BY <1>3, <2>2, <2>3, <3>2 DEF Took
  <2>6. CASE b # s[k + 1]
    <3>1. after /\ s[k + 1] # buf[k + 1] /\ \A i \in 1 .. k + 1 : i # k + 1 => s[i] = buf[i]
      BY <1>1, <1>3, <2>2, <2>6 DEF Took
    <3> QED  BY <1>3, <2>2, <2>3, <3>1 DEF Took
  <2> QED  BY <2>4, <2>5, <2>6
<1> QED  BY <1>2, <1>3

LEMMA KeptEsc == ASSUME NEW r \in Decoders, NEW b PROVE Kept(r, b).esc = r.esc
BY DEF Kept, Decoders

LEMMA LaidAt ==
  ASSUME NEW p \in Seq(Bytes), NEW L, Laid(p, L)
  PROVE  /\ L[0] = 1 /\ Encode(p)[1] = Sof /\ Len(Encode(p)) \in Nat /\ Len(Encode(p)) > 1
         /\ L[Len(p) + 1] \in Nat
         /\ \A k \in 0 .. Len(p) :
              /\ L[k] \in Nat \ {0} /\ L[k] + 1 + (Len(p) - k) <= L[Len(p) + 1]
              /\ Framed(p)[k + 1] \in Bytes
              /\ IF Framed(p)[k + 1] \in Controls
                   THEN /\ L[k + 1] = L[k] + 2 /\ Encode(p)[L[k] + 1] = Esc
                        /\ Encode(p)[L[k] + 2] = Framed(p)[k + 1]
                   ELSE L[k + 1] = L[k] + 1 /\ Encode(p)[L[k] + 1] = Framed(p)[k + 1]
<1> DEFINE n == Len(p)
           s == Framed(p)
           w == Encode(p)
<1>1. n \in Nat /\ \A k \in 0 .. n : s[k + 1] \in Bytes
  <2>1. n \in Nat /\ s \in Seq(Bytes) /\ Len(s) = n + 1
    BY FramedIs, LenProperties
  <2>2. \A k \in 1 .. n + 1 : s[k] \in Bytes
    BY <2>1, LenProperties
  <2> QED  BY <2>1, <2>2
<1>2. Layout(w, s, L, n + 1) /\ Len(w) = L[n + 1] + 1
  BY DEF Laid
<1> HIDE DEF n, s, w
<1>3. /\ L[0] = 1 /\ w[1] = Sof
      /\ \A k \in 0 .. n + 1 : L[k] \in Nat \ {0} /\ L[k] + ((n + 1) - k) <= L[n + 1]
      /\ \A k \in 1 .. n + 1 : Placed(w, s, L, k)
  BY <1>2, Zenon DEF Layout
<1>4. L[n + 1] \in Nat \ {0} /\ Len(w) \in Nat /\ Len(w) > 1
  <2>1. n + 1 \in 0 .. n + 1
    BY <1>1
  <2>2. L[n + 1] \in Nat \ {0}
    BY <1>3, <2>1
  <2> QED  BY <1>2, <2>2
<1>5. ASSUME NEW k \in 0 .. n
      PROVE  /\ L[k] \in Nat \ {0} /\ L[k] + 1 + (n - k) <= L[n + 1]
             /\ IF s[k + 1] \in Controls
                  THEN L[k + 1] = L[k] + 2 /\ w[L[k] + 1] = Esc /\ w[L[k] + 2] = s[k + 1]
                  ELSE L[k + 1] = L[k] + 1 /\ w[L[k] + 1] = s[k + 1]
  <2>1. k \in 0 .. n + 1 /\ k + 1 \in 1 .. n + 1 /\ (k + 1) - 1 = k
    BY <1>1
  <2>2. L[k] \in Nat \ {0} /\ L[k] + ((n + 1) - k) <= L[n + 1]
    BY <1>3, <2>1
  <2>3. L[k] + 1 + (n - k) <= L[n + 1]
    BY <1>1, <1>4, <2>2
  <2>4. Placed(w, s, L, k + 1)
    BY <1>3, <2>1
  <2> QED  BY <2>1, <2>2, <2>3, <2>4 DEF Placed
<1> QED  BY <1>1, <1>3, <1>4, <1>5 DEF n, s, w

(* The next byte, as it was sent or altered.                               *)
NextByte(b, rest, r, changed, after) ==
  \/ b = Head(rest) /\ after = changed
  \/ /\ ~changed /\ after /\ ~r.esc
     /\ b # Head(rest) /\ {b, Head(rest)} \cap Controls = {}

LEMMA FedDecodes ==
  ASSUME NEW r \in Decoders, NEW b \in Bytes
  PROVE  Kept(r, b) \in Decoders /\ Fed(r, b) \in Decoders
<1>1. Kept(r, b) \in Decoders
  <2>1. Append(r.buf, b) \in Seq(Bytes) /\ <<>> \in Seq(Bytes)
    BY AppendProperties, EmptySeq DEF Decoders
  <2> HIDE DEF Bytes
  <2> QED  BY <2>1 DEF Kept, Decoders
<1>2. <<>> \in Seq(Bytes)
  BY EmptySeq
<1> QED  BY <1>1, <1>2 DEF Fed, Reset, Decoders

LEMMA CourseGoesOn ==
  ASSUME NEW p \in Seq(Bytes), Len(p) \in 1 .. MaxPayload, NEW r \in Decoders,
         NEW rest \in Seq(Bytes), rest # <<>>, NEW changed \in BOOLEAN,
         Course(r, rest, changed, p),
         NEW b \in Bytes, NEW after \in BOOLEAN, NextByte(b, rest, r, changed, after)
  PROVE  Tail(rest) = <<>> \/ Course(Fed(r, b), Tail(rest), after, p)
<1> DEFINE n == Len(p)
           s == Framed(p)
           w == Encode(p)
<1> USE SizeAssumption, DistinctAssumption
<1>1. PICK L :
        /\ Laid(p, L)
        /\ \/ Begun(r, rest, changed, p)
           \/ \E k \in 0 .. n + 1 : \/ Between(r, rest, changed, p, L, k)
                                    \/ Escaping(r, rest, changed, p, L, k)
  BY DEF Course
<1>2. /\ L[0] = 1 /\ w[1] = Sof /\ Len(w) \in Nat /\ L[n + 1] \in Nat
      /\ Len(w) = L[n + 1] + 1
  BY <1>1, LaidAt DEF Laid
<1>3. ASSUME NEW a, Rest(rest, w, a)
      PROVE  Head(rest) = w[a + 1] /\ Rest(Tail(rest), w, a + 1)
  BY <1>2, <1>3, RestGoesOn
<1>4. CASE Begun(r, rest, changed, p)
  <2>1. ~r.esc /\ ~changed /\ Rest(rest, w, 0)
    BY <1>4 DEF Begun
  <2>2. Head(rest) = Sof /\ Rest(Tail(rest), w, 1)
    BY <1>2, <1>3, <2>1
  <2>3. b = Sof /\ ~after
    BY <2>1, <2>2 DEF NextByte, Controls
  <2>4. Fed(r, b) = [buf |-> <<>>, inFrame |-> TRUE, esc |-> FALSE]
    BY <2>1, <2>3 DEF Fed, Reset
  <2>5. Took(Fed(r, b), after, s, 0)
    BY <2>3, <2>4 DEF Took
  <2>6. Between(Fed(r, b), Tail(rest), after, p, L, 0)
    BY <1>2, <2>2, <2>4, <2>5 DEF Between
  <2> QED  BY <1>1, <2>6 DEF Course
<1>5. ASSUME NEW k \in 0 .. n + 1, Between(r, rest, changed, p, L, k), k # n + 1
      PROVE  Course(Fed(r, b), Tail(rest), after, p)
  <2>1. ~r.esc /\ Rest(rest, w, L[k]) /\ Took(r, changed, s, k)
    BY <1>5 DEF Between
  <2>2. Head(rest) = w[L[k] + 1] /\ Rest(Tail(rest), w, L[k] + 1)
    BY <1>3, <2>1
  <2>3. k \in 0 .. n /\ k \in Nat /\ k <= MaxPayload
    BY <1>5
  <2>4. CASE s[k + 1] \in Controls
    <3>1. Head(rest) = Esc
      BY <1>1, <2>2, <2>3, <2>4, LaidAt
    <3>2. b = Esc /\ after = changed
      BY <3>1 DEF NextByte, Controls
    <3>3. Fed(r, b) = [r EXCEPT !.esc = TRUE]
      BY <2>1, <3>2 DEF Fed
    <3>4. Fed(r, b).esc /\ Took(Fed(r, b), after, s, k)
      BY <2>1, <3>2, <3>3 DEF Decoders, Took
    <3>5. Escaping(Fed(r, b), Tail(rest), after, p, L, k)
      BY <2>2, <2>3, <2>4, <3>4 DEF Escaping
    <3> QED  BY <1>1, <3>5 DEF Course
  <2>5. CASE s[k + 1] \notin Controls
    <3>1. Head(rest) = s[k + 1] /\ L[k + 1] = L[k] + 1
      BY <1>1, <2>2, <2>3, <2>5, LaidAt
    <3>2. b \notin Controls /\ IF b = s[k + 1] THEN after = changed ELSE ~changed /\ after
      BY <2>5, <3>1 DEF NextByte
    <3>3. Fed(r, b) = Kept(r, b)
      BY <2>1, <3>2 DEF Fed, Controls
    <3>4. Took(Kept(r, b), after, s, k + 1)
      BY <2>1, <2>3, <3>2, KeptTakes
    <3>5. ~Kept(r, b).esc
      BY <2>1, KeptEsc
    <3>6. Between(Fed(r, b), Tail(rest), after, p, L, k + 1)
      BY <2>2, <3>1, <3>3, <3>4, <3>5 DEF Between
    <3>7. k + 1 \in 0 .. n + 1
      BY <2>3
    <3> QED  BY <1>1, <3>6, <3>7 DEF Course
  <2> QED  BY <2>4, <2>5
<1>6. ASSUME Between(r, rest, changed, p, L, n + 1) PROVE Tail(rest) = <<>>
  <2>1. Len(rest) = 1
    BY <1>2, <1>6 DEF Between, Rest
  <2>2. Tail(rest) \in Seq(Bytes) /\ Len(Tail(rest)) = 0
    BY <2>1, HeadTailProperties
  <2> QED  BY <2>2, EmptySeq
<1>7. ASSUME NEW k \in 0 .. n + 1, Escaping(r, rest, changed, p, L, k)
      PROVE  Course(Fed(r, b), Tail(rest), after, p)
  <2>1. /\ r.esc /\ k <= n /\ s[k + 1] \in Controls
        /\ Rest(rest, w, L[k] + 1) /\ Took(r, changed, s, k)
    BY <1>7 DEF Escaping
  <2>2. k \in 0 .. n /\ k \in Nat /\ k <= MaxPayload
    BY <1>7, <2>1
  <2>3. /\ L[k] \in Nat /\ L[k + 1] = L[k] + 2 /\ w[L[k] + 2] = s[k + 1]
    BY <1>1, <2>1, <2>2, LaidAt
  <2>4. Head(rest) = s[k + 1] /\ Rest(Tail(rest), w, L[k + 1])
    <3>1. (L[k] + 1) + 1 = L[k] + 2
      BY <2>3
    <3> QED  BY <1>3, <2>1, <2>3, <3>1
  <2>5. b = s[k + 1] /\ after = changed
    BY <2>1, <2>4 DEF NextByte
  <2>6. Fed(r, b) = [Kept(r, b) EXCEPT !.esc = FALSE]
    BY <2>1 DEF Fed
  <2>7. Took(Kept(r, b), after, s, k + 1) /\ Kept(r, b) \in Decoders
    BY <2>1, <2>2, <2>5, KeptTakes
  <2>8. ~Fed(r, b).esc /\ Took(Fed(r, b), after, s, k + 1)
    BY <2>6, <2>7 DEF Took, Decoders
  <2>9. Between(Fed(r, b), Tail(rest), after, p, L, k + 1)
    BY <2>4, <2>8 DEF Between
  <2>10. k + 1 \in 0 .. n + 1
    BY <2>2
  <2> QED  BY <1>1, <2>9, <2>10 DEF Course
<1> QED  BY <1>1, <1>4, <1>5, <1>6, <1>7

(* What the decoder finds in the last byte. *)
LEMMA LastFound ==
  ASSUME NEW p \in Seq(Bytes), Len(p) \in 1 .. MaxPayload, NEW r \in Decoders,
         NEW rest \in Seq(Bytes), Len(rest) = 1, NEW changed \in BOOLEAN,
         Course(r, rest, changed, p)
  PROVE  Found(r, Head(rest)) = IF ~changed /\ Len(p) < MaxPayload THEN p ELSE <<>>
<1> DEFINE n == Len(p)
           s == Framed(p)
           w == Encode(p)
<1>1. PICK L :
        /\ Laid(p, L)
        /\ \/ Begun(r, rest, changed, p)
           \/ \E k \in 0 .. n + 1 : \/ Between(r, rest, changed, p, L, k)
                                    \/ Escaping(r, rest, changed, p, L, k)
  BY DEF Course
<1>2. /\ L[n + 1] \in Nat /\ Len(w) \in Nat /\ Len(w) > 1
      /\ Len(w) = L[n + 1] + 1 /\ w[L[n + 1] + 1] = Eof
  BY <1>1, LaidAt DEF Laid
<1>3. ~Begun(r, rest, changed, p)
  BY <1>2 DEF Begun, Rest
<1>4. ASSUME NEW k \in 0 .. n PROVE L[k] \in Nat /\ L[k] < L[n + 1]
  <2>1. L[k] \in Nat /\ L[k] + 1 + (n - k) <= L[n + 1] /\ n - k \in Nat
    BY <1>1, LaidAt
  <2> HIDE DEF n
  <2> QED  BY <1>2, <2>1
<1>5. ASSUME NEW k \in 0 .. n, Between(r, rest, changed, p, L, k) PROVE FALSE
  <2>1. Len(w) - L[k] = 1
    BY <1>5 DEF Between, Rest
  <2>2. L[k] \in Nat /\ L[k] < L[n + 1]
    BY <1>4
  <2> HIDE DEF n, w
  <2> QED  BY <1>2, <2>1, <2>2
<1>6. ASSUME NEW k \in 0 .. n + 1, Escaping(r, rest, changed, p, L, k) PROVE FALSE
  <2>1. k \in 0 .. n /\ s[k + 1] \in Controls /\ Len(w) - (L[k] + 1) = 1
    BY <1>6 DEF Escaping, Rest
  <2>2. L[k + 1] = L[k] + 2 /\ L[k] \in Nat
    BY <1>1, <2>1, LaidAt
  <2>3. k = n \/ k + 1 \in 0 .. n
    BY <2>1
  <2>4. L[k + 1] <= L[n + 1]
    <3>1. CASE k = n
      BY <1>2, <3>1
    <3>2. CASE k # n
      BY <1>2, <1>4, <2>3, <3>2
    <3> QED  BY <3>1, <3>2
  <2> HIDE DEF n, w
  <2> QED  BY <1>2, <2>1, <2>2, <2>4
<1>7. Between(r, rest, changed, p, L, n + 1)
  BY <1>1, <1>3, <1>5, <1>6
<1>8. ~r.esc /\ Took(r, changed, s, n + 1) /\ Head(rest) = Eof
  <2>1. ~r.esc /\ Took(r, changed, s, n + 1) /\ Rest(rest, w, L[n + 1])
    BY <1>7 DEF Between
  <2>2. rest # <<>> /\ Head(rest) = w[L[n + 1] + 1]
    BY <1>2, <2>1, RestGoesOn
  <2> QED  BY <1>2, <2>1, <2>2
<1>9. CASE n = MaxPayload
  <2>1. ~r.inFrame
    BY <1>8, <1>9 DEF Took
  <2> QED  BY <1>9, <2>1 DEF Found
<1>10. CASE n < MaxPayload
  <2>1. /\ s \in Seq(Bytes) /\ Len(s) = n + 1 /\ Sum(s) = 0 /\ Front(s) = p
    BY FramedIs
  <2>2. r.inFrame /\ r.buf \in Seq(Bytes) /\ Len(r.buf) = n + 1 /\ Len(r.buf) >= 2
    BY <1>8, <1>10 DEF Took, Decoders
  <2>3. Found(r, Head(rest)) = IF Sum(r.buf) = 0 THEN Front(r.buf) ELSE <<>>
    BY <1>8, <2>2 DEF Found, Good
  <2>4. CASE changed
    <3>1. PICK j : DifferAt(s, r.buf, j)
      BY <1>8, <1>10, <2>1, <2>2, <2>4 DEF Took, DifferAt
    <3>2. Sum(r.buf) # 0
      BY <2>1, <2>2, <3>1, SumDiffers
    <3> QED  BY <2>3, <2>4, <3>2
  <2>5. CASE ~changed
    <3>1. \A i \in 1 .. n + 1 : s[i] = r.buf[i]
      BY <1>8, <1>10, <2>5 DEF Took
    <3>2. r.buf = s
      BY <2>1, <2>2, <3>1, SeqEqual
    <3> QED  BY <1>10, <2>1, <2>3, <2>5, <3>2
  <2> QED  BY <2>4, <2>5
<1> QED  BY <1>9, <1>10
-----------------------------------------------------------------------------
(* While nothing has spoiled it the decoder is on its way through the      *)
(* frame on the wire.                                                      *)
WireTypes ==
  /\ rx \in Decoders /\ wire \in Seq(Bytes) /\ clean \in BOOLEAN /\ altered \in BOOLEAN
  /\ payload = <<>> \/ (payload \in Seq(Bytes) /\ Len(payload) \in 1 .. MaxPayload)
  /\ payload = <<>> => wire = <<>>
WireInv == WireTypes /\ (clean /\ wire # <<>> => Course(rx, wire, altered, payload))

LEMMA PayloadsAre ==
  \A p \in Payloads : p \in Seq(Bytes) /\ Len(p) \in 1 .. MaxPayload /\ p # <<>>
<1> SUFFICES ASSUME NEW m \in 1 .. MaxPayload, NEW p \in [1 .. m -> Bytes]
      PROVE  p \in Seq(Bytes) /\ Len(p) \in 1 .. MaxPayload /\ p # <<>>
  BY DEF Payloads
<1>1. m \in Nat /\ m >= 1
  OBVIOUS
<1>2. p \in Seq(Bytes) /\ Len(p) = m
  BY <1>1, SeqDef, LenProperties
<1> QED  BY <1>1, <1>2, EmptySeq

LEMMA ByteTaken ==
  ASSUME WireInv, wire # <<>>, NEW b \in Bytes, NextByte(b, wire, rx, altered, altered'),
         altered' \in BOOLEAN, rx' = Fed(rx, b), wire' = Tail(wire),
         payload' = payload, clean' = clean
  PROVE  WireInv'
<1>1. wire' \in Seq(Bytes)
  BY HeadTailProperties DEF WireInv, WireTypes
<1>2. rx' \in Decoders
  BY FedDecodes DEF WireInv, WireTypes
<1>3. payload # <<>>
  BY DEF WireInv, WireTypes
<1>4. WireTypes'
  BY <1>1, <1>2, <1>3 DEF WireInv, WireTypes
<1>5. ASSUME clean, Tail(wire) # <<>> PROVE Course(Fed(rx, b), Tail(wire), altered', payload)
  <2>1. Course(rx, wire, altered, payload)
    BY <1>5 DEF WireInv
  <2> QED  BY <1>3, <1>5, <2>1, CourseGoesOn DEF WireInv, WireTypes
<1> QED  BY <1>4, <1>5 DEF WireInv

LEMMA WireStep == WireInv /\ [Next]_vars => WireInv'
<1> SUFFICES ASSUME WireInv, [Next]_vars PROVE WireInv'
  OBVIOUS
<1>1. Esc \in Bytes /\ Sof \in Bytes /\ Eof \in Bytes
  BY DEF Controls
<1>2. ASSUME wire' = <<>>, rx' \in Decoders, clean' \in BOOLEAN, altered' \in BOOLEAN,
             payload' = payload \/ payload' = <<>>
      PROVE  WireInv'
  <2>1. wire' \in Seq(Bytes)
    BY <1>2, EmptySeq
  <2>2. payload' = <<>> \/ (payload' \in Seq(Bytes) /\ Len(payload') \in 1 .. MaxPayload)
    BY <1>2 DEF WireInv, WireTypes
  <2> QED  BY <1>2, <2>1, <2>2, Zenon DEF WireInv, WireTypes
<1>3. CASE \E b \in Bytes : Noise(b)
  <2>1. PICK b \in Bytes : Noise(b)
    BY <1>3
  <2>2. wire' = <<>> /\ rx' = Fed(rx, b) /\ UNCHANGED <<payload, clean, altered>>
    BY <2>1 DEF Noise, Isr, Quiet, WireInv, WireTypes
  <2>3. rx' \in Decoders
    BY <2>2, FedDecodes DEF WireInv, WireTypes
  <2> QED  BY <1>2, <2>2, <2>3 DEF WireInv, WireTypes
<1>4. CASE \E b \in Bytes : Alters(b)
  <2>1. PICK b \in Bytes : Alters(b)
    BY <1>4
  <2>2. /\ wire # <<>> /\ NextByte(b, wire, rx, altered, altered') /\ altered' \in BOOLEAN
        /\ rx' = Fed(rx, b) /\ wire' = Tail(wire) /\ payload' = payload /\ clean' = clean
    BY <2>1 DEF Alters, Isr, NextByte
  <2> QED  BY <2>2, ByteTaken
<1>5. CASE Byte
  <2>1. /\ wire # <<>> /\ rx' = Fed(rx, Head(wire)) /\ wire' = Tail(wire)
        /\ UNCHANGED <<payload, clean, altered>>
    BY <1>5 DEF Byte, Isr
  <2>2. Head(wire) \in Bytes /\ altered' \in BOOLEAN
    BY <2>1, HeadTailProperties DEF WireInv, WireTypes
  <2>3. NextByte(Head(wire), wire, rx, altered, altered')
    BY <2>1 DEF NextByte
  <2> QED  BY <2>1, <2>2, <2>3, ByteTaken
<1>6. CASE \E p \in Payloads : Send(p)
  <2>1. PICK p \in Payloads : Send(p)
    BY <1>6
  <2>2. p \in Seq(Bytes) /\ Len(p) \in 1 .. MaxPayload /\ p # <<>>
    BY PayloadsAre
  <2>3. /\ payload' = p /\ wire' = Encode(p) /\ clean' = ~rx.esc /\ altered' = FALSE
        /\ rx' = rx
    BY <2>1 DEF Send
  <2>4. /\ Encode(p) \in Seq(Bytes) /\ \E L : Laid(p, L)
    <3>1. Len(Framed(p)) = Len(p) + 1
      BY <2>2, FramedIs
    <3> QED  BY <2>2, <3>1, EncodeLaysOut DEF Laid
  <2>5. Rest(Encode(p), Encode(p), 0)
    <3>1. Len(Encode(p)) \in Nat
      BY <2>4, LenProperties
    <3> QED  BY <3>1 DEF Rest
  <2>6. ~rx.esc => Course(rx, Encode(p), FALSE, p)
    BY <2>4, <2>5 DEF Course, Begun
  <2>7. WireTypes'
    BY <2>2, <2>3, <2>4 DEF WireInv, WireTypes, Decoders
  <2> QED  BY <2>3, <2>6, <2>7 DEF WireInv
<1>7. CASE Burst
  <2>1. wire' = <<>> /\ rx' = Fed(Fed(rx, Sof), Sof) /\ UNCHANGED <<payload, clean, altered>>
    BY <1>7 DEF Burst, Quiet, WireInv, WireTypes
  <2>2. Fed(rx, Sof) \in Decoders
    BY <1>1, FedDecodes DEF WireInv, WireTypes
  <2>3. rx' \in Decoders
    BY <1>1, <2>1, <2>2, FedDecodes
  <2> QED  BY <1>2, <2>1, <2>3 DEF WireInv, WireTypes
<1>8. CASE Ends \/ Reinit
  <2>1. Reset \in Decoders
    BY EmptySeq DEF Reset, Decoders
  <2> QED  BY <1>2, <1>8, <2>1 DEF Ends, Reinit, Silent, WireInv, WireTypes
<1>9. CASE Poll \/ UNCHANGED vars
  BY <1>9 DEF Poll, vars, WireInv, WireTypes
<1> QED  BY <1>3, <1>4, <1>5, <1>6, <1>7, <1>8, <1>9 DEF Next

LEMMA WireInit == Init => WireInv
<1> SUFFICES ASSUME Init PROVE WireInv
  OBVIOUS
<1>1. rx \in Decoders
  BY EmptySeq DEF Init, Reset, Decoders
<1>2. wire \in Seq(Bytes)
  BY EmptySeq DEF Init
<1> QED  BY <1>1, <1>2 DEF Init, WireInv, WireTypes

LEMMA WireFinds ==
  ASSUME WireInv, LastByte
  PROVE  Found(rx, Head(wire)) =
           IF ~altered /\ Len(payload) < MaxPayload THEN payload ELSE <<>>
<1>0. wire # <<>>
  <2>1. wire \in Seq(Bytes) /\ Len(wire) = 1
    BY DEF LastByte, WireInv, WireTypes
  <2> QED  BY <2>1
<1>1. wire # <<>> /\ payload # <<>>
  BY <1>0 DEF WireInv, WireTypes
<1>2. Course(rx, wire, altered, payload)
  BY <1>1 DEF LastByte, WireInv
<1> QED  BY <1>1, <1>2, LastFound DEF LastByte, WireInv, WireTypes

(* A frame that meets no fault is found at its last byte, byte for byte,   *)
(* if its payload has fewer than MaxPayload bytes, and one of MaxPayload   *)
(* never is, whatever came before it that left no escape: what             *)
(* zbx_encode() writes zbx_rx_byte() reads.                                *)
THEOREM FramesComeThrough == Spec => []RoundTrip
<1>1. WireInv => RoundTrip
  BY WireFinds DEF RoundTrip
<1> QED  BY <1>1, WireInit, WireStep, PTL DEF Spec

(* An ordinary byte that became another one spoils the sum, wherever in    *)
(* the frame it is (the checksum of zbx.c).                                *)
THEOREM AlteredIsRejected == Spec => []AlteredRejected
<1>1. WireInv => AlteredRejected
  BY WireFinds DEF AlteredRejected
<1> QED  BY <1>1, WireInit, WireStep, PTL DEF Spec
-----------------------------------------------------------------------------
(* The ring of decoded frames. *)

(* The frame handed out last lies in the slot before the oldest one.       *)
FramesInv ==
  /\ head \in 0 .. Slots - 1 /\ tail \in 0 .. Slots - 1
  /\ held = Slots \/ After(held) = tail
  /\ kept = TRUE

LEMMA AfterSlot ==
  ASSUME NEW i \in 0 .. Slots - 1
  PROVE  After(i) \in 0 .. Slots - 1
BY DEF After

LEMMA FramesStep == FramesInv /\ [Next]_vars => FramesInv'
<1> SUFFICES ASSUME FramesInv, [Next]_vars PROVE FramesInv'
  OBVIOUS
<1> USE DEF FramesInv, queue
<1>1. CASE UNCHANGED queue
  BY <1>1
<1>2. CASE Stored
  <2>1. CASE UNCHANGED queue
    BY <1>1, <2>1
  <2>2. CASE /\ ~Full
             /\ head' = After(head) /\ kept' = (kept /\ head # held)
             /\ tail' = tail /\ held' = held
    <3>1. head # held
      BY <2>2 DEF Full
    <3>2. head' \in 0 .. Slots - 1
      BY <2>2, AfterSlot
    <3> QED  BY <2>2, <3>1, <3>2 DEF After
  <2> QED  BY <1>2, <2>1, <2>2 DEF Stored
<1>3. CASE Poll
  <2>1. tail' \in 0 .. Slots - 1
    BY <1>3, AfterSlot DEF Poll
  <2> QED  BY <1>3, <2>1 DEF Poll, After
<1>4. ASSUME NEW b, Isr(b) PROVE FramesInv'
  BY <1>1, <1>2, <1>4 DEF Isr
<1>5. CASE Byte \/ \E b \in Bytes : Noise(b) \/ Alters(b)
  BY <1>4, <1>5 DEF Byte, Noise, Alters
<1>6. CASE Burst \/ Ends \/ Reinit \/ \E p \in Payloads : Send(p)
  BY <1>1, <1>6 DEF Burst, Ends, Reinit, Send
<1>7. CASE UNCHANGED vars
  BY <1>1, <1>7 DEF vars
<1> QED  BY <1>3, <1>5, <1>6, <1>7 DEF Next

(* The frame a caller of zbx_poll() holds is not written to before its     *)
(* next call, for a ring of two slots or more (the ring of zbx.c).         *)
THEOREM TheHeldFrameIsKept == Spec => []HeldFrameKept
<1>1. Init => FramesInv
  BY DEF Init, FramesInv
<1>2. FramesInv => HeldFrameKept
  BY DEF FramesInv, HeldFrameKept
<1> QED  BY <1>1, <1>2, FramesStep, PTL DEF Spec
-----------------------------------------------------------------------------
(* The thread. *)

(* The queue holds presses in their order, all later than the latest one   *)
(* the coordinator got.                                                    *)
KeysInv ==
  /\ pressed \in Nat /\ key_q \in Seq(Nat) /\ delivered.key \in Nat
  /\ delivered.key <= pressed
  /\ \A i \in 1 .. Len(key_q) : delivered.key < key_q[i] /\ key_q[i] <= pressed
  /\ \A i, j \in 1 .. Len(key_q) : i < j => key_q[i] < key_q[j]

LEMMA PressKeys == KeysInv /\ Press => KeysInv'
<1> SUFFICES ASSUME KeysInv, Press PROVE KeysInv'
  OBVIOUS
<1> USE DEF KeysInv
<1>1. pressed' = pressed + 1 /\ delivered' = delivered /\ pressed' \in Nat
  BY DEF Press, radio
<1>2. CASE key_q' = key_q
  BY <1>1, <1>2
<1>3. CASE key_q' = Append(key_q, pressed')
  <2>1. /\ key_q' \in Seq(Nat) /\ Len(key_q') = Len(key_q) + 1
        /\ \A i \in 1 .. Len(key_q) : key_q'[i] = key_q[i]
        /\ key_q'[Len(key_q) + 1] = pressed'
    BY <1>1, <1>3, AppendProperties
  <2>2. \A i \in 1 .. Len(key_q') : i \in 1 .. Len(key_q) \/ i = Len(key_q) + 1
    BY <2>1
  <2>3. \A i \in 1 .. Len(key_q) : key_q[i] \in Nat
    OBVIOUS
  <2>4. \A i \in 1 .. Len(key_q) : /\ delivered.key < key_q'[i] /\ key_q'[i] <= pressed
                                  /\ key_q'[i] \in Nat
    BY <2>1, <2>3
  <2>5. \A i \in 1 .. Len(key_q') : delivered'.key < key_q'[i] /\ key_q'[i] <= pressed'
    <3> SUFFICES ASSUME NEW i \in 1 .. Len(key_q')
          PROVE  delivered.key < key_q'[i] /\ key_q'[i] <= pressed'
      BY <1>1
    <3>1. CASE i \in 1 .. Len(key_q)
      BY <1>1, <2>4, <3>1
    <3>2. CASE i = Len(key_q) + 1
      BY <1>1, <2>1, <3>2
    <3> QED  BY <2>2, <3>1, <3>2
  <2>6. \A i, j \in 1 .. Len(key_q') : i < j => key_q'[i] < key_q'[j]
    <3> SUFFICES ASSUME NEW i \in 1 .. Len(key_q'), NEW j \in 1 .. Len(key_q'), i < j
          PROVE  key_q'[i] < key_q'[j]
      OBVIOUS
    <3>1. i \in 1 .. Len(key_q)
      BY <2>1
    <3>2. CASE j \in 1 .. Len(key_q)
      BY <2>1, <3>1, <3>2
    <3>3. CASE j = Len(key_q) + 1
      BY <1>1, <2>1, <2>4, <3>1, <3>3
    <3> QED  BY <2>2, <3>2, <3>3
  <2> QED  BY <1>1, <2>1, <2>5, <2>6
<1> QED  BY <1>2, <1>3 DEF Press

LEMMA UnicastKeys ==
  ASSUME KeysInv, Unicast
  PROVE  KeysInv' /\ (delivered' # delivered => delivered'.key > delivered.key)
<1> USE DEF KeysInv
<1>1. /\ pressed' = pressed
      /\ key_q' = IF key_q = <<>> THEN key_q ELSE Tail(key_q)
      /\ \/ delivered' = delivered
         \/ key_q # <<>> /\ delivered'.key = Head(key_q)
  BY DEF Unicast, Popped
<1>2. CASE key_q = <<>>
  BY <1>1, <1>2
<1>3. CASE key_q # <<>>
  <2>1. /\ Tail(key_q) \in Seq(Nat) /\ Len(Tail(key_q)) = Len(key_q) - 1
        /\ \A i \in 1 .. Len(Tail(key_q)) : Tail(key_q)[i] = key_q[i + 1]
        /\ Head(key_q) = key_q[1] /\ Len(key_q) \in Nat \ {0}
    BY <1>3, HeadTailProperties, EmptySeq
  <2>2. \A i \in 1 .. Len(key_q) : key_q[i] \in Nat
    OBVIOUS
  <2>3. \A i \in 1 .. Len(key_q') : /\ i + 1 \in 1 .. Len(key_q) /\ 1 < i + 1
                                   /\ key_q'[i] = key_q[i + 1]
    BY <1>1, <1>3, <2>1
  <2>4. 1 \in 1 .. Len(key_q)
    BY <2>1
  <2>5. \A i \in 1 .. Len(key_q') : key_q[1] < key_q'[i] /\ key_q'[i] <= pressed
    BY <2>3, <2>4
  <2>6. \A i, j \in 1 .. Len(key_q') : i < j => key_q'[i] < key_q'[j]
    <3> SUFFICES ASSUME NEW i \in 1 .. Len(key_q'), NEW j \in 1 .. Len(key_q'), i < j
          PROVE  key_q'[i] < key_q'[j]
      OBVIOUS
    <3>1. i + 1 < j + 1
      BY <1>1, <1>3, <2>1
    <3> QED  BY <2>3, <3>1
  <2>7. /\ delivered.key < key_q[1] /\ key_q[1] <= pressed /\ key_q[1] \in Nat
    BY <2>2, <2>4
  <2>8. /\ delivered'.key \in {delivered.key, key_q[1]}
        /\ delivered' # delivered => delivered'.key > delivered.key
    BY <1>1, <2>1, <2>7
  <2>9. key_q' \in Seq(Nat)
    BY <1>1, <1>3, <2>1
  <2>10. \A i \in 1 .. Len(key_q') : delivered'.key < key_q'[i] /\ key_q'[i] <= pressed'
    <3>1. \A i \in 1 .. Len(key_q') : key_q'[i] \in Nat
      BY <2>9
    <3> QED  BY <1>1, <2>5, <2>7, <2>8, <3>1
  <2> QED  BY <1>1, <2>6, <2>7, <2>8, <2>9, <2>10
<1> QED  BY <1>2, <1>3

LEMMA KeysStep ==
  ASSUME KeysInv, [NetNext]_netVars
  PROVE  KeysInv' /\ (delivered' # delivered => delivered'.key > delivered.key)
<1>1. CASE UNCHANGED <<pressed, key_q, delivered>>
  BY <1>1 DEF KeysInv
<1>2. CASE Press
  BY <1>2, PressKeys DEF Press, radio
<1>3. CASE Reforms \/ Drops \/ UNCHANGED netVars
  BY <1>1, <1>3 DEF Reforms, Drops, netVars, radio
<1>4. CASE Ask \/ SetUp \/ Admitted \/ Refused
  BY <1>1, <1>4 DEF Ask, SetUp, Admitted, Refused
<1>5. CASE Unicast
  BY <1>5, UnicastKeys
<1> QED  BY <1>2, <1>3, <1>4, <1>5 DEF NetNext, Thread

(* The coordinator gets no key twice and none out of order, however many   *)
(* are pressed and whatever is lost, late or rejoined (key_q of zbnet.c).  *)
THEOREM KeysComeOnceInOrder == NetSpec => KeysOnceInOrder
<1>1. NetInit => KeysInv
  BY EmptySeq DEF NetInit, KeysInv
<1>2. KeysInv /\ [NetNext]_netVars =>
        KeysInv' /\ [delivered' # delivered => delivered'.key > delivered.key]_netVars
  BY KeysStep
<1> QED  BY <1>1, <1>2, PTL DEF NetSpec, KeysOnceInOrder
-----------------------------------------------------------------------------
(* With a radio that answers in time the walk has heard that the radio is  *)
(* on no network, and nobody but its own AT+JN puts it on one.             *)
WalkInv ==
  /\ step \in 0 .. 9
  /\ ~poor => late = {} /\ (step \in 2 .. 9 => net = "none")

LEMMA WalkIs == Len(Walk) = 9
BY DEF Walk

(* What a radio that answers in time is heard to say. *)
LEMMA ReadsTimely ==
  ASSUME ~poor, late = {}, NEW answer, NEW reply, Reads(answer, reply)
  PROVE  reply = answer /\ late' = {}
BY DEF Reads

LEMMA WalkStep == WalkInv /\ [NetNext]_netVars => WalkInv'
<1> SUFFICES ASSUME WalkInv, [NetNext]_netVars PROVE WalkInv'
  OBVIOUS
<1> USE DEF WalkInv, Joined, GoesOn
<1>1. CASE Press \/ UNCHANGED netVars
  BY <1>1 DEF Press, netVars, thread, radio
<1>2. CASE Reforms \/ Drops
  BY <1>2 DEF Reforms, Drops, thread
<1>3. CASE Ask
  <2>1. step' \in {0, 2} /\ UNCHANGED <<poor, net>>
    BY <1>3 DEF Ask
  <2>2. ASSUME ~poor PROVE late' = {} /\ (step' = 2 => net = "none")
    <3>1. PICK answer, reply :
            /\ answer = IF net = "none" THEN {"NoPAN"} ELSE {"PAN"}
            /\ Reads(answer, reply)
            /\ IF OnNetwork(reply) THEN step' = 0 ELSE step' = 2
      BY <1>3, <2>2 DEF Ask, Heard
    <3>2. reply = answer /\ late' = {}
      BY <2>2, <3>1, ReadsTimely
    <3> QED  BY <3>1, <3>2 DEF OnNetwork
  <2> QED  BY <2>1, <2>2
<1>4. CASE SetUp
  <2>1. step \in 2 .. 8 /\ step' = step + 1 /\ poor' = poor /\ net' \in {net, "none"}
    BY <1>4, WalkIs DEF SetUp
  <2>2. PICK reply : Reads({}, reply)
    BY <1>4 DEF SetUp
  <2>3. ~poor => late' = {}
    BY <2>2, ReadsTimely
  <2> QED  BY <2>1, <2>3
<1>5. CASE Admitted
  <2>1. PICK reply : /\ Reads({"JPAN"}, reply)
                     /\ IF "JPAN" \in reply THEN step' = 0 ELSE step' = 1
    BY <1>5 DEF Admitted, JoinAnswered
  <2>2. ~poor => late' = {}
    BY <2>1, ReadsTimely
  <2> QED  BY <1>5, <2>1, <2>2 DEF Admitted
<1>6. CASE Refused
  <2>1. PICK reply : /\ Reads({}, reply)
                     /\ IF "JPAN" \in reply THEN step' = 0 ELSE step' = 1
    BY <1>6 DEF Refused, JoinAnswered
  <2>2. ~poor => late' = {}
    BY <2>1, ReadsTimely
  <2>3. step' \in {0, 1} /\ UNCHANGED <<poor, net>>
    BY <1>6, <2>1 DEF Refused
  <2> QED  BY <2>2, <2>3
<1>7. CASE Unicast
  <2>1. PICK answer, reply, ok : Reads(answer, reply) /\ AfterUnicast(ok)
    BY <1>7 DEF Unicast
  <2>2. step' \in {0, 1} /\ UNCHANGED <<poor, net>>
    BY <1>7, <2>1 DEF Unicast, AfterUnicast
  <2>3. ~poor => late' = {}
    BY <2>1, ReadsTimely
  <2> QED  BY <2>2, <2>3
<1> QED
  BY <1>1, <1>2, <1>3, <1>4, <1>5, <1>6, <1>7 DEF NetNext, Thread

(* The set-up that would drop a joined radio off the mesh is sent to one   *)
(* that is on no network (ATS0A in join_once()).                           *)
THEOREM SetupIsHarmless == NetSpec => SetupOnlyWhenOff
<1>1. NetInit => WalkInv
  BY DEF NetInit, WalkInv
<1>2. WalkInv /\ [NetNext]_netVars => WalkInv'
  BY WalkStep
<1>3. WalkInv => [~poor /\ step = 5 /\ step' # 5 => net = "none"]_netVars
  BY DEF WalkInv
<1> QED  BY <1>1, <1>2, <1>3, PTL DEF NetSpec, SetupOnlyWhenOff
=============================================================================
