--------------------------- MODULE VirtQueue_proofs ---------------------------
(***************************************************************************)
(* Theorems about VirtQueue, for every size of the vring and of its        *)
(* indexes (Num divides IdxSize, Num < IdxSize).                           *)
(*                                                                         *)
(* RingsInv: host, M3 and the two rings share out the buffers, each buffer *)
(* in one place and once, and an entry under way is one its writer owns.   *)
(* A ring is full only when the other side owns nothing, which is why the  *)
(* indexes cannot overrun, and why each access is a step of BufferRing.    *)
(***************************************************************************)
EXTENDS VirtQueue, FiniteSets, FiniteSetTheorems, SequenceTheorems, TLAPS

-------------------------------------------------------------------------------
(* Arithmetic of the indexes.                                              *)

\* An index wraps once.
LEMMA Wrap ==
  /\ \A x \in 0 .. IdxSize - 1 : x % IdxSize = x
  /\ \A x \in IdxSize .. 2 * IdxSize - 1 : x % IdxSize = x - IdxSize
  /\ \A x \in -IdxSize .. -1 : x % IdxSize = x + IdxSize
<1>1. IdxSize \in Nat /\ IdxSize > 0
  BY NumAssumption
<1> QED BY <1>1, Z3

LEMMA IndexTypes ==
  ASSUME NEW i \in Index, NEW j \in Index
  PROVE  /\ Incr(i) \in Index /\ Dist(i, j) \in Index /\ Slot(i) \in Slots
         /\ Incr(i) = IF i = IdxSize - 1 THEN 0 ELSE i + 1
         /\ Dist(i, j) = IF i <= j THEN j - i ELSE j - i + IdxSize
<1>1. IdxSize \in Nat /\ IdxSize > 0 /\ Num \in Nat /\ Num > 0
  BY NumAssumption
<1>2. Incr(i) = IF i = IdxSize - 1 THEN 0 ELSE i + 1
  BY <1>1, Wrap DEF Incr, Index
<1>3. Dist(i, j) = IF i <= j THEN j - i ELSE j - i + IdxSize
  BY <1>1, Wrap DEF Dist, Index
<1>4. Slot(i) \in Slots
  BY <1>1 DEF Slot, Slots, Index
<1> QED BY <1>1, <1>2, <1>3, <1>4 DEF Index

LEMMA Quotient ==
  ASSUME NEW n \in Nat, n > 0, NEW x \in Nat
  PROVE  /\ x % n \in 0 .. n - 1
         /\ \E k \in Nat : n * k \in Nat /\ x = n * k + (x % n)
<1>1. x % n \in 0 .. n - 1
  BY Z3
<1>2. PICK k \in Nat : x - (x % n) = n * k
  BY Z3
<1>3. n * k \in Nat
  BY Z3
<1>4. x = n * k + (x % n)
  BY <1>1, <1>2, <1>3
<1> QED BY <1>1, <1>3, <1>4

\* Indexes less than Num apart have different slots, across the wrap too.
LEMMA SlotsDiffer ==
  ASSUME NEW i \in Index, NEW j \in Index, i # j, Dist(i, j) < Num
  PROVE  Slot(i) # Slot(j)
<1>1. IdxSize \in Nat /\ IdxSize > 0 /\ Num \in Nat /\ Num > 0 /\ i \in Nat /\ j \in Nat
  BY NumAssumption DEF Index
<1>2. PICK q \in Nat : IdxSize = Num * q
  <2>1. PICK q \in Nat : Num * q \in Nat /\ IdxSize = Num * q + (IdxSize % Num)
    BY <1>1, Quotient
  <2> QED BY <1>1, <2>1, NumAssumption
<1>3. \A x \in Nat : \E a \in Nat : Num * a \in Nat /\ x = Num * a + Slot(x)
  BY <1>1, Quotient DEF Slot
<1>31. PICK a \in Nat : Num * a \in Nat /\ i = Num * a + Slot(i)
  BY <1>1, <1>3
<1>32. PICK b \in Nat : Num * b \in Nat /\ j = Num * b + Slot(j)
  BY <1>1, <1>3
<1>4. ASSUME NEW d \in Int, Num * d > 0, Num * d < Num PROVE FALSE
  <2>1. CASE d <= 0
    <3>1. Num * d <= 0
      BY <1>1, <2>1, Z3
    <3> QED BY <1>1, <1>4, <3>1
  <2>2. CASE d >= 1
    <3>1. Num * d >= Num
      BY <1>1, <2>2, Z3
    <3> QED BY <1>1, <1>4, <3>1
  <2> QED BY <2>1, <2>2
<1>5. SUFFICES ASSUME Slot(i) = Slot(j) PROVE FALSE
  OBVIOUS
<1>6. Dist(i, j) = IF i <= j THEN j - i ELSE j - i + IdxSize
  BY IndexTypes
<1>9. i < IdxSize /\ j < IdxSize /\ Dist(i, j) \in Int /\ Dist(i, j) > 0
  BY <1>1, <1>6 DEF Index
<1>10. Slot(i) \in Int
  BY IndexTypes DEF Slots
<1>7. CASE i <= j
  <2>1. Dist(i, j) = Num * (b - a)
    BY <1>1, <1>31, <1>32, <1>5, <1>6, <1>10, <1>7, Z3
  <2> QED BY <1>4, <1>9, <2>1
<1>8. CASE ~(i <= j)
  <2>1. Dist(i, j) = Num * (b - a + q)
    BY <1>1, <1>2, <1>31, <1>32, <1>5, <1>6, <1>10, <1>8, Z3
  <2> QED BY <1>4, <1>9, <2>1
<1> QED BY <1>7, <1>8

-------------------------------------------------------------------------------
(* The entries between two indexes, as a sequence.                         *)
Pos(i, k)          == (i + k - 1) % IdxSize
RingSeq(ring, i, j) == [k \in 1 .. Dist(i, j) |-> ring[Slot((i + k - 1) % IdxSize)]]

LEMMA PosValue ==
  ASSUME NEW i \in Index, NEW k \in 1 .. IdxSize
  PROVE  /\ Pos(i, k) \in Index
         /\ Pos(i, k) = IF i + k - 1 < IdxSize THEN i + k - 1 ELSE i + k - 1 - IdxSize
<1>1. IdxSize \in Nat /\ IdxSize > 0
  BY NumAssumption
<1>2. Pos(i, k) = IF i + k - 1 < IdxSize THEN i + k - 1 ELSE i + k - 1 - IdxSize
  BY <1>1, Wrap DEF Pos, Index
<1> QED BY <1>1, <1>2 DEF Index

LEMMA PosFacts ==
  ASSUME NEW i \in Index, NEW j \in Index
  PROVE  /\ Dist(i, j) \in 0 .. IdxSize - 1
         /\ i # j => Dist(i, j) >= 1
         /\ Pos(i, 1) = i /\ Pos(i, Dist(i, j) + 1) = j
         /\ \A k \in 1 .. Dist(i, j) :
              Pos(i, k) \in Index /\ Pos(i, k) # j /\ Dist(Pos(i, k), j) = Dist(i, j) - k + 1
         /\ i # j => /\ Dist(Incr(i), j) = Dist(i, j) - 1
                     /\ \A k \in 1 .. Dist(i, j) - 1 : Pos(Incr(i), k) = Pos(i, k + 1)
<1>1. IdxSize \in Nat /\ IdxSize > 0 /\ i \in 0 .. IdxSize - 1 /\ j \in 0 .. IdxSize - 1
  BY NumAssumption DEF Index
<1>2. Dist(i, j) = IF i <= j THEN j - i ELSE j - i + IdxSize
  BY IndexTypes
<1>3. \A k \in 1 .. IdxSize : /\ Pos(i, k) \in Index
        /\ Pos(i, k) = IF i + k - 1 < IdxSize THEN i + k - 1 ELSE i + k - 1 - IdxSize
  BY PosValue
<1>4. /\ Dist(i, j) \in 0 .. IdxSize - 1
      /\ i # j => Dist(i, j) >= 1
      /\ Pos(i, 1) = i /\ Pos(i, Dist(i, j) + 1) = j
  BY <1>1, <1>2, <1>3
<1>5. ASSUME NEW k \in 1 .. Dist(i, j)
      PROVE  Pos(i, k) \in Index /\ Pos(i, k) # j /\ Dist(Pos(i, k), j) = Dist(i, j) - k + 1
  <2>1. Pos(i, k) \in Index
        /\ Pos(i, k) = IF i + k - 1 < IdxSize THEN i + k - 1 ELSE i + k - 1 - IdxSize
    BY <1>1, <1>3, <1>4
  <2>2. Dist(Pos(i, k), j) = IF Pos(i, k) <= j THEN j - Pos(i, k)
                             ELSE j - Pos(i, k) + IdxSize
    BY <2>1, IndexTypes
  <2> QED BY <1>1, <1>2, <1>4, <2>1, <2>2
<1>6. ASSUME i # j
      PROVE  /\ Dist(Incr(i), j) = Dist(i, j) - 1
             /\ \A k \in 1 .. Dist(i, j) - 1 : Pos(Incr(i), k) = Pos(i, k + 1)
  <2>1. Incr(i) \in Index /\ Incr(i) = IF i = IdxSize - 1 THEN 0 ELSE i + 1
    BY IndexTypes
  <2>2. Dist(Incr(i), j) = IF Incr(i) <= j THEN j - Incr(i) ELSE j - Incr(i) + IdxSize
    BY <2>1, IndexTypes
  <2>3. ASSUME NEW k \in 1 .. Dist(i, j) - 1 PROVE Pos(Incr(i), k) = Pos(i, k + 1)
    <3>1. k \in 1 .. IdxSize /\ k + 1 \in 1 .. IdxSize
      BY <1>1, <1>4
    <3>2. Pos(Incr(i), k) = IF Incr(i) + k - 1 < IdxSize THEN Incr(i) + k - 1
                            ELSE Incr(i) + k - 1 - IdxSize
      BY <2>1, <3>1, PosValue
    <3> QED BY <1>1, <1>3, <2>1, <3>1, <3>2
  <2> QED BY <1>1, <1>2, <1>6, <2>1, <2>2, <2>3
<1> QED BY <1>4, <1>5, <1>6

LEMMA SeqType ==
  ASSUME NEW ring \in [Slots -> Bufs], NEW i \in Index, NEW j \in Index
  PROVE  /\ RingSeq(ring, i, j) \in Seq(Bufs) /\ Len(RingSeq(ring, i, j)) = Dist(i, j)
         /\ Dist(i, j) \in Nat
<1>1. Dist(i, j) \in Nat
  BY PosFacts
<1>2. \A k \in 1 .. Dist(i, j) : ring[Slot((i + k - 1) % IdxSize)] \in Bufs
  BY PosFacts, IndexTypes DEF Pos
<1> QED BY <1>1, <1>2 DEF RingSeq

\* A slot written before it is published is none of those the ring has in use.
LEMMA SeqWrite ==
  ASSUME NEW ring \in [Slots -> Bufs], NEW i \in Index, NEW j \in Index, NEW b \in Bufs,
         Dist(i, j) < Num
  PROVE  /\ RingSeq([ring EXCEPT ![Slot(j)] = b], i, j) = RingSeq(ring, i, j)
         /\ [ring EXCEPT ![Slot(j)] = b][Slot(j)] = b
<1>1. Slot(j) \in Slots
  BY IndexTypes
<1>2. ASSUME NEW k \in 1 .. Dist(i, j)
      PROVE  Slot(Pos(i, k)) # Slot(j) /\ Slot(Pos(i, k)) \in Slots
  <2>1. /\ Pos(i, k) \in Index /\ Pos(i, k) # j
        /\ Dist(Pos(i, k), j) = Dist(i, j) - k + 1 /\ Dist(i, j) \in Int
    BY PosFacts
  <2>2. Dist(Pos(i, k), j) < Num
    BY <2>1, NumAssumption
  <2> QED BY <2>1, <2>2, SlotsDiffer, IndexTypes
<1> QED BY <1>1, <1>2 DEF RingSeq, Pos

\* Publishing the slot appends its entry.
LEMMA SeqPublish ==
  ASSUME NEW ring \in [Slots -> Bufs], NEW i \in Index, NEW j \in Index, Dist(i, j) < Num
  PROVE  RingSeq(ring, i, Incr(j)) = Append(RingSeq(ring, i, j), ring[Slot(j)])
<1>1. Dist(i, Incr(j)) = Dist(i, j) + 1
  <2>1. Incr(j) \in Index /\ Incr(j) = IF j = IdxSize - 1 THEN 0 ELSE j + 1
    BY IndexTypes
  <2>2. Dist(i, Incr(j)) = IF i <= Incr(j) THEN Incr(j) - i ELSE Incr(j) - i + IdxSize
    BY <2>1, IndexTypes
  <2>3. Dist(i, j) = IF i <= j THEN j - i ELSE j - i + IdxSize
    BY IndexTypes
  <2> QED BY <2>1, <2>2, <2>3, NumAssumption DEF Index
<1>2. Pos(i, Dist(i, j) + 1) = j /\ Dist(i, j) \in Nat
  BY PosFacts
<1>3. RingSeq(ring, i, j) \in Seq(Bufs) /\ Len(RingSeq(ring, i, j)) = Dist(i, j)
  BY SeqType
<1>4. \A k \in 1 .. Dist(i, j) + 1 :
        ring[Slot((i + k - 1) % IdxSize)] = Append(RingSeq(ring, i, j), ring[Slot(j)])[k]
  BY <1>2, <1>3 DEF RingSeq, Pos
<1> QED BY <1>1, <1>2, <1>3, <1>4 DEF RingSeq

\* Stepping the reader's index drops the first entry.
LEMMA SeqTake ==
  ASSUME NEW ring \in [Slots -> Bufs], NEW i \in Index, NEW j \in Index, i # j
  PROVE  /\ RingSeq(ring, i, j) # <<>>
         /\ Head(RingSeq(ring, i, j)) = ring[Slot(i)]
         /\ RingSeq(ring, Incr(i), j) = Tail(RingSeq(ring, i, j))
<1>1. /\ Dist(i, j) \in Nat /\ Dist(i, j) >= 1 /\ Pos(i, 1) = i
      /\ Dist(Incr(i), j) = Dist(i, j) - 1
      /\ \A k \in 1 .. Dist(i, j) - 1 : Pos(Incr(i), k) = Pos(i, k + 1)
  BY PosFacts
<1>2. RingSeq(ring, i, j) \in Seq(Bufs) /\ Len(RingSeq(ring, i, j)) = Dist(i, j)
  BY SeqType
<1>3. RingSeq(ring, i, j)[1] = ring[Slot(i)]
  BY <1>1 DEF RingSeq, Pos
<1>4. \A k \in 1 .. Dist(i, j) - 1 :
        ring[Slot((Incr(i) + k - 1) % IdxSize)] = RingSeq(ring, i, j)[k + 1]
  BY <1>1 DEF RingSeq, Pos
<1>5. RingSeq(ring, i, j) # <<>>
  BY <1>1, <1>2
<1>6. RingSeq(ring, Incr(i), j) = Tail(RingSeq(ring, i, j))
  <2>1. /\ Tail(RingSeq(ring, i, j)) \in Seq(Bufs)
        /\ Len(Tail(RingSeq(ring, i, j))) = Dist(i, j) - 1
        /\ \A k \in 1 .. Dist(i, j) - 1 :
             Tail(RingSeq(ring, i, j))[k] = RingSeq(ring, i, j)[k + 1]
    BY <1>1, <1>2, <1>5, HeadTailProperties
  <2>2. /\ RingSeq(ring, Incr(i), j) \in Seq(Bufs)
        /\ Len(RingSeq(ring, Incr(i), j)) = Dist(i, j) - 1
    BY <1>1, SeqType, IndexTypes
  <2>3. \A k \in 1 .. Dist(i, j) - 1 :
          RingSeq(ring, Incr(i), j)[k] = RingSeq(ring, i, j)[k + 1]
    BY <1>1, <1>4 DEF RingSeq
  <2> QED BY <2>1, <2>2, <2>3, SeqEqual
<1> QED BY <1>2, <1>3, <1>5, <1>6

-------------------------------------------------------------------------------
(* Sequences of different buffers.                                         *)
Elems(s)    == {s[k] : k \in DOMAIN s}
Distinct(s) == \A k, l \in DOMAIN s : s[k] = s[l] => k = l

LEMMA DistinctBound ==
  ASSUME NEW s \in Seq(Bufs), Distinct(s)
  PROVE  /\ Len(s) <= Num
         /\ \A b \in Bufs \ Elems(s) : Len(s) < Num
<1>1. /\ Len(s) \in Nat /\ DOMAIN s = 1 .. Len(s)
      /\ IsFiniteSet(1 .. Len(s)) /\ Cardinality(1 .. Len(s)) = Len(s)
  <2>1. Len(s) \in Nat /\ DOMAIN s = 1 .. Len(s)
    OBVIOUS
  <2> QED BY <2>1, FS_Interval
<1>2. IsFiniteSet(Bufs) /\ Cardinality(Bufs) = Num
  BY FS_Interval, NumAssumption DEF Bufs
<1>3. IsFiniteSet(Elems(s)) /\ Elems(s) \subseteq Bufs
  BY <1>2, FS_Subset DEF Elems
<1>4. Cardinality(Elems(s)) = Len(s)
  <2> DEFINE f == [k \in 1 .. Len(s) |-> s[k]]
  <2>1. f \in Bijection(1 .. Len(s), Elems(s))
    BY <1>1 DEF Bijection, Injection, Surjection, IsInjective, Distinct, Elems
  <2> QED BY <1>1, <2>1, FS_Bijection DEF ExistsBijection
<1>5. Len(s) <= Num
  BY <1>2, <1>3, <1>4, FS_Subset
<1>6. ASSUME NEW b \in Bufs \ Elems(s) PROVE Len(s) < Num
  <2>1. Elems(s) # Bufs
    BY <1>6
  <2> QED BY <1>1, <1>2, <1>3, <1>4, <1>5, <2>1, FS_Subset, NumAssumption
<1> QED BY <1>5, <1>6

LEMMA AppendElems ==
  ASSUME NEW s \in Seq(Bufs), NEW b \in Bufs
  PROVE  /\ Elems(Append(s, b)) = Elems(s) \cup {b}
         /\ Distinct(s) /\ b \notin Elems(s) => Distinct(Append(s, b))
<1>1. /\ Append(s, b) \in Seq(Bufs) /\ Len(s) \in Nat /\ DOMAIN s = 1 .. Len(s)
      /\ DOMAIN Append(s, b) = 1 .. Len(s) + 1
      /\ \A k \in 1 .. Len(s) : Append(s, b)[k] = s[k]
      /\ Append(s, b)[Len(s) + 1] = b
  OBVIOUS
<1>2. Elems(Append(s, b)) = Elems(s) \cup {b}
  BY <1>1 DEF Elems
<1>3. ASSUME Distinct(s), b \notin Elems(s) PROVE Distinct(Append(s, b))
  BY <1>1, <1>3 DEF Elems, Distinct
<1> QED BY <1>2, <1>3

LEMMA TailElems ==
  ASSUME NEW s \in Seq(Bufs), s # <<>>, Distinct(s)
  PROVE  /\ Head(s) \in Elems(s) /\ Head(s) \in Bufs
         /\ Elems(Tail(s)) = Elems(s) \ {Head(s)}
         /\ Distinct(Tail(s))
<1>1. /\ Tail(s) \in Seq(Bufs) /\ Len(s) \in Nat /\ Len(s) >= 1 /\ DOMAIN s = 1 .. Len(s)
      /\ DOMAIN Tail(s) = 1 .. Len(s) - 1 /\ Head(s) = s[1]
      /\ \A k \in 1 .. Len(s) - 1 : Tail(s)[k] = s[k + 1]
  BY HeadTailProperties
<1>2. Head(s) \in Elems(s) /\ Head(s) \in Bufs
  BY <1>1 DEF Elems
<1>3. Elems(Tail(s)) = Elems(s) \ {Head(s)}
  <2>1. ASSUME NEW x \in Elems(Tail(s)) PROVE x \in Elems(s) \ {Head(s)}
    <3>1. PICK k \in 1 .. Len(s) - 1 : x = s[k + 1]
      BY <1>1, <2>1 DEF Elems
    <3> QED BY <1>1, <3>1 DEF Elems, Distinct
  <2>2. ASSUME NEW x \in Elems(s) \ {Head(s)} PROVE x \in Elems(Tail(s))
    <3>1. PICK k \in 1 .. Len(s) : x = s[k] /\ k # 1
      BY <1>1, <2>2 DEF Elems
    <3>2. k - 1 \in 1 .. Len(s) - 1 /\ Tail(s)[k - 1] = x
      BY <1>1, <3>1
    <3> QED BY <1>1, <3>2 DEF Elems
  <2> QED BY <2>1, <2>2
<1>4. Distinct(Tail(s))
  BY <1>1 DEF Distinct
<1> QED BY <1>2, <1>3, <1>4

-------------------------------------------------------------------------------
(* The invariant.                                                          *)

\* A buffer is in one place, and once.
Shared ==
  /\ Distinct(Offered) /\ Distinct(Returned)
  /\ hostOwn \cap held = {}
  /\ Elems(Offered) \cap (hostOwn \cup held) = {}
  /\ Elems(Returned) \cap (hostOwn \cup held) = {}
  /\ Elems(Offered) \cap Elems(Returned) = {}

\* An entry that is written and not yet published is its writer's; the M3 reads the
\* entry it has seen.
UnderWay ==
  /\ hostPc = "publish" => availRing[Slot(availIdx)] \in hostOwn
  /\ m3Pc = "put" => tok \in held /\ usedRing[Slot(usedIdx)] = tok
  /\ m3Pc = "grab" => lastAvail # availIdx

RingsInv == TypeOK /\ Shared /\ UnderWay

LEMMA AsSeqs ==
  /\ Offered = RingSeq(availRing, lastAvail, availIdx)
  /\ Returned = RingSeq(usedRing, lastUsed, usedIdx)
  /\ Offered' = RingSeq(availRing', lastAvail', availIdx')
  /\ Returned' = RingSeq(usedRing', lastUsed', usedIdx')
BY DEF Offered, Returned, RingSeq

LEMMA SeqsTyped ==
  ASSUME TypeOK
  PROVE  /\ Offered \in Seq(Bufs) /\ Len(Offered) = Dist(lastAvail, availIdx)
         /\ Returned \in Seq(Bufs) /\ Len(Returned) = Dist(lastUsed, usedIdx)
BY AsSeqs, SeqType DEF TypeOK

\* Who owns a buffer finds room for it: not all of them are in the ring.
LEMMA Room ==
  ASSUME TypeOK, Shared
  PROVE  /\ Dist(lastAvail, availIdx) <= Num /\ Dist(lastUsed, usedIdx) <= Num
         /\ hostOwn # {} => Dist(lastAvail, availIdx) < Num
         /\ held # {} => Dist(lastUsed, usedIdx) < Num
<1>1. hostOwn \subseteq Bufs /\ held \subseteq Bufs
  BY DEF TypeOK
<1> QED BY <1>1, SeqsTyped, DistinctBound DEF Shared

LEMMA SmallMod ==
  ASSUME NEW n \in Nat, NEW x \in 0 .. n - 1
  PROVE  x % n = x
BY Z3

LEMMA Initially ==
  ASSUME Init
  PROVE  RingsInv /\ Ring!Init
<1>1. Num \in Nat /\ Num > 0 /\ IdxSize \in Nat /\ Num < IdxSize
  BY NumAssumption
<1>2. Num \in Index /\ 0 \in Index /\ 0 \in Bufs
  BY <1>1 DEF Index, Bufs
<1>3. Dist(0, Num) = Num /\ Dist(0, 0) = 0
  BY <1>1, <1>2, IndexTypes
<1>4. ASSUME NEW k \in 1 .. Num PROVE Slot((0 + k - 1) % IdxSize) = k - 1 /\ k - 1 \in Slots
  <2>1. Pos(0, k) = k - 1
    BY <1>1, <1>2, PosValue
  <2>2. (k - 1) % Num = k - 1
    BY <1>1, SmallMod
  <2> QED BY <1>1, <2>1, <2>2 DEF Pos, Slot, Slots
<1>5. Offered = [k \in 1 .. Num |-> k - 1]
  BY <1>3, <1>4 DEF Init, Offered
<1>6. Returned = <<>>
  BY <1>3 DEF Init, Returned
<1>7. Elems(Offered) = Bufs /\ Distinct(Offered)
  <2>1. ASSUME NEW b \in Bufs PROVE b \in Elems(Offered)
    <3>1. b + 1 \in 1 .. Num /\ b = (b + 1) - 1
      BY <1>1 DEF Bufs
    <3> QED BY <1>5, <3>1 DEF Elems
  <2>2. Elems(Offered) \subseteq Bufs
    BY <1>1, <1>5 DEF Elems, Bufs
  <2>3. Distinct(Offered)
    BY <1>1, <1>5 DEF Distinct
  <2> QED BY <2>1, <2>2, <2>3
<1>8. Elems(Returned) = {} /\ Distinct(Returned)
  BY <1>6 DEF Elems, Distinct
<1>9. TypeOK
  BY <1>2 DEF Init, TypeOK, Slots, Bufs
<1>10. Shared /\ UnderWay
  BY <1>7, <1>8 DEF Init, Shared, UnderWay
<1>11. Ring!Init
  BY <1>6, <1>7 DEF Init, Ring!Init, Elems
<1> QED BY <1>9, <1>10, <1>11 DEF RingsInv

LEMMA TypeStep ==
  ASSUME TypeOK, [Next]_vars
  PROVE  TypeOK'
<1> USE DEF TypeOK
<1>1. ASSUME NEW b \in Bufs, HostWrite(b) PROVE TypeOK'
  BY <1>1, IndexTypes DEF HostWrite, used, m3
<1>2. ASSUME HostPublish PROVE TypeOK'
  BY <1>2, IndexTypes DEF HostPublish, used, m3
<1>3. ASSUME HostNotify PROVE TypeOK'
  BY <1>3 DEF HostNotify, avail, used, m3
<1>4. ASSUME HostCollect PROVE TypeOK'
  BY <1>4, IndexTypes DEF HostCollect, avail, used, m3
<1>5. ASSUME GetCheck \/ Ask \/ Prohibit \/ Retry PROVE TypeOK'
  BY <1>5 DEF GetCheck, Ask, Prohibit, Retry, M3To, avail, used
<1>6. ASSUME Grab PROVE TypeOK'
  BY <1>6, IndexTypes DEF Grab, M3To, avail, used
<1>7. ASSUME AddUsedIdx PROVE TypeOK'
  BY <1>7, IndexTypes DEF AddUsedIdx, M3To, avail, used
<1>8. ASSUME NEW b \in Bufs, AddUsed(b) PROVE TypeOK'
  BY <1>8, IndexTypes DEF AddUsed, M3To, avail, used
<1>9. ASSUME UNCHANGED vars PROVE TypeOK'
  BY <1>9 DEF vars, avail, used, m3
<1> QED BY <1>1, <1>2, <1>3, <1>4, <1>5, <1>6, <1>7, <1>8, <1>9 DEF Next, Host, M3Step

-------------------------------------------------------------------------------
(* What each access is to the users of the ring.                           *)

LEMMA RingWriteStep ==
  ASSUME RingsInv, NEW b \in Bufs, HostWrite(b)
  PROVE  UNCHANGED Ring!vars /\ UnderWay'
<1>1. Offered' = Offered /\ availRing'[Slot(availIdx)] = b
  <2>1. Dist(lastAvail, availIdx) < Num
    BY Room DEF RingsInv, HostWrite
  <2>2. /\ lastAvail \in Index /\ availIdx \in Index /\ availRing \in [Slots -> Bufs]
        /\ lastAvail' = lastAvail /\ availIdx' = availIdx
        /\ availRing' = [availRing EXCEPT ![Slot(availIdx)] = b]
    BY DEF RingsInv, TypeOK, HostWrite
  <2>3. /\ RingSeq([availRing EXCEPT ![Slot(availIdx)] = b], lastAvail, availIdx)
             = RingSeq(availRing, lastAvail, availIdx)
        /\ [availRing EXCEPT ![Slot(availIdx)] = b][Slot(availIdx)] = b
    BY <2>1, <2>2, SeqWrite
  <2> QED BY <2>2, <2>3, AsSeqs
<1>2. Returned' = Returned
  BY AsSeqs DEF HostWrite, used
<1> QED BY <1>1, <1>2 DEF HostWrite, Ring!vars, RingsInv, UnderWay, used, m3

LEMMA PublishStep ==
  ASSUME RingsInv, HostPublish
  PROVE  Ring!Next /\ UnderWay'
<1> DEFINE b == availRing[Slot(availIdx)]
<1>1. b \in hostOwn /\ b \in Bufs
  BY DEF RingsInv, UnderWay, TypeOK, HostPublish
<1>2. Offered' = Append(Offered, b)
  BY <1>1, Room, SeqPublish, AsSeqs DEF RingsInv, TypeOK, HostPublish
<1>3. Returned' = Returned
  BY AsSeqs DEF HostPublish, used
<1>4. Ring!Offer(b)
  BY <1>1, <1>2, <1>3 DEF HostPublish, Ring!Offer, m3
<1>5. lastAvail # availIdx'
  <2>1. Len(Offered') = Len(Offered) + 1 /\ Len(Offered) \in Nat
    BY <1>1, <1>2, SeqsTyped DEF RingsInv
  <2>2. Dist(lastAvail, lastAvail) = 0 /\ lastAvail' = lastAvail
    <3>1. lastAvail \in Index /\ lastAvail \in Int
      BY NumAssumption DEF RingsInv, TypeOK, Index
    <3>2. Dist(lastAvail, lastAvail) = lastAvail - lastAvail
      BY <3>1, IndexTypes
    <3> QED BY <3>1, <3>2 DEF HostPublish
  <2>3. Len(Offered') = Dist(lastAvail', availIdx')
    BY TypeStep, SeqType, AsSeqs DEF Next, Host, RingsInv, TypeOK
  <2> QED BY <2>1, <2>2, <2>3
<1> QED BY <1>1, <1>4, <1>5 DEF HostPublish, Ring!Next, RingsInv, UnderWay, used, m3

LEMMA CollectStep ==
  ASSUME RingsInv, HostCollect
  PROVE  Ring!Next /\ UnderWay'
<1>1. Returned # <<>> /\ Head(Returned) = usedRing[Slot(lastUsed)]
      /\ Returned' = Tail(Returned)
  BY SeqTake, AsSeqs DEF RingsInv, TypeOK, HostCollect, used
<1>2. Offered' = Offered
  BY AsSeqs DEF HostCollect, avail
<1>3. Ring!Collect
  BY <1>1, <1>2 DEF HostCollect, Ring!Collect, m3
<1> QED BY <1>3 DEF HostCollect, Ring!Next, RingsInv, UnderWay, avail, used, m3

LEMMA GrabStep ==
  ASSUME RingsInv, Grab
  PROVE  Ring!Next /\ UnderWay'
<1>1. Offered # <<>> /\ Head(Offered) = availRing[Slot(lastAvail)]
      /\ Offered' = Tail(Offered)
  BY SeqTake, AsSeqs DEF RingsInv, UnderWay, TypeOK, Grab, M3To, avail
<1>2. Returned' = Returned
  BY AsSeqs DEF Grab, used
<1>3. Ring!Take
  BY <1>1, <1>2 DEF Grab, Ring!Take
<1> QED BY <1>3 DEF Grab, M3To, Ring!Next, RingsInv, UnderWay, avail, used

LEMMA AddUsedStep ==
  ASSUME RingsInv, NEW b \in Bufs, AddUsed(b)
  PROVE  UNCHANGED Ring!vars /\ UnderWay'
<1>1. Returned' = Returned /\ usedRing'[Slot(usedIdx)] = b
  <2>1. Dist(lastUsed, usedIdx) < Num
    BY Room DEF RingsInv, AddUsed
  <2>2. /\ lastUsed \in Index /\ usedIdx \in Index /\ usedRing \in [Slots -> Bufs]
        /\ lastUsed' = lastUsed /\ usedIdx' = usedIdx
        /\ usedRing' = [usedRing EXCEPT ![Slot(usedIdx)] = b]
    BY DEF RingsInv, TypeOK, AddUsed
  <2>3. /\ RingSeq([usedRing EXCEPT ![Slot(usedIdx)] = b], lastUsed, usedIdx)
             = RingSeq(usedRing, lastUsed, usedIdx)
        /\ [usedRing EXCEPT ![Slot(usedIdx)] = b][Slot(usedIdx)] = b
    BY <2>1, <2>2, SeqWrite
  <2> QED BY <2>2, <2>3, AsSeqs
<1>2. Offered' = Offered
  BY AsSeqs DEF AddUsed, avail
<1> QED BY <1>1, <1>2 DEF AddUsed, M3To, Ring!vars, RingsInv, UnderWay, avail

LEMMA AddUsedIdxStep ==
  ASSUME RingsInv, AddUsedIdx
  PROVE  Ring!Next /\ UnderWay'
<1>1. tok \in held /\ tok \in Bufs /\ usedRing[Slot(usedIdx)] = tok
  BY DEF RingsInv, UnderWay, TypeOK, AddUsedIdx, M3To
<1>2. Returned' = Append(Returned, tok)
  BY <1>1, Room, SeqPublish, AsSeqs DEF RingsInv, TypeOK, AddUsedIdx
<1>3. Offered' = Offered
  BY AsSeqs DEF AddUsedIdx, avail
<1>4. Ring!Return(tok)
  BY <1>1, <1>2, <1>3 DEF AddUsedIdx, Ring!Return
<1> QED BY <1>1, <1>4 DEF AddUsedIdx, M3To, Ring!Next, RingsInv, UnderWay, avail

LEMMA OtherStep ==
  ASSUME RingsInv, HostNotify \/ GetCheck \/ Ask \/ Prohibit \/ Retry \/ UNCHANGED vars
  PROVE  UNCHANGED Ring!vars /\ UnderWay'
<1>1. UNCHANGED <<avail, lastAvail, used, lastUsed, hostOwn, held, tok>>
  BY DEF HostNotify, GetCheck, Ask, Prohibit, Retry, vars, m3
<1>2. Offered' = Offered /\ Returned' = Returned
  BY <1>1, AsSeqs DEF avail, used
<1>3. UnderWay'
  BY <1>1 DEF RingsInv, UnderWay, HostNotify, GetCheck, Ask, Prohibit, Retry, M3To, vars,
              avail, used, m3
<1> QED BY <1>1, <1>2, <1>3 DEF Ring!vars

\* A step of BufferRing keeps every buffer in one place.
LEMMA RingKeepsShared ==
  ASSUME TypeOK, Shared, [Ring!Next]_Ring!vars
  PROVE  Shared'
<1>1. /\ Offered \in Seq(Bufs) /\ Returned \in Seq(Bufs)
      /\ hostOwn \subseteq Bufs /\ held \subseteq Bufs
  BY SeqsTyped DEF TypeOK
<1>2. ASSUME NEW b \in Bufs, Ring!Offer(b) PROVE Shared'
  BY <1>1, <1>2, AppendElems DEF Shared, Ring!Offer
<1>3. ASSUME NEW b \in Bufs, Ring!Return(b) PROVE Shared'
  BY <1>1, <1>3, AppendElems DEF Shared, Ring!Return
<1>4. ASSUME Ring!Take PROVE Shared'
  BY <1>1, <1>4, TailElems DEF Shared, Ring!Take
<1>5. ASSUME Ring!Collect PROVE Shared'
  BY <1>1, <1>5, TailElems DEF Shared, Ring!Collect
<1>6. ASSUME UNCHANGED Ring!vars PROVE Shared'
  BY <1>6 DEF Shared, Ring!vars
<1> QED BY <1>2, <1>3, <1>4, <1>5, <1>6 DEF Ring!Next

LEMMA RingsStep ==
  ASSUME RingsInv, [Next]_vars
  PROVE  RingsInv' /\ [Ring!Next]_Ring!vars
<1>1. [Ring!Next]_Ring!vars /\ UnderWay'
  BY RingWriteStep, PublishStep, CollectStep, GrabStep, AddUsedStep, AddUsedIdxStep,
     OtherStep DEF Next, Host, M3Step
<1>2. TypeOK'
  BY TypeStep DEF RingsInv
<1>3. Shared'
  BY <1>1, RingKeepsShared DEF RingsInv
<1> QED BY <1>1, <1>2, <1>3 DEF RingsInv

LEMMA RingsAlways == Spec => []RingsInv
<1>1. Init => RingsInv
  BY Initially
<1>2. RingsInv /\ [Next]_vars => RingsInv'
  BY RingsStep
<1> QED BY <1>1, <1>2, PTL DEF Spec

-------------------------------------------------------------------------------
\* The free-running indexes never drift further apart than the ring has slots, however
\* often they wrap: VirtQueue_addUsedBuf and the host overwrite no entry that the other
\* side has not read.
THEOREM IndexesNeverOverrun == Spec => []RingInv
<1>1. RingsInv => RingInv
  BY Room DEF RingsInv, RingInv, NoOverrun, UnderWay
<1> QED BY <1>1, RingsAlways, PTL

\* The vring, accessed word by word from two processors without a lock, passes buffers
\* first in first out both ways and duplicates or loses none.
THEOREM RingsAreFifo == Spec => ImplementsBufferRing
<1>1. Init => Ring!Init
  BY Initially
<1>2. RingsInv /\ [Next]_vars => [Ring!Next]_Ring!vars
  BY RingsStep
<1> QED BY <1>1, <1>2, RingsAlways, PTL DEF Spec, ImplementsBufferRing, Ring!Spec
===============================================================================
