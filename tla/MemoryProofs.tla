-------------------------- MODULE MemoryProofs -------------------------------
(***************************************************************************)
(* That the ring buffer implements the log of RingLog, for every size of   *)
(* the ring, every width of an LSN and every set of byte values.  For the *)
(* blocks: that a flush completes every Get of any ranks; that the tables  *)
(* of nodes are right however ranks are placed; and that reads of blocks   *)
(* are those of AsyncReads where nodes are filled evenly and one by one.   *)
(***************************************************************************)
EXTENDS RingBuffer, RpmBlocks, Sequences, FiniteSetTheorems, WellFoundedInduction, TLAPS

-----------------------------------------------------------------------------
(* Remainders. *)

\* A number below the modulus is its own remainder.
LEMMA ModSmall ==
    ASSUME NEW w \in Nat \ {0}, NEW x \in 0 .. w - 1
    PROVE  x % w = x
  OBVIOUS

LEMMA ModRange ==
    ASSUME NEW w \in Nat \ {0}, NEW x \in Int
    PROVE  x % w \in 0 .. w - 1
  OBVIOUS

LEMMA Division ==
    ASSUME NEW w \in Nat \ {0}, NEW x \in Int
    PROVE  /\ x \div w \in Int
           /\ x = w * (x \div w) + (x % w)
  OBVIOUS

LEMMA MulPos ==
    ASSUME NEW w \in Nat \ {0}, NEW k \in Int, k >= 1
    PROVE  w * k >= w
  OBVIOUS

LEMMA QuotientUnique ==
    ASSUME NEW w \in Nat \ {0}, NEW p \in Int, NEW q \in Int,
           NEW r \in 0 .. w - 1, NEW s \in 0 .. w - 1,
           w * p + r = w * q + s
    PROVE  r = s
<1>1. w * (p - q) = s - r /\ w * (q - p) = r - s
  OBVIOUS
<1>2. CASE p - q >= 1
  <2>1. w * (p - q) >= w
    BY <1>2, MulPos
  <2>. QED  BY <2>1, <1>1
<1>3. CASE q - p >= 1
  <2>1. w * (q - p) >= w
    BY <1>3, MulPos
  <2>. QED  BY <2>1, <1>1
<1>4. CASE p = q
  BY <1>4
<1>. QED  BY <1>2, <1>3, <1>4

LEMMA ModStep ==
    ASSUME NEW w \in Nat \ {0}, NEW x \in Nat, NEW i \in Nat, i < w
    PROVE  (x + i) % w = IF (x % w) + i < w THEN (x % w) + i ELSE (x % w) + i - w
<1>. DEFINE q == x \div w
            p == (x + i) \div w
            r == x % w
            s == (x + i) % w
<1>1. /\ q \in Int /\ r \in 0 .. w - 1 /\ x = w * q + r
      /\ p \in Int /\ s \in 0 .. w - 1 /\ x + i = w * p + s
  BY Division, ModRange
<1>. HIDE DEF p, q, r, s
<1>2. CASE r + i < w
  <2>1. w * q + (r + i) = w * p + s
    BY <1>1
  <2>2. r + i = s
    BY <2>1, <1>1, <1>2, QuotientUnique
  <2>. QED  BY <2>2, <1>2 DEF r, s
<1>3. CASE ~ (r + i < w)
  <2>1. w * (q + 1) + (r + i - w) = w * p + s
    BY <1>1
  <2>2. r + i - w = s
    <3>1. r + i - w \in 0 .. w - 1 /\ q + 1 \in Int
      BY <1>1, <1>3
    <3>. QED  BY <2>1, <3>1, <1>1, QuotientUnique
  <2>. QED  BY <2>2, <1>3 DEF r, s
<1>. QED  BY <1>2, <1>3

-----------------------------------------------------------------------------
(* The mapping of LSNs to ring offsets. *)

LEMMA RingFacts ==
    /\ RingSize \in Nat \ {0}
    /\ \A l \in Nat : l % RingSize \in Offsets
    /\ \A t \in TrackerType(RingSize) : t.ring_size = RingSize
<1>1. RingSize \in Nat \ {0}
  BY WordAssumption, RingAssumption
<1>2. ASSUME NEW l \in Nat PROVE l % RingSize \in Offsets
  <2>1. l \in Int
    OBVIOUS
  <2>. QED  BY <1>1, <2>1, ModRange DEF Offsets
<1>3. \A t \in TrackerType(RingSize) : t.ring_size = RingSize
  BY DEF TrackerType
<1>. QED  BY <1>1, <1>2, <1>3

\* Two LSNs of a window no longer than the ring have different ring offsets.
LEMMA NoAliasing ==
    ASSUME NEW k \in Nat, NEW l \in Nat,
           k - l < RingSize, l - k < RingSize, k % RingSize = l % RingSize
    PROVE  k = l
<1>. DEFINE p == k \div RingSize
            q == l \div RingSize
<1>1. RingSize \in Nat \ {0}
  BY WordAssumption, RingAssumption
<1>2. /\ p \in Int /\ q \in Int
      /\ k = RingSize * p + (k % RingSize) /\ l = RingSize * q + (l % RingSize)
      /\ k % RingSize \in Int /\ l % RingSize \in Int
  BY <1>1, Division, ModRange
<1>. HIDE DEF p, q
<1>3. k - l = RingSize * (p - q) /\ l - k = RingSize * (q - p)
  BY <1>1, <1>2
<1>4. ~ (p - q >= 1) /\ ~ (q - p >= 1)
  BY <1>1, <1>2, <1>3, MulPos
<1>. QED  BY <1>1, <1>2, <1>3, <1>4

\* pread returns, at index i, the byte at the ring offset of the i-th LSN.
LEMMA RingReadAt ==
    ASSUME NEW b \in [Cells -> Bytes], NEW t \in TrackerType(RingSize),
           NEW n \in Sizes, NEW lsn \in Nat
    PROVE  /\ RingRead(b, t, n, lsn) = [i \in 0 .. n - 1 |-> b[(lsn + i) % RingSize]]
           /\ RingRead(b, t, n, lsn) \in Buf(n)
<1>1. RingSize \in Nat \ {0} /\ t.ring_size = RingSize /\ lsn % RingSize \in Offsets
  BY RingFacts
<1>2. ASSUME NEW i \in 0 .. n - 1
      PROVE  /\ (lsn + i) % RingSize \in Offsets
             /\ (lsn + i) % RingSize = IF (lsn % RingSize) + i < RingSize
                                       THEN (lsn % RingSize) + i
                                       ELSE (lsn % RingSize) + i - RingSize
  <2>1. i \in Nat /\ i < RingSize /\ lsn + i \in Int
    BY <1>1 DEF Sizes
  <2>. QED  BY <1>1, <2>1, ModStep, ModRange DEF Offsets
<1>3. RingRead(b, t, n, lsn) = [i \in 0 .. n - 1 |-> b[(lsn + i) % RingSize]]
  <2>. DEFINE ofs == lsn % RingSize
              size == IF ofs + n <= RingSize THEN n ELSE RingSize - ofs
  <2>1. RingRead(b, t, n, lsn) =
          [i \in 0 .. n - 1 |-> IF i < size THEN b[ofs + i] ELSE b[i - size]]
    BY <1>1 DEF RingRead, to_ofs, first_segment_size_ofs
  <2>2. ASSUME NEW i \in 0 .. n - 1
        PROVE  (IF i < size THEN b[ofs + i] ELSE b[i - size]) = b[(lsn + i) % RingSize]
    <3>1. ofs \in Nat /\ ofs < RingSize /\ n \in 0 .. RingSize /\ RingSize \in Nat
      BY <1>1 DEF Sizes, Offsets
    <3>2. (lsn + i) % RingSize = IF ofs + i < RingSize THEN ofs + i ELSE ofs + i - RingSize
      BY <1>2
    <3>. HIDE DEF ofs
    <3>3. i < size => (lsn + i) % RingSize = ofs + i
      BY <3>1, <3>2
    <3>4. ~ (i < size) => (lsn + i) % RingSize = i - size
      BY <3>1, <3>2
    <3>. QED  BY <3>3, <3>4
  <2>. QED  BY <2>1, <2>2
<1>. QED  BY <1>2, <1>3 DEF Buf, Cells

\* pwrite replaces the byte at the ring offset of each LSN it is given, and no other.
LEMMA RingWriteAt ==
    ASSUME NEW b \in [Cells -> Bytes], NEW t \in TrackerType(RingSize),
           NEW n \in Sizes, NEW bs \in Buf(n), NEW lsn \in Nat
    PROVE  /\ RingWrite(b, t, bs, n, lsn) \in [Cells -> Bytes]
           /\ \A i \in 0 .. n - 1 :
                 RingWrite(b, t, bs, n, lsn)[(lsn + i) % RingSize] = bs[i]
           /\ \A o \in Cells :
                 (\A i \in 0 .. n - 1 : (lsn + i) % RingSize # o)
                 => RingWrite(b, t, bs, n, lsn)[o] = b[o]
<1>. DEFINE ofs == lsn % RingSize
            size == IF ofs + n <= RingSize THEN n ELSE RingSize - ofs
            wr == [o \in Cells |->
                     IF ofs <= o /\ o < ofs + size THEN bs[o - ofs]
                     ELSE IF o < n - size THEN bs[size + o] ELSE b[o]]
<1>1. RingSize \in Nat \ {0} /\ t.ring_size = RingSize /\ ofs \in Offsets
      /\ n \in 0 .. RingSize /\ bs \in [0 .. n - 1 -> Bytes]
  BY RingFacts DEF Sizes, Buf
<1>2. ASSUME NEW i \in 0 .. n - 1
      PROVE  (lsn + i) % RingSize =
               IF ofs + i < RingSize THEN ofs + i ELSE ofs + i - RingSize
  <2>1. i \in Nat /\ i < RingSize
    BY <1>1
  <2>. QED  BY <1>1, <2>1, ModStep
<1>. HIDE DEF ofs
<1>3. RingWrite(b, t, bs, n, lsn) = wr
  <2>1. CASE size = n
    <3>1. RingWrite(b, t, bs, n, lsn) = BlockWrite(b, bs, 0, n, ofs)
      BY <1>1, <2>1 DEF RingWrite, to_ofs, first_segment_size_ofs, ofs
    <3>2. BlockWrite(b, bs, 0, n, ofs) = wr
      BY <1>1, <2>1 DEF BlockWrite, Cells, Offsets, Behind
    <3>. QED  BY <3>1, <3>2
  <2>2. CASE size # n
    <3>1. RingWrite(b, t, bs, n, lsn) =
            BlockWrite(BlockWrite(b, bs, 0, size, ofs), bs, size, n - size, 0)
      BY <1>1, <2>2 DEF RingWrite, to_ofs, first_segment_size_ofs, ofs
    <3>2. BlockWrite(BlockWrite(b, bs, 0, size, ofs), bs, size, n - size, 0) = wr
      BY <1>1, <2>2 DEF BlockWrite, Cells, Offsets, Behind
    <3>. QED  BY <3>1, <3>2
  <2>. QED  BY <2>1, <2>2
<1>4. wr \in [Cells -> Bytes]
  BY <1>1 DEF Cells, Offsets, Behind
<1>5. ASSUME NEW i \in 0 .. n - 1
      PROVE  wr[(lsn + i) % RingSize] = bs[i]
  <2>1. CASE ofs + i < RingSize
    <3>1. (lsn + i) % RingSize = ofs + i /\ ofs + i \in Offsets /\ i < size
      BY <1>1, <1>2, <2>1 DEF Offsets
    <3>. QED  BY <3>1, <1>1 DEF Cells, Offsets
  <2>2. CASE ~ (ofs + i < RingSize)
    <3>1. /\ (lsn + i) % RingSize = ofs + i - RingSize
          /\ ofs + i - RingSize \in Offsets /\ ofs + i - RingSize < ofs
          /\ size = RingSize - ofs /\ ofs + i - RingSize < n - size
      BY <1>1, <1>2, <2>2 DEF Offsets
    <3>. QED  BY <3>1, <1>1 DEF Cells, Offsets
  <2>. QED  BY <2>1, <2>2
<1>6. ASSUME NEW o \in Cells, \A i \in 0 .. n - 1 : (lsn + i) % RingSize # o
      PROVE  wr[o] = b[o]
  <2>1. ~ (ofs <= o /\ o < ofs + size)
    <3>1. SUFFICES ASSUME ofs <= o, o < ofs + size PROVE FALSE
      OBVIOUS
    <3>. DEFINE i == o - ofs
    <3>2. i \in 0 .. n - 1 /\ ofs + i = o /\ o < RingSize
      BY <1>1, <3>1 DEF Cells, Offsets, Behind
    <3>. HIDE DEF i
    <3>3. (lsn + i) % RingSize = o
      BY <1>1, <3>2, <1>2
    <3>. QED  BY <3>2, <3>3, <1>6
  <2>2. ~ (o < n - size)
    <3>1. SUFFICES ASSUME o < n - size PROVE FALSE
      OBVIOUS
    <3>. DEFINE i == size + o
    <3>2. i \in 0 .. n - 1 /\ ofs + i = RingSize + o /\ o \in Nat
      BY <1>1, <3>1 DEF Cells, Offsets, Behind
    <3>. HIDE DEF i
    <3>3. (lsn + i) % RingSize = o
      <4>1. (lsn + i) % RingSize = IF ofs + i < RingSize THEN ofs + i ELSE ofs + i - RingSize
        BY <3>2, <1>2
      <4>2. ~ (ofs + i < RingSize) /\ ofs + i - RingSize = o
        BY <1>1, <3>2 DEF Offsets
      <4>. QED  BY <4>1, <4>2
    <3>. QED  BY <3>2, <3>3, <1>6
  <2>. QED  BY <2>1, <2>2
<1>. QED  BY <1>3, <1>4, <1>5, <1>6

-----------------------------------------------------------------------------
(* The inductive invariant.  Types alone do not bound head - tail, and the *)
(* capacity alone does not say that the cursors are machine words.         *)

IInv == TypeOK /\ CapacityRespected

\* Within the capacity, the code's unsigned differences are the true ones.
LEMMA Capacities ==
    ASSUME NEW t \in TrackerType(RingSize),
           t.tail <= t.head, t.head - t.tail <= RingSize
    PROVE  /\ used_capacity(t) = t.head - t.tail
           /\ free_capacity(t) = RingSize - (t.head - t.tail)
<1>1. /\ t.head \in 0 .. Word - 1 /\ t.tail \in 0 .. Word - 1 /\ t.ring_size = RingSize
      /\ Word \in Nat \ {0} /\ RingSize \in 1 .. Word - 1
  BY WordAssumption, RingAssumption DEF TrackerType
<1>. DEFINE d == t.head - t.tail
            f == RingSize - d
<1>2. d \in 0 .. Word - 1 /\ f \in 0 .. Word - 1
  BY <1>1
<1>. HIDE DEF d, f
<1>3. d % Word = d /\ f % Word = f
  BY <1>1, <1>2, ModSmall
<1>. QED  BY <1>1, <1>3 DEF used_capacity, free_capacity, d, f

\* What the two calls of ring_tracker.hpp that move a cursor do to the other fields.
LEMMA Cursors ==
    ASSUME NEW t \in TrackerType(RingSize), NEW n \in Sizes
    PROVE  /\ allocate(t, n) \in TrackerType(RingSize)
           /\ allocate(t, n).tail = t.tail
           /\ t.head + n <= MaxLsn => allocate(t, n).head = t.head + n
           /\ release(t, n) \in TrackerType(RingSize)
           /\ release(t, n).head = t.head
           /\ t.tail + n <= t.head => release(t, n).tail = t.tail + n
<1>1. /\ t.head \in 0 .. Word - 1 /\ t.tail \in 0 .. Word - 1
      /\ Word \in Nat \ {0} /\ n \in Nat /\ MaxLsn \in 0 .. Word - 1
  BY WordAssumption, RingAssumption DEF TrackerType, Sizes
<1>2. (t.head + n) % Word \in 0 .. Word - 1 /\ (t.tail + n) % Word \in 0 .. Word - 1
  <2>1. t.head + n \in Int /\ t.tail + n \in Int
    BY <1>1
  <2>. QED  BY <1>1, <2>1, ModRange
<1>3. t.head + n <= MaxLsn => (t.head + n) % Word = t.head + n
  <2>1. t.head + n <= MaxLsn => t.head + n \in 0 .. Word - 1
    BY <1>1
  <2>. QED  BY <1>1, <2>1, ModSmall
<1>4. t.tail + n <= t.head => (t.tail + n) % Word = t.tail + n
  <2>1. t.tail + n <= t.head => t.tail + n \in 0 .. Word - 1
    BY <1>1
  <2>. QED  BY <1>1, <2>1, ModSmall
<1>. QED  BY <1>2, <1>3, <1>4 DEF allocate, release, TrackerType

LEMMA InitInv == Init => IInv
<1>. SUFFICES ASSUME Init PROVE IInv
  OBVIOUS
<1>1. NewTracker(RingSize) \in TrackerType(RingSize)
  BY WordAssumption DEF NewTracker, TrackerType
<1>2. io.n \in Sizes /\ io.buf \in Buf(io.n)
  <2>1. 0 \in Sizes /\ 0 .. 0 - 1 = {}
    BY RingAssumption, WordAssumption DEF Sizes
  <2>2. io.n = 0 /\ io.buf = [i \in {} |-> i]
    BY DEF Init, Access
  <2>3. io.buf \in [{} -> Bytes]
    BY <2>2
  <2>. QED  BY <2>1, <2>2, <2>3 DEF Buf
<1>3. tracker.tail <= tracker.head /\ tracker.head - tracker.tail <= RingSize
  BY RingAssumption, WordAssumption DEF Init, NewTracker
<1>. QED  BY <1>1, <1>2, <1>3 DEF Init, IInv, TypeOK, CapacityRespected

\* The two kinds of reservation, and of giving back, differ only when overrun.
LEMMA ReserveInv ==
    ASSUME IInv, NEW n \in Sizes, ReserveNb(n) \/ ReserveUnsafe(n)
    PROVE  /\ IInv'
           /\ ~ overrun' => /\ ~ overrun /\ can_allocate(tracker, n)
                            /\ tracker' = allocate(tracker, n)
                            /\ tracker.head + n <= MaxLsn
<1>1. tracker \in TrackerType(RingSize) /\ overrun \in BOOLEAN
  BY DEF IInv, TypeOK
<1>2. /\ tracker' = allocate(tracker, n) /\ tracker.head + n <= MaxLsn
      /\ block' = block /\ io' = io
      /\ overrun' \in BOOLEAN
      /\ ~ overrun' => ~ overrun /\ can_allocate(tracker, n)
  BY <1>1 DEF ReserveNb, ReserveUnsafe
<1>3. tracker' \in TrackerType(RingSize)
  BY <1>1, <1>2, Cursors
<1>4. CapacityRespected'
  <2>. SUFFICES ASSUME ~ overrun' PROVE CapacityRespected'
    BY DEF CapacityRespected
  <2>1. tracker.tail <= tracker.head /\ tracker.head - tracker.tail <= RingSize
    BY <1>2 DEF IInv, CapacityRespected
  <2>2. RingSize - (tracker.head - tracker.tail) >= n
    BY <1>1, <1>2, <2>1, Capacities DEF can_allocate
  <2>3. tracker'.tail = tracker.tail /\ tracker'.head = tracker.head + n
    BY <1>1, <1>2, Cursors
  <2>4. tracker.head \in Nat /\ tracker.tail \in Nat /\ n \in Nat /\ RingSize \in Nat
    BY <1>1, RingFacts DEF TrackerType, Sizes
  <2>. QED  BY <2>1, <2>2, <2>3, <2>4 DEF CapacityRespected
<1>. QED  BY <1>2, <1>3, <1>4 DEF IInv, TypeOK

LEMMA ConsumeInv ==
    ASSUME IInv, NEW n \in Sizes, ConsumeNb(n) \/ ConsumeUnsafe(n)
    PROVE  /\ IInv'
           /\ ~ overrun' => /\ ~ overrun /\ can_release(tracker, n)
                            /\ tracker' = release(tracker, n)
<1>1. tracker \in TrackerType(RingSize) /\ overrun \in BOOLEAN
  BY DEF IInv, TypeOK
<1>2. /\ tracker' = release(tracker, n) /\ block' = block /\ io' = io
      /\ overrun' \in BOOLEAN
      /\ ~ overrun' => ~ overrun /\ can_release(tracker, n)
  BY <1>1 DEF ConsumeNb, ConsumeUnsafe
<1>3. tracker' \in TrackerType(RingSize)
  BY <1>1, <1>2, Cursors
<1>4. CapacityRespected'
  <2>. SUFFICES ASSUME ~ overrun' PROVE CapacityRespected'
    BY DEF CapacityRespected
  <2>1. tracker.tail <= tracker.head /\ tracker.head - tracker.tail <= RingSize
    BY <1>2 DEF IInv, CapacityRespected
  <2>2. tracker.head - tracker.tail >= n
    BY <1>1, <1>2, <2>1, Capacities DEF can_release
  <2>3. tracker.head \in Nat /\ tracker.tail \in Nat /\ n \in Nat /\ RingSize \in Nat
    BY <1>1, RingFacts DEF TrackerType, Sizes
  <2>4. tracker'.head = tracker.head /\ tracker'.tail = tracker.tail + n
    BY <1>1, <1>2, <2>2, <2>3, Cursors
  <2>. QED  BY <2>1, <2>2, <2>3, <2>4 DEF CapacityRespected
<1>. QED  BY <1>2, <1>3, <1>4 DEF IInv, TypeOK

LEMMA PwriteInv ==
    ASSUME IInv, NEW n \in Sizes, NEW bs \in Buf(n), NEW lsn \in 0 .. MaxLsn,
           Pwrite(n, bs, lsn)
    PROVE  IInv'
<1>1. RingWrite(block, tracker, bs, n, lsn) \in [Cells -> Bytes]
  BY RingWriteAt, RingAssumption, WordAssumption DEF IInv, TypeOK
<1>. QED  BY <1>1 DEF Pwrite, IInv, TypeOK, CapacityRespected, Access

LEMMA PreadInv ==
    ASSUME IInv, NEW n \in Sizes, NEW lsn \in 0 .. MaxLsn, Pread(n, lsn)
    PROVE  IInv'
<1>1. RingRead(block, tracker, n, lsn) \in Buf(n)
  BY RingReadAt, RingAssumption, WordAssumption DEF IInv, TypeOK
<1>. QED  BY <1>1 DEF Pread, IInv, TypeOK, CapacityRespected, Access

LEMMA StepInv == IInv /\ [Next]_vars => IInv'
<1>. SUFFICES ASSUME IInv, [Next]_vars PROVE IInv'
  OBVIOUS
<1>1. ASSUME NEW n \in Sizes, ReserveNb(n) \/ ReserveUnsafe(n) PROVE IInv'
  BY <1>1, ReserveInv
<1>2. ASSUME NEW n \in Sizes, ConsumeNb(n) \/ ConsumeUnsafe(n) PROVE IInv'
  BY <1>2, ConsumeInv
<1>3. ASSUME NEW n \in Sizes, NEW bs \in Buf(n), NEW lsn \in 0 .. MaxLsn,
             Pwrite(n, bs, lsn)
      PROVE  IInv'
  BY <1>3, PwriteInv
<1>4. ASSUME NEW n \in Sizes, NEW lsn \in 0 .. MaxLsn, Pread(n, lsn) PROVE IInv'
  BY <1>4, PreadInv
<1>5. CASE UNCHANGED vars
  BY <1>5 DEF vars, IInv, TypeOK, CapacityRespected
<1>. QED  BY <1>1, <1>2, <1>3, <1>4, <1>5 DEF Next, NextNb

LEMMA NbSteps == [NextNb]_vars => [Next]_vars
  BY DEF Next

LEMMA Invariance == Spec => []IInv
<1>. QED  BY InitInv, StepInv, PTL DEF Spec

\* Whatever its callers do, a cursor stays a machine word, the block keeps its
\* extent and a read returns as many bytes as were asked for.
THEOREM TypeCorrect == Spec => []TypeOK
<1>1. IInv => TypeOK
  BY DEF IInv
<1>. QED  BY <1>1, Invariance, PTL

\* Up to the first overrun by an unsafe call, no more bytes are reserved than
\* the ring has: can_reserve and can_consume, whose unsigned differences could
\* wrap around, never admit a call they should refuse.
THEOREM CapacityCorrect == Spec => []CapacityRespected
<1>1. IInv => CapacityRespected
  BY DEF IInv
<1>. QED  BY <1>1, Invariance, PTL

-----------------------------------------------------------------------------
(* The refinement.  LogBytes is the log that the ring holds: a pwrite that *)
(* obeys the callers' rule changes exactly the bytes it was given, since   *)
(* no two LSNs of the window share a ring offset.                          *)

LogBytes == [l \in tracker.tail .. tracker.head - 1 |-> block[l % RingSize]]

LEMMA LogInit == Init => Log!Init
<1>. SUFFICES ASSUME Init PROVE Log!Init
  OBVIOUS
<1>1. tracker.head = 0 /\ tracker.tail = 0
  BY DEF Init, NewTracker
<1>2. LogBytes \in [Log!Window(0, 0) -> Bytes]
  BY <1>1 DEF LogBytes, Log!Window
<1>3. io = Log!Access("none", 0, 0, [i \in {} |-> i])
  BY DEF Init, Access, Log!Access
<1>. QED  BY <1>1, <1>2, <1>3 DEF Log!Init, LogBytes

LEMMA LogReserve ==
    ASSUME IInv, NEW n \in Sizes, ReserveNb(n) \/ ReserveUnsafe(n), ~ overrun'
    PROVE  Log!Append(n)
<1>1. /\ ~ overrun /\ can_allocate(tracker, n)
      /\ tracker' = allocate(tracker, n) /\ tracker.head + n <= MaxLsn
      /\ block' = block /\ io' = io
      /\ CapacityRespected /\ CapacityRespected'
  BY ReserveInv DEF IInv, ReserveNb, ReserveUnsafe
<1>2. tracker \in TrackerType(RingSize) /\ block \in [Cells -> Bytes]
  BY DEF IInv, TypeOK
<1>3. tracker'.head = tracker.head + n /\ tracker'.tail = tracker.tail
  BY <1>1, <1>2, Cursors
<1>4. tracker.head \in Nat /\ tracker.tail \in Nat /\ n \in Nat
  BY <1>2 DEF TrackerType, Sizes
<1>5. tracker.head - tracker.tail + n <= RingSize
  BY <1>1, <1>3, <1>4, RingFacts DEF CapacityRespected
<1>6. LogBytes' = [l \in Log!Window(tracker.tail, tracker.head + n) |-> block[l % RingSize]]
  BY <1>1, <1>3 DEF LogBytes, Log!Window
<1>7. \A l \in Log!Window(tracker.tail, tracker.head + n) : block[l % RingSize] \in Bytes
  BY <1>2, <1>4, RingFacts DEF Log!Window, Cells
<1>8. LogBytes' \in [Log!Window(tracker.tail, tracker.head + n) -> Bytes]
  BY <1>6, <1>7
<1>9. \A l \in Log!Window(tracker.tail, tracker.head) : LogBytes'[l] = LogBytes[l]
  <2>1. \A l \in Log!Window(tracker.tail, tracker.head) : LogBytes[l] = block[l % RingSize]
    BY DEF LogBytes, Log!Window
  <2>2. \A l \in Log!Window(tracker.tail, tracker.head) :
           l \in Log!Window(tracker.tail, tracker.head + n)
    BY <1>4 DEF Log!Window
  <2>. QED  BY <1>6, <2>1, <2>2
<1>. QED  BY <1>1, <1>3, <1>5, <1>8, <1>9 DEF Log!Append, LogBytes

LEMMA LogConsume ==
    ASSUME IInv, NEW n \in Sizes, ConsumeNb(n) \/ ConsumeUnsafe(n), ~ overrun'
    PROVE  Log!Discard(n)
<1>1. /\ ~ overrun /\ can_release(tracker, n) /\ tracker' = release(tracker, n)
      /\ block' = block /\ io' = io /\ CapacityRespected
  BY ConsumeInv DEF IInv, ConsumeNb, ConsumeUnsafe
<1>2. tracker \in TrackerType(RingSize)
  BY DEF IInv, TypeOK
<1>3. tracker.head \in Nat /\ tracker.tail \in Nat /\ n \in Nat
  BY <1>2 DEF TrackerType, Sizes
<1>4. n <= tracker.head - tracker.tail
  BY <1>1, <1>2, Capacities DEF can_release, CapacityRespected
<1>5. tracker'.head = tracker.head /\ tracker'.tail = tracker.tail + n
  BY <1>1, <1>2, <1>3, <1>4, Cursors
<1>6. LogBytes' = [l \in Log!Window(tracker.tail + n, tracker.head) |-> LogBytes[l]]
  BY <1>1, <1>3, <1>5 DEF LogBytes, Log!Window
<1>. QED  BY <1>1, <1>4, <1>5, <1>6 DEF Log!Discard, LogBytes

LEMMA LogPwrite ==
    ASSUME IInv, ~ overrun, NEW n \in Sizes, NEW bs \in Buf(n),
           NEW lsn \in 0 .. MaxLsn, Pwrite(n, bs, lsn)
    PROVE  Log!Write(lsn, n, bs)
<1>. DEFINE wr == RingWrite(block, tracker, bs, n, lsn)
<1>1. /\ tracker \in TrackerType(RingSize) /\ block \in [Cells -> Bytes]
      /\ tracker' = tracker /\ block' = wr
      /\ io' = Log!Access("pwrite", lsn, n, bs)
      /\ tracker.tail <= lsn /\ lsn + n <= tracker.head
      /\ tracker.head - tracker.tail <= RingSize
  BY DEF IInv, TypeOK, CapacityRespected, Pwrite, Reserved, Access, Log!Access
<1>2. /\ tracker.head \in Nat /\ tracker.tail \in Nat /\ n \in Nat /\ lsn \in Nat
      /\ RingSize \in Nat \ {0}
  BY <1>1, RingAssumption, WordAssumption, RingFacts DEF TrackerType, Sizes
<1>3. /\ \A i \in 0 .. n - 1 : wr[(lsn + i) % RingSize] = bs[i]
      /\ \A o \in Cells : (\A i \in 0 .. n - 1 : (lsn + i) % RingSize # o)
                          => wr[o] = block[o]
  <2>1. lsn \in Nat /\ tracker \in TrackerType(RingSize) /\ block \in [Cells -> Bytes]
    BY <1>1, <1>2
  <2>. QED  BY ONLY <2>1, RingWriteAt, n \in Sizes, bs \in Buf(n)
<1>. HIDE DEF wr
<1>4. ASSUME NEW l \in Log!Window(tracker.tail, tracker.head)
      PROVE  wr[l % RingSize] =
               IF lsn <= l /\ l < lsn + n THEN bs[l - lsn] ELSE LogBytes[l]
  <2>1. l \in Nat /\ l \in tracker.tail .. tracker.head - 1 /\ l % RingSize \in Cells
    BY <1>2, RingFacts DEF Log!Window, Cells
  <2>2. CASE lsn <= l /\ l < lsn + n
    <3>. DEFINE i == l - lsn
    <3>1. i \in 0 .. n - 1 /\ lsn + i = l
      BY <1>2, <2>1, <2>2
    <3>2. wr[(lsn + i) % RingSize] = bs[i]
      BY <1>3, <3>1
    <3>. QED  BY <2>2, <3>1, <3>2
  <2>3. CASE ~ (lsn <= l /\ l < lsn + n)
    <3>1. ASSUME NEW i \in 0 .. n - 1, (lsn + i) % RingSize = l % RingSize
          PROVE  FALSE
      <4>. DEFINE k == lsn + i
      <4>1. k \in Nat /\ k - l < RingSize /\ l - k < RingSize /\ k # l
        BY <1>1, <1>2, <2>1, <2>3
      <4>. HIDE DEF k
      <4>2. k % RingSize = l % RingSize
        BY <3>1 DEF k
      <4>. QED  BY <2>1, <4>1, <4>2, NoAliasing
    <3>2. wr[l % RingSize] = block[l % RingSize]
      BY <1>3, <2>1, <3>1
    <3>. QED  BY <2>1, <2>3, <3>2 DEF LogBytes
  <2>. QED  BY <2>2, <2>3
<1>5. LogBytes' = [l \in Log!Window(tracker.tail, tracker.head) |-> wr[l % RingSize]]
  BY <1>1 DEF LogBytes, Log!Window
<1>6. LogBytes' = [l \in Log!Window(tracker.tail, tracker.head) |->
                     IF lsn <= l /\ l < lsn + n THEN bs[l - lsn] ELSE LogBytes[l]]
  BY <1>4, <1>5
<1>. QED  BY <1>1, <1>2, <1>6 DEF Log!Write, LogBytes

LEMMA LogPread ==
    ASSUME IInv, ~ overrun, NEW n \in Sizes, NEW lsn \in 0 .. MaxLsn, Pread(n, lsn)
    PROVE  Log!Read(lsn, n)
<1>1. /\ tracker \in TrackerType(RingSize) /\ block \in [Cells -> Bytes]
      /\ tracker' = tracker /\ block' = block
      /\ io' = Log!Access("pread", lsn, n, RingRead(block, tracker, n, lsn))
      /\ tracker.tail <= lsn /\ lsn + n <= tracker.head
  BY DEF IInv, TypeOK, Pread, Reserved, Access, Log!Access
<1>2. tracker.head \in Nat /\ tracker.tail \in Nat /\ n \in Nat /\ lsn \in Nat
  BY <1>1, RingAssumption, WordAssumption, RingFacts DEF TrackerType, Sizes
<1>3. RingRead(block, tracker, n, lsn) = [i \in 0 .. n - 1 |-> block[(lsn + i) % RingSize]]
  <2>1. block \in [Cells -> Bytes] /\ tracker \in TrackerType(RingSize) /\ n \in Sizes /\ lsn \in Nat
    BY <1>1, <1>2
  <2> QED
    BY <2>1, RingReadAt
<1>4. \A i \in 0 .. n - 1 : LogBytes[lsn + i] = block[(lsn + i) % RingSize]
  BY <1>1, <1>2 DEF LogBytes
<1>. QED  BY <1>1, <1>2, <1>3, <1>4 DEF Log!Read, LogBytes

LEMMA LogStep == IInv /\ [Next]_vars /\ ~ overrun' => [Log!Next]_(Log!vars)
<1>. SUFFICES ASSUME IInv, [Next]_vars, ~ overrun' PROVE [Log!Next]_(Log!vars)
  OBVIOUS
<1>1. Sizes = 0 .. RingSize
  BY DEF Sizes
<1>2. ASSUME NEW n \in Sizes, ReserveNb(n) \/ ReserveUnsafe(n) PROVE Log!Next
  BY <1>1, <1>2, LogReserve DEF Log!Next
<1>3. ASSUME NEW n \in Sizes, ConsumeNb(n) \/ ConsumeUnsafe(n) PROVE Log!Next
  BY <1>1, <1>3, LogConsume DEF Log!Next
<1>4. ASSUME NEW n \in Sizes, NEW lsn \in 0 .. MaxLsn,
             tracker.tail <= lsn, lsn + n <= tracker.head
      PROVE  lsn \in Log!Window(tracker.tail, tracker.head + 1)
  <2>1. tracker.head \in Nat /\ tracker.tail \in Nat /\ n \in Nat /\ lsn \in Nat
    BY RingAssumption, WordAssumption, RingFacts DEF IInv, TypeOK, TrackerType, Sizes
  <2>. QED  BY <1>4, <2>1 DEF Log!Window
<1>5. ASSUME NEW n \in Sizes, NEW lsn \in 0 .. MaxLsn, NEW bs \in Buf(n),
             Pwrite(n, bs, lsn)
      PROVE  Log!Next
  <2>1. ~ overrun /\ tracker.tail <= lsn /\ lsn + n <= tracker.head
    BY <1>5 DEF Pwrite, Reserved
  <2>2. Log!Write(lsn, n, bs) /\ lsn \in Log!Window(tracker.tail, tracker.head + 1)
    BY <1>4, <1>5, <2>1, LogPwrite
  <2>. QED  BY <1>1, <2>2 DEF Log!Next, Buf
<1>6. ASSUME NEW n \in Sizes, NEW lsn \in 0 .. MaxLsn, Pread(n, lsn)
      PROVE  Log!Next
  <2>1. ~ overrun /\ tracker.tail <= lsn /\ lsn + n <= tracker.head
    BY <1>6 DEF Pread, Reserved
  <2>2. Log!Read(lsn, n) /\ lsn \in Log!Window(tracker.tail, tracker.head + 1)
    BY <1>4, <1>6, <2>1, LogPread
  <2>. QED  BY <1>1, <2>2 DEF Log!Next
<1>7. CASE UNCHANGED vars
  BY <1>7 DEF vars, Log!vars
<1>. QED  BY <1>2, <1>3, <1>5, <1>6, <1>7 DEF Next, NextNb

\* The LSNs of a write are at offsets of the ring, and none behind it.
LEMMA BehindStep == IInv /\ [Next]_vars => \A o \in Behind : block'[o] = block[o]
<1>. SUFFICES ASSUME IInv, [Next]_vars, NEW o \in Behind PROVE block'[o] = block[o]
  OBVIOUS
<1>1. ASSUME NEW n \in Sizes, NEW lsn \in 0 .. MaxLsn, NEW bs \in Buf(n), Pwrite(n, bs, lsn)
      PROVE  block'[o] = block[o]
  <2>1. block' = RingWrite(block, tracker, bs, n, lsn)
    BY <1>1 DEF Pwrite
  <2>2. lsn \in Nat /\ tracker \in TrackerType(RingSize) /\ block \in [Cells -> Bytes]
    BY RingAssumption, WordAssumption DEF IInv, TypeOK
  <2>3. o \in Cells
    BY DEF Cells
  <2>4. ASSUME NEW i \in 0 .. n - 1 PROVE (lsn + i) % RingSize # o
    <3>1. n \in Nat /\ lsn + i \in Nat
      BY <2>2, RingFacts DEF Sizes
    <3>2. (lsn + i) % RingSize \in Offsets
      BY <3>1, RingFacts
    <3>. QED  BY <3>2, RingFacts DEF Offsets, Behind
  <2>. QED  BY <2>1, <2>2, <2>3, <2>4, RingWriteAt
<1>2. ASSUME UNCHANGED block PROVE block'[o] = block[o]
  BY <1>2
<1>. QED
  BY <1>1, <1>2 DEF Next, NextNb, ReserveNb, ReserveUnsafe, ConsumeNb, ConsumeUnsafe, Pread, vars

\* As long as no unsafe call overran the ring, every step is a step of the
\* log: what is reserved is never overwritten, moved or misread.  Also after an
\* overrun, nothing behind the ring is written (ring_buffer.hpp:127-136).
THEOREM LogUntilOverrunCorrect == Spec => LogUntilOverrun
<1>1. IInv /\ [Next]_vars =>
         [/\ ~ overrun' => [Log!Next]_(Log!vars)
          /\ \A o \in Behind : block'[o] = block[o]]_vars
  BY LogStep, BehindStep
<1>. QED  BY <1>1, Invariance, PTL DEF Spec, LogUntilOverrun

\* With the checked calls only, the ring buffer implements the log.
THEOREM Refinement == SpecNb => ImplementsLog
<1>. DEFINE NInv == IInv /\ ~ overrun
<1>1. Init => NInv /\ Log!Init
  BY InitInv, LogInit DEF Init
<1>2. NInv /\ [NextNb]_vars => NInv' /\ [Log!Next]_(Log!vars)
  <2>1. ~ overrun /\ [NextNb]_vars => ~ overrun'
    BY DEF NextNb, ReserveNb, ConsumeNb, Pwrite, Pread, vars
  <2>. QED  BY <2>1, NbSteps, StepInv, LogStep
<1>. QED  BY <1>1, <1>2, PTL DEF SpecNb, ImplementsLog, Log!Spec

-----------------------------------------------------------------------------
(* A flush completes every outstanding Get, for any number of ranks, in    *)
(* any placement, and any number of buffers.  The inductive invariant is   *)
(* that rank_accessed_ accounts for every Get that may be outstanding, and *)
(* that no window target is mistaken for one of its two special values.    *)

\* A rank has no more ranks before it on its node than before it at all, so
\* that the target of a window is a rank.
LEMMA WinTargetIsRank ==
    ASSUME place \in Placements, NEW r \in Ranks
    PROVE  WinTarget(r) \in 0 .. r
<1> DEFINE before == {q \in OnNode(place, r) : q < r}
<1>1. NRanks \in Nat /\ DOMAIN place = Ranks
  BY RpmBlocksAssumption
<1>2. r \in Nat
  BY <1>1 DEF Ranks
<1>3. before \subseteq 0 .. r - 1
  BY <1>1, <1>2 DEF OnNode, Ranks
<1>4. IsFiniteSet(0 .. r - 1) /\ Cardinality(0 .. r - 1) = r
  <2>1. IsFiniteSet(0 .. r - 1)
    BY <1>2, FS_Interval
  <2>2. Cardinality(0 .. r - 1) = IF 0 > r - 1 THEN 0 ELSE (r - 1) - 0 + 1
    BY <1>2, FS_Interval
  <2> QED
    BY <2>1, <2>2, <1>2
<1>5. IsFiniteSet(before) /\ Cardinality(before) <= r
  BY <1>3, <1>4, FS_Subset
<1>6. Cardinality(before) \in Nat
  BY <1>5, FS_CardinalityType
<1> HIDE DEF before
<1>7. WinTarget(r) = r - Cardinality(before)
  BY DEF WinTarget, IntraRank0, IntraRank, before
<1> QED
  BY <1>2, <1>5, <1>6, <1>7

BlocksInv ==
    /\ place \in Placements
    /\ \A g \in gets : g.target \in Nat
    /\ GetsAccounted

LEMMA InitBlocksInv == BlocksInit => BlocksInv
  BY DEF BlocksInit, BlocksInv, GetsAccounted

\* What a Get adds is accounted for, and what was stays so.
LEMMA AccessedCovers ==
    ASSUME BlocksInv, NEW s \in Slots, NEW r \in Ranks
    PROVE  LET all == gets \cup {Get(s, r)}
           IN  /\ \A g \in all : g.target \in Nat
               /\ \A g \in all :
                    Accessed(accessed, WinTarget(r)) \in {g.target, MULTIPLE_RANKS_ACCESSED}
<1>1. WinTarget(r) \in Nat
  <2>1. WinTarget(r) \in 0 .. r
    BY WinTargetIsRank DEF BlocksInv
  <2> QED
    BY <2>1
<1>2. Get(s, r).target = WinTarget(r)
  BY DEF Get, WinGet
<1>3. ASSUME NEW g \in gets
      PROVE  /\ g.target \in Nat
             /\ Accessed(accessed, WinTarget(r)) \in {g.target, MULTIPLE_RANKS_ACCESSED}
  BY <1>1 DEF BlocksInv, GetsAccounted, Accessed, NO_RANK_ACCESSED, MULTIPLE_RANKS_ACCESSED
<1>4. Accessed(accessed, WinTarget(r)) \in {WinTarget(r), MULTIPLE_RANKS_ACCESSED}
  BY DEF Accessed
<1> QED
  BY <1>1, <1>2, <1>3, <1>4

\* A flush waits for all that is accounted for.
LEMMA FlushedAll ==
    ASSUME NEW a, NEW outstanding,
           \A g \in outstanding : a \in {g.target, MULTIPLE_RANKS_ACCESSED}
    PROVE  Flushed(a, outstanding) = outstanding
  BY DEF Flushed, WinFlush

LEMMA StepBlocksInv == BlocksInv /\ [BlocksNext]_blocksVars => BlocksInv'
<1> SUFFICES ASSUME BlocksInv, [BlocksNext]_blocksVars PROVE BlocksInv'
  OBVIOUS
<1>1. ASSUME NEW s \in Slots, NEW r \in Ranks, PreadNoflush(s, r) PROVE BlocksInv'
  <2>1. CASE IsLocalTo(r)
    BY <1>1, <2>1 DEF PreadNoflush, BlocksInv, GetsAccounted
  <2>2. CASE ~ IsLocalTo(r)
    BY <1>1, <2>2, AccessedCovers DEF PreadNoflush, BlocksInv, GetsAccounted
  <2> QED
    BY <2>1, <2>2
<1>2. ASSUME NEW s \in Slots, NEW r \in Ranks, PreadRemote(s, r) PROVE BlocksInv'
  <2>1. gets' = {}
    BY <1>2, AccessedCovers, FlushedAll DEF PreadRemote
  <2> QED
    BY <1>2, <2>1 DEF PreadRemote, BlocksInv, GetsAccounted
<1>3. ASSUME NEW s \in Slots, NEW r \in Ranks, PreadLocal(s, r) PROVE BlocksInv'
  <2>1. gets' = {}
    BY <1>3, FlushedAll DEF PreadLocal, BlocksInv, GetsAccounted
  <2> QED
    BY <1>3, <2>1 DEF PreadLocal, BlocksInv, GetsAccounted
<1>4. ASSUME Flush PROVE BlocksInv'
  <2>1. gets' = {}
    BY <1>4, FlushedAll DEF Flush, BlocksInv, GetsAccounted
  <2> QED
    BY <1>4, <2>1 DEF Flush, BlocksInv, GetsAccounted
<1>5. ASSUME Lands PROVE BlocksInv'
  BY <1>5 DEF Lands, BlocksInv, GetsAccounted
<1>6. CASE UNCHANGED blocksVars
  BY <1>6 DEF blocksVars, BlocksInv, GetsAccounted
<1> QED
  BY <1>1, <1>2, <1>3, <1>4, <1>5, <1>6 DEF BlocksNext

\* rank_accessed_ accounts for every outstanding Get (rpm.hpp:172-185).
THEOREM Accounted == BlocksSpec => []GetsAccounted
<1>1. BlocksInv => GetsAccounted
  BY DEF BlocksInv
<1> QED
  BY <1>1, InitBlocksInv, StepBlocksInv, PTL DEF BlocksSpec

\* No Get is outstanding after a flush (rpm.hpp:187-194), whether it waits for
\* one target or for all, and whichever file or handler started the Get.
THEOREM FlushCompletesAll == BlocksSpec => FlushCompletes
<1>1. BlocksInv /\ [BlocksNext]_blocksVars => [Flush => gets' = {}]_blocksVars
  <2> SUFFICES ASSUME BlocksInv, Flush PROVE gets' = {}
    OBVIOUS
  <2>1. Flushed(accessed, gets) = gets
    BY FlushedAll DEF BlocksInv, GetsAccounted
  <2> QED
    BY <2>1 DEF Flush
<1> QED
  BY <1>1, InitBlocksInv, StepBlocksInv, PTL DEF BlocksSpec, FlushCompletes

-----------------------------------------------------------------------------
(* The tables of the topology are right for every placement.  All of them  *)
(* are positions in sets of ranks: that of a rank among the ranks of its   *)
(* node, and that of a rank among those with its position on their nodes.  *)

Below(S, r) == Cardinality({q \in S : q < r})

LEMMA SmallestExists ==
    ASSUME NEW S \in SUBSET Nat, S # {}
    PROVE  \E n \in S : \A m \in S : n <= m
<1>1. PICK n \in S : \A m \in S : ~ (<<m, n>> \in OpToRel(<, Nat))
  BY NatLessThanWellFounded, WFMin
<1>2. ASSUME NEW m \in S PROVE n <= m
  <2>1. <<m, n>> \in Nat \X Nat /\ <<m, n>>[1] = m /\ <<m, n>>[2] = n
    OBVIOUS
  <2> QED
    BY <1>1, <2>1 DEF OpToRel
<1> QED
  BY <1>2

\* What is counted by an injection, and by one onto all.
LEMMA Counting ==
    ASSUME NEW S, NEW T, IsFiniteSet(T), NEW f \in [S -> T],
           \A x, y \in S : f[x] = f[y] => x = y
    PROVE  /\ IsFiniteSet(S)
           /\ Cardinality(S) <= Cardinality(T)
           /\ (\A t \in T : \E x \in S : f[x] = t) <=> Cardinality(S) = Cardinality(T)
<1>1. f \in Injection(S, T)
  <2>1. DOMAIN f = S
    OBVIOUS
  <2>2. IsInjective(f)
    BY <2>1 DEF IsInjective
  <2> QED
    BY <2>2 DEF Injection
<1>2. f \in Surjection(S, T) <=> \A t \in T : \E x \in S : f[x] = t
  BY DEF Surjection
<1> QED
  BY <1>1, <1>2, FS_Injection

\* Each position in a set is that of one of its members.
LEMMA Positions ==
    ASSUME NEW S \in SUBSET Nat, IsFiniteSet(S)
    PROVE  /\ \A r \in S : Below(S, r) \in 0 .. Cardinality(S) - 1
           /\ \A q, r \in S : Below(S, q) = Below(S, r) => q = r
           /\ \A k \in 0 .. Cardinality(S) - 1 : \E r \in S : Below(S, r) = k
<1>1. PICK n : n = Cardinality(S)
  OBVIOUS
<1>2. n \in Nat
  BY <1>1, FS_CardinalityType
<1>3. ASSUME NEW r \in S PROVE Below(S, r) \in 0 .. n - 1
  <2>1. PICK U : U = {q \in S : q < r}
    OBVIOUS
  <2>2. U \subseteq S \ {r}
    BY <2>1
  <2>3. IsFiniteSet(S \ {r}) /\ Cardinality(S \ {r}) = n - 1
    <3>1. IsFiniteSet(S \ {r})
      BY FS_RemoveElement
    <3>2. Cardinality(S \ {r}) = IF r \in S THEN Cardinality(S) - 1 ELSE Cardinality(S)
      BY FS_RemoveElement, Zenon
    <3> QED
      BY <1>1, <3>1, <3>2
  <2>4. IsFiniteSet(U) /\ Cardinality(U) <= n - 1
    <3>1. IsFiniteSet(U) /\ Cardinality(U) <= Cardinality(S \ {r})
      BY <2>2, <2>3, FS_Subset, Zenon
    <3> QED
      BY <2>3, <3>1
  <2>5. Cardinality(U) \in Nat
    BY <2>4, FS_CardinalityType
  <2> QED
    BY <1>2, <2>1, <2>4, <2>5 DEF Below
<1>4. ASSUME NEW q \in S, NEW r \in S, q < r PROVE Below(S, q) # Below(S, r)
  <2>1. PICK U, V : U = {s \in S : s < q} /\ V = {s \in S : s < r}
    OBVIOUS
  <2>2. U \subseteq V /\ q \in V /\ q \notin U /\ V \subseteq S
    <3>1. q \in Nat /\ r \in Nat /\ \A s \in S : s \in Nat
      OBVIOUS
    <3>2. \A s \in S : s < q => s < r
      BY <1>4, <3>1
    <3>3. U \subseteq V
      BY <2>1, <3>2
    <3>4. q \in V /\ V \subseteq S
      BY <1>4, <2>1
    <3>5. q \notin U
      BY <2>1, <3>1
    <3> QED
      BY <3>3, <3>4, <3>5
  <2>3. IsFiniteSet(V)
    BY <2>2, FS_Subset
  <2>4. Cardinality(U) = Cardinality(V) => U = V
    BY <2>2, <2>3, FS_Subset
  <2> QED
    BY <2>1, <2>2, <2>4 DEF Below
<1>5. \A q, r \in S : Below(S, q) = Below(S, r) => q = r
  <2>1. \A q, r \in S : q < r \/ r < q \/ q = r
    OBVIOUS
  <2> QED
    BY <1>4, <2>1
<1>6. \A k \in 0 .. n - 1 : \E r \in S : Below(S, r) = k
  <2>1. PICK f : f = [r \in S |-> Below(S, r)]
    OBVIOUS
  <2>2. f \in [S -> 0 .. n - 1] /\ \A q, r \in S : f[q] = f[r] => q = r
    BY <1>3, <1>5, <2>1
  <2>3. IsFiniteSet(0 .. n - 1) /\ Cardinality(0 .. n - 1) = n
    <3>1. IsFiniteSet(0 .. n - 1)
          /\ Cardinality(0 .. n - 1) = IF 0 > n - 1 THEN 0 ELSE (n - 1) - 0 + 1
      BY <1>2, FS_Interval
    <3> QED
      BY <1>2, <3>1
  <2>4. \A k \in 0 .. n - 1 : \E r \in S : f[r] = k
    <3>1. PICK T : T = 0 .. n - 1
      OBVIOUS
    <3>2. /\ f \in [S -> T]
          /\ \A x, y \in S : f[x] = f[y] => x = y
          /\ IsFiniteSet(T) /\ Cardinality(T) = n
      BY <2>2, <2>3, <3>1
    <3>3. (\A t \in T : \E x \in S : f[x] = t) <=> Cardinality(S) = Cardinality(T)
      BY <3>2, Counting
    <3> QED
      BY <1>1, <3>1, <3>2, <3>3
  <2> QED
    BY <2>1, <2>4
<1> QED
  BY <1>1, <1>3, <1>5, <1>6

LEMMA RanksAre == NRanks \in Nat \ {0} /\ IsFiniteSet(Ranks) /\ Ranks \subseteq Nat
<1>1. NRanks \in Nat \ {0}
  BY RpmBlocksAssumption
<1>2. IsFiniteSet(0 .. NRanks - 1)
  BY <1>1, FS_Interval
<1> QED
  BY <1>1, <1>2 DEF Ranks

LEMMA SmallerRank ==
    ASSUME NEW r \in Ranks, NEW x \in Nat, x < r
    PROVE  x \in Ranks
  BY RanksAre DEF Ranks

\* Intra ranks are the positions on a node; inter ranks those among the ranks of
\* one intra rank; together they name a rank.
LEMMA Pairs ==
    ASSUME NEW p, DOMAIN p = Ranks
    PROVE  /\ \A r \in Ranks : /\ IntraRank(p, r) \in 0 .. IntraSize(p, r) - 1
                               /\ InterRank(p, r) \in 0 .. Cardinality(Peers(p, r)) - 1
                               /\ IntraSize(p, r) \in Nat
           /\ \A q, r \in Ranks : p[q] = p[r] /\ IntraRank(p, q) = IntraRank(p, r) => q = r
           /\ \A q, r \in Ranks : RankPair(p, q) = RankPair(p, r) => q = r
           /\ \A r \in Ranks : \A k \in 0 .. IntraSize(p, r) - 1 :
                 \E q \in Ranks : p[q] = p[r] /\ IntraRank(p, q) = k
           /\ \A r \in Ranks : \A k \in 0 .. Cardinality(Peers(p, r)) - 1 :
                 \E q \in Peers(p, r) : InterRank(p, q) = k
<1>1. ASSUME NEW r \in Ranks
      PROVE  /\ OnNode(p, r) \in SUBSET Nat /\ IsFiniteSet(OnNode(p, r)) /\ r \in OnNode(p, r)
             /\ Peers(p, r) \in SUBSET Nat /\ IsFiniteSet(Peers(p, r)) /\ r \in Peers(p, r)
             /\ IntraSize(p, r) = Cardinality(OnNode(p, r)) /\ IntraSize(p, r) \in Nat
  <2>1. OnNode(p, r) \subseteq Ranks /\ r \in OnNode(p, r)
    BY DEF OnNode
  <2>2. Peers(p, r) \subseteq Ranks /\ r \in Peers(p, r)
    BY DEF Peers
  <2>3. IsFiniteSet(OnNode(p, r)) /\ IsFiniteSet(Peers(p, r))
    BY <2>1, <2>2, RanksAre, FS_Subset
  <2>4. Cardinality(OnNode(p, r)) \in Nat
    BY <2>3, FS_CardinalityType
  <2> QED
    BY <2>1, <2>2, <2>3, <2>4, RanksAre DEF IntraSize
<1>2. ASSUME NEW r \in Ranks, NEW q \in OnNode(p, r)
      PROVE  q \in Ranks /\ p[q] = p[r] /\ IntraRank(p, q) = Below(OnNode(p, r), q)
  <2>1. q \in Ranks /\ p[q] = p[r]
    BY DEF OnNode
  <2>2. OnNode(p, q) = OnNode(p, r)
    BY <2>1 DEF OnNode
  <2> QED
    BY <2>1, <2>2 DEF IntraRank, Below
<1>3. ASSUME NEW r \in Ranks, NEW q \in Peers(p, r)
      PROVE  q \in Ranks /\ InterRank(p, q) = Below(Peers(p, r), q)
  <2>1. q \in Ranks /\ IntraRank(p, q) = IntraRank(p, r)
    BY DEF Peers
  <2>2. Peers(p, q) = Peers(p, r)
    BY <2>1 DEF Peers
  <2> QED
    BY <2>1, <2>2 DEF InterRank, Below
<1>4. ASSUME NEW r \in Ranks
      PROVE  /\ IntraRank(p, r) \in 0 .. IntraSize(p, r) - 1
             /\ InterRank(p, r) \in 0 .. Cardinality(Peers(p, r)) - 1
             /\ IntraSize(p, r) \in Nat
  <2>1. Below(OnNode(p, r), r) \in 0 .. Cardinality(OnNode(p, r)) - 1
    BY <1>1, Positions
  <2>2. Below(Peers(p, r), r) \in 0 .. Cardinality(Peers(p, r)) - 1
    BY <1>1, Positions
  <2> QED
    BY <1>1, <1>2, <1>3, <2>1, <2>2
<1>5. ASSUME NEW q \in Ranks, NEW r \in Ranks, p[q] = p[r], IntraRank(p, q) = IntraRank(p, r)
      PROVE  q = r
  <2>1. q \in OnNode(p, r) /\ r \in OnNode(p, r)
    BY <1>5 DEF OnNode
  <2>2. Below(OnNode(p, r), q) = Below(OnNode(p, r), r)
    BY <1>2, <1>5, <2>1
  <2> QED
    BY <1>1, <2>1, <2>2, Positions
<1>6. ASSUME NEW q \in Ranks, NEW r \in Ranks, RankPair(p, q) = RankPair(p, r)
      PROVE  q = r
  <2>1. InterRank(p, q) = InterRank(p, r) /\ IntraRank(p, q) = IntraRank(p, r)
    BY <1>6 DEF RankPair
  <2>2. q \in Peers(p, r) /\ r \in Peers(p, r)
    BY <2>1 DEF Peers
  <2>3. Below(Peers(p, r), q) = Below(Peers(p, r), r)
    BY <1>3, <2>1, <2>2
  <2> QED
    BY <1>1, <2>2, <2>3, Positions
<1>7. ASSUME NEW r \in Ranks, NEW k \in 0 .. IntraSize(p, r) - 1
      PROVE  \E q \in Ranks : p[q] = p[r] /\ IntraRank(p, q) = k
  <2>1. PICK q \in OnNode(p, r) : Below(OnNode(p, r), q) = k
    BY <1>1, Positions
  <2> QED
    BY <1>2, <2>1
<1>8. ASSUME NEW r \in Ranks, NEW k \in 0 .. Cardinality(Peers(p, r)) - 1
      PROVE  \E q \in Peers(p, r) : InterRank(p, q) = k
  <2>1. PICK q \in Peers(p, r) : Below(Peers(p, r), q) = k
    BY <1>1, Positions
  <2> QED
    BY <1>3, <2>1
<1> QED
  BY <1>4, <1>5, <1>6, <1>7, <1>8

\* rank_pair2global_rank is the inverse of global2rank_pair (topology.hpp:64-91).
LEMMA RankOfPair ==
    ASSUME NEW p, DOMAIN p = Ranks, NEW r \in Ranks
    PROVE  RankOf(p, InterRank(p, r), IntraRank(p, r)) = r
<1>1. RankPair(p, r) = <<InterRank(p, r), IntraRank(p, r)>>
  BY DEF RankPair
<1>2. \A q \in Ranks : RankPair(p, q) = <<InterRank(p, r), IntraRank(p, r)>> => q = r
  BY <1>1, Pairs
<1> QED
  BY <1>1, <1>2 DEF RankOf

\* The inter ranks count the nodes (topology.hpp:116-122).
LEMMA NodesCounted ==
    ASSUME NEW p, DOMAIN p = Ranks
    PROVE  NNodes(p) = Cardinality({p[r] : r \in Ranks})
<1>1. PICK Nodes, M : Nodes = {p[r] : r \in Ranks} /\ M = Cardinality(Nodes)
  OBVIOUS
<1>2. IsFiniteSet(Nodes) /\ M \in Nat
  <2>1. PICK f : f = [r \in Ranks |-> p[r]]
    OBVIOUS
  <2>2. f \in Surjection(Ranks, Nodes)
    BY <1>1, <2>1 DEF Surjection
  <2>3. IsFiniteSet(Nodes)
    BY <2>2, RanksAre, FS_Surjection
  <2> QED
    BY <1>1, <2>3, FS_CardinalityType
\* The ranks with one intra rank are on different nodes.
<1>3. ASSUME NEW r \in Ranks
      PROVE  /\ Cardinality(Peers(p, r)) <= M
             /\ IntraRank(p, r) = 0 => Cardinality(Peers(p, r)) = M
  <2>1. PICK P : P = Peers(p, r)
    OBVIOUS
  <2>2. PICK f : f = [q \in P |-> p[q]]
    OBVIOUS
  <2>3. \A q \in P : q \in Ranks /\ IntraRank(p, q) = IntraRank(p, r)
    BY <2>1 DEF Peers
  <2>4. f \in [P -> Nodes] /\ \A x, y \in P : f[x] = f[y] => x = y
    <3>1. f \in [P -> Nodes]
      BY <1>1, <2>2, <2>3
    <3>2. \A x, y \in P : f[x] = f[y] => x = y
      BY <2>2, <2>3, Pairs
    <3> QED
      BY <3>1, <3>2
  <2>5. ASSUME IntraRank(p, r) = 0, NEW t \in Nodes PROVE \E q \in P : f[q] = t
    <3>1. PICK s \in Ranks : t = p[s]
      BY <1>1
    <3>2. 0 \in 0 .. IntraSize(p, s) - 1
      BY Pairs
    <3>3. PICK q \in Ranks : p[q] = p[s] /\ IntraRank(p, q) = 0
      BY <3>2, Pairs
    <3>4. q \in P
      BY <2>1, <2>5, <3>3 DEF Peers
    <3> QED
      BY <2>2, <3>1, <3>3, <3>4
  <2> QED
    BY <1>1, <1>2, <2>1, <2>4, <2>5, Counting
<1>4. PICK I : I = {InterRank(p, r) : r \in Ranks}
  OBVIOUS
<1>5. I \subseteq 0 .. M - 1
  <2> SUFFICES ASSUME NEW r \in Ranks PROVE InterRank(p, r) \in 0 .. M - 1
    BY <1>4
  <2>1. PICK c : c = Cardinality(Peers(p, r))
    OBVIOUS
  <2>2. InterRank(p, r) \in 0 .. c - 1 /\ c <= M /\ c \in Nat
    <3>1. IsFiniteSet(Peers(p, r))
      BY RanksAre, FS_Subset DEF Peers
    <3>2. c \in Nat
      BY <2>1, <3>1, FS_CardinalityType
    <3> QED
      BY <1>3, <2>1, <3>2, Pairs
  <2> QED
    BY <1>2, <2>2
<1>6. 0 .. M - 1 \subseteq I
  <2> SUFFICES ASSUME NEW k \in 0 .. M - 1 PROVE k \in I
    OBVIOUS
  <2>1. 0 \in Ranks
    BY RanksAre DEF Ranks
  <2>2. 0 \in 0 .. IntraSize(p, 0) - 1
    BY <2>1, Pairs
  <2>3. PICK r \in Ranks : IntraRank(p, r) = 0
    BY <2>1, <2>2, Pairs
  <2>4. Cardinality(Peers(p, r)) = M
    BY <1>3, <2>3
  <2>5. PICK q \in Peers(p, r) : InterRank(p, q) = k
    BY <2>4, Pairs
  <2> QED
    BY <1>4, <2>5 DEF Peers
<1>7. Cardinality(0 .. M - 1) = M
  <2>1. Cardinality(0 .. M - 1) = IF 0 > M - 1 THEN 0 ELSE (M - 1) - 0 + 1
    BY <1>2, FS_Interval
  <2> QED
    BY <1>2, <2>1
<1>8. I = 0 .. M - 1
  BY <1>5, <1>6
<1> QED
  BY <1>1, <1>4, <1>7, <1>8 DEF NNodes

\* The most ranks with one inter rank are those of the largest node
\* (topology.hpp:124-133).
LEMMA MostCounted ==
    ASSUME NEW p, DOMAIN p = Ranks
    PROVE  /\ \A r \in Ranks : IntraSize(p, r) <= MaxPpn(p)
           /\ \E r \in Ranks : IntraSize(p, r) = MaxPpn(p)
<1>1. PICK largest \in Ranks : \A r \in Ranks : IntraSize(p, r) <= IntraSize(p, largest)
  <2>1. \A r \in Ranks : IntraSize(p, r) \in 0 .. NRanks
    <3> SUFFICES ASSUME NEW r \in Ranks PROVE IntraSize(p, r) \in 0 .. NRanks
      OBVIOUS
    <3>1. OnNode(p, r) \subseteq Ranks
      BY DEF OnNode
    <3>2. Cardinality(OnNode(p, r)) <= Cardinality(Ranks)
      BY <3>1, RanksAre, FS_Subset
    <3>3. Cardinality(Ranks) = NRanks
      <4>1. Cardinality(0 .. NRanks - 1) = IF 0 > NRanks - 1 THEN 0 ELSE (NRanks - 1) - 0 + 1
        BY RanksAre, FS_Interval
      <4> QED
        BY <4>1, RanksAre DEF Ranks
    <3>4. IntraSize(p, r) \in Nat /\ IntraSize(p, r) = Cardinality(OnNode(p, r))
      BY Pairs DEF IntraSize
    <3> QED
      BY <3>2, <3>3, <3>4, RanksAre
  <2>2. PICK S : S = {NRanks - IntraSize(p, r) : r \in Ranks}
    OBVIOUS
  <2>3. S \in SUBSET Nat
    <3>1. \A n \in 0 .. NRanks : NRanks - n \in Nat
      BY RanksAre
    <3> QED
      BY <2>1, <2>2, <3>1
  <2>4. 0 \in Ranks
    BY RanksAre DEF Ranks
  <2>5. S # {}
    BY <2>2, <2>4
  <2>6. PICK n \in S : \A m \in S : n <= m
    BY <2>3, <2>5, SmallestExists
  <2>7. PICK q \in Ranks : n = NRanks - IntraSize(p, q)
    BY <2>2
  <2>8. ASSUME NEW r \in Ranks PROVE IntraSize(p, r) <= IntraSize(p, q)
    <3>1. NRanks - IntraSize(p, q) <= NRanks - IntraSize(p, r)
      BY <2>2, <2>6, <2>7
    <3>2. PICK a, b \in 0 .. NRanks : a = IntraSize(p, q) /\ b = IntraSize(p, r)
      BY <2>1
    <3> QED
      BY <3>1, <3>2, RanksAre
  <2> QED
    BY <2>8
<1>2. PICK M \in Nat : M = IntraSize(p, largest)
  BY Pairs
<1>3. IsFiniteSet(0 .. M - 1) /\ Cardinality(0 .. M - 1) = M
  <2>1. /\ IsFiniteSet(0 .. M - 1)
        /\ Cardinality(0 .. M - 1) = IF 0 > M - 1 THEN 0 ELSE (M - 1) - 0 + 1
    BY FS_Interval
  <2> QED
    BY <2>1
<1> DEFINE ppn(i) == Cardinality({r \in Ranks : InterRank(p, r) = i})
\* The ranks with one inter rank have different intra ranks.
<1>4. ASSUME NEW i
      PROVE  /\ ppn(i) <= M
             /\ (\A k \in 0 .. M - 1 :
                    \E r \in Ranks : InterRank(p, r) = i /\ IntraRank(p, r) = k) => ppn(i) = M
  <2>1. PICK Z : Z = {r \in Ranks : InterRank(p, r) = i}
    OBVIOUS
  <2>2. PICK f : f = [r \in Z |-> IntraRank(p, r)]
    OBVIOUS
  <2>3. f \in [Z -> 0 .. M - 1]
    <3> SUFFICES ASSUME NEW r \in Ranks PROVE IntraRank(p, r) \in 0 .. M - 1
      BY <2>1, <2>2
    <3>1. PICK s \in Nat : s = IntraSize(p, r)
      BY Pairs
    <3>2. IntraRank(p, r) \in 0 .. s - 1 /\ s <= M
      BY <1>1, <1>2, <3>1, Pairs
    <3> QED
      BY <3>2
  <2>4. \A x, y \in Z : f[x] = f[y] => x = y
    <3> SUFFICES ASSUME NEW x \in Z, NEW y \in Z, f[x] = f[y] PROVE x = y
      OBVIOUS
    <3>1. RankPair(p, x) = RankPair(p, y) /\ x \in Ranks /\ y \in Ranks
      BY <2>1, <2>2 DEF RankPair
    <3> QED
      BY <3>1, Pairs
  <2>5. /\ Cardinality(Z) <= Cardinality(0 .. M - 1)
        /\ (\A k \in 0 .. M - 1 : \E x \in Z : f[x] = k) => Cardinality(Z) = Cardinality(0 .. M - 1)
    BY <1>3, <2>3, <2>4, Counting
  <2>6. ASSUME \A k \in 0 .. M - 1 : \E r \in Ranks : InterRank(p, r) = i /\ IntraRank(p, r) = k
        PROVE  \A k \in 0 .. M - 1 : \E x \in Z : f[x] = k
    BY <2>1, <2>2, <2>6
  <2> QED
    BY <1>3, <2>1, <2>5, <2>6
<1>5. ASSUME NEW k \in 0 .. M - 1
      PROVE  \E r \in Ranks : InterRank(p, r) = 0 /\ IntraRank(p, r) = k
  <2>1. PICK q \in Ranks : IntraRank(p, q) = k
    BY <1>2, Pairs
  <2>2. 0 \in 0 .. Cardinality(Peers(p, q)) - 1
    <3>1. PICK c : c = Cardinality(Peers(p, q))
      OBVIOUS
    <3>2. InterRank(p, q) \in 0 .. c - 1
      BY <3>1, Pairs
    <3>3. c \in Nat
      <4>1. IsFiniteSet(Peers(p, q))
        BY RanksAre, FS_Subset DEF Peers
      <4> QED
        BY <3>1, <4>1, FS_CardinalityType
    <3> QED
      BY <3>1, <3>2, <3>3
  <2>3. PICK r \in Peers(p, q) : InterRank(p, r) = 0
    BY <2>2, Pairs
  <2> QED
    BY <2>1, <2>3 DEF Peers
<1>6. ppn(0) = M
  BY <1>4, <1>5
<1>7. PICK z \in Ranks : InterRank(p, z) = 0
  <2>1. 0 \in 0 .. M - 1
    <3>1. IntraRank(p, largest) \in 0 .. M - 1
      BY <1>2, Pairs
    <3> QED
      BY <3>1
  <2> QED
    BY <1>5, <2>1
<1>8. /\ M \in {ppn(InterRank(p, r)) : r \in Ranks}
      /\ \A r \in Ranks : ppn(InterRank(p, r)) <= M
  BY <1>4, <1>6, <1>7
<1>9. ASSUME NEW n \in {ppn(InterRank(p, r)) : r \in Ranks}, \A r \in Ranks : ppn(InterRank(p, r)) <= n
      PROVE  n = M
  <2>1. n <= M /\ M <= n
    BY <1>6, <1>7, <1>8, <1>9
  <2>2. PICK r \in Ranks : n = ppn(InterRank(p, r))
    OBVIOUS
  <2>3. IsFiniteSet({q \in Ranks : InterRank(p, q) = InterRank(p, r)})
    BY RanksAre, FS_Subset
  <2>4. n \in Nat
    BY <2>2, <2>3, FS_CardinalityType
  <2> QED
    BY <2>1, <2>4
<1>10. MaxPpn(p) = CHOOSE n \in {ppn(InterRank(p, r)) : r \in Ranks} :
                       \A r \in Ranks : ppn(InterRank(p, r)) <= n
  BY DEF MaxPpn
<1> HIDE DEF ppn
<1>11. MaxPpn(p) = M
  BY <1>8, <1>9, <1>10
<1> QED
  BY <1>1, <1>2, <1>11

\* The tables of topology.hpp are right for any number of ranks however they are
\* placed, also when nodes have different numbers of ranks (topology.hpp:64-133).
THEOREM TablesAlwaysRight == BlocksSpec => []TablesRight
<1>1. WrongTables = {}
  <2> SUFFICES ASSUME NEW p \in [Ranks -> Ranks]
               PROVE  /\ \A r \in Ranks : RankOf(p, InterRank(p, r), IntraRank(p, r)) = r
                      /\ NNodes(p) = Cardinality({p[r] : r \in Ranks})
                      /\ \A r \in Ranks : IntraSize(p, r) <= MaxPpn(p)
                      /\ \E r \in Ranks : IntraSize(p, r) = MaxPpn(p)
    BY DEF WrongTables
  <2>1. DOMAIN p = Ranks
    OBVIOUS
  <2> QED
    BY <2>1, RankOfPair, NodesCounted, MostCounted
<1> DEFINE Placed == place \in Placements /\ me \in Ranks
<1>2. BlocksInit => Placed
  BY DEF BlocksInit
<1>3. Placed /\ [BlocksNext]_blocksVars => Placed'
  BY DEF BlocksNext, blocksVars, PreadNoflush, PreadRemote, PreadLocal, Flush, Lands
<1>4. Placed => TablesRight
  BY <1>1, RankOfPair, RpmBlocksAssumption DEF TablesRight
<1> QED
  BY <1>2, <1>3, <1>4, PTL DEF BlocksSpec

-----------------------------------------------------------------------------
(* If the nodes have the same number of ranks, one node's after the        *)
(* other's, reads of blocks are the reads of AsyncReads: the tables name   *)
(* the block that was asked for, and a buffer has one Get at a time.       *)

\* The nodes have n ranks each, in the order of the ranks, and every rank has
\* a block, if only of one unit.
EvenlyFilled ==
    \A p \in Placements : \E n \in 1 .. MapSize :
        /\ NRanks % n = 0
        /\ \A q, r \in Ranks : p[q] = p[r] <=> q \div n = r \div n

LEMMA DivMod ==
    ASSUME NEW n \in Nat \ {0}, NEW q \in Int, NEW s \in 0 .. n - 1
    PROVE  (n * q + s) \div n = q /\ (n * q + s) % n = s
<1> DEFINE x == n * q + s
<1>1. x \in Int /\ x \div n \in Int /\ x = n * (x \div n) + (x % n) /\ x % n \in 0 .. n - 1
  <2>1. x \in Int
    OBVIOUS
  <2> HIDE DEF x
  <2>2. x \div n \in Int /\ x = n * (x \div n) + (x % n)
    BY <2>1, Division
  <2>3. x % n \in 0 .. n - 1
    BY <2>1, ModRange
  <2> QED
    BY <2>1, <2>2, <2>3
<1> HIDE DEF x
<1>2. n * (x \div n) + (x % n) = n * q + s
  BY <1>1 DEF x
<1>3. x % n = s
  BY <1>1, <1>2, QuotientUnique
<1>4. PICK d : d = x \div n
  OBVIOUS
<1>5. d \in Int /\ n * (d - q) = 0 /\ n * (q - d) = 0
  BY <1>1, <1>2, <1>3, <1>4
<1>6. ~ (d - q >= 1) /\ ~ (q - d >= 1)
  BY <1>5, MulPos
<1>7. d = q
  BY <1>5, <1>6
<1> QED
  BY <1>3, <1>4, <1>7 DEF x

\* A product grows with its second factor.
LEMMA MulNat ==
    ASSUME NEW n \in Nat, NEW j \in Nat
    PROVE  n * j \in Nat
  OBVIOUS

LEMMA MulGrows ==
    ASSUME NEW n \in Nat \ {0}, NEW a \in Int, NEW b \in Int, a < b
    PROVE  n * a + n <= n * b
<1>1. b - a \in Int /\ b - a >= 1
  OBVIOUS
<1>2. n * (b - a) >= n
  BY <1>1, MulPos
<1> QED
  BY <1>2

\* The numbers from a on, c of them.
LEMMA IntervalHas ==
    ASSUME NEW a \in Int, NEW c \in Nat
    PROVE  IsFiniteSet(a .. a + c - 1) /\ Cardinality(a .. a + c - 1) = c
<1>1. a + c - 1 \in Int
  OBVIOUS
<1>2. /\ IsFiniteSet(a .. a + c - 1)
      /\ Cardinality(a .. a + c - 1) = IF a > a + c - 1 THEN 0 ELSE (a + c - 1) - a + 1
  BY <1>1, FS_Interval
<1> QED
  BY <1>2

LEMMA EvenIntra ==
    ASSUME NEW p, DOMAIN p = Ranks, NEW n \in Nat \ {0}, NRanks % n = 0,
           \A q, r \in Ranks : p[q] = p[r] <=> q \div n = r \div n,
           NEW r \in Ranks
    PROVE  /\ IntraRank(p, r) = r % n /\ IntraSize(p, r) = n
           /\ r = n * (r \div n) + (r % n) /\ r \div n \in Nat /\ r % n \in 0 .. n - 1
<1>1. PICK k, i, m : k = r \div n /\ i = r % n /\ m = NRanks \div n
  OBVIOUS
<1>2. r \in Nat /\ r < NRanks /\ NRanks \in Nat
  BY RanksAre DEF Ranks
<1>3. /\ k \in Int /\ i \in 0 .. n - 1 /\ r = n * k + i
      /\ m \in Int /\ NRanks = n * m
  <2>1. NRanks \in Int /\ r \in Int
    BY <1>2
  <2>2. k \in Int /\ i \in 0 .. n - 1 /\ r = n * k + i
    BY <1>1, <2>1, Division, ModRange
  <2>3. m \in Int /\ NRanks = n * m + (NRanks % n)
    BY <1>1, <2>1, Division
  <2>4. n * m \in Int
    BY <2>3
  <2> QED
    BY <2>2, <2>3, <2>4
<1>4. k < m
  <2> SUFFICES ASSUME ~ k < m PROVE FALSE
    OBVIOUS
  <2>1. k = m \/ m < k
    BY <1>3
  <2>2. CASE k = m
    BY <1>2, <1>3, <2>2
  <2>3. CASE m < k
    <3>1. n * m + n <= n * k
      BY <1>3, <2>3, MulGrows
    <3>2. n * m \in Int /\ n * k \in Int
      BY <1>3
    <3> QED
      BY <1>2, <1>3, <3>1, <3>2
  <2> QED
    BY <2>1, <2>2, <2>3
<1>5. k \in Nat
  <2> SUFFICES ASSUME k < 0 PROVE FALSE
    BY <1>3
  <2>1. n * k + n <= n * 0
    BY <1>3, MulGrows
  <2>2. n * k \in Int /\ n * 0 = 0
    BY <1>3
  <2> QED
    BY <1>2, <1>3, <2>1, <2>2
<1>6. PICK a : a = n * k
  OBVIOUS
<1>7. a \in Nat /\ a + n <= NRanks /\ r = a + i
  <2>1. n * k + n <= n * m
    BY <1>3, <1>4, MulGrows
  <2> QED
    BY <1>3, <1>5, <1>6, <2>1
<1>8. \A q \in Ranks : q \div n = k <=> q \in a .. a + n - 1
  <2> SUFFICES ASSUME NEW q \in Ranks PROVE q \div n = k <=> q \in a .. a + n - 1
    OBVIOUS
  <2>1. q \in Int /\ q % n \in 0 .. n - 1 /\ q = n * (q \div n) + (q % n)
    BY RanksAre, Division, ModRange
  <2>2. ASSUME q \div n = k PROVE q \in a .. a + n - 1
    <3>1. q = a + (q % n)
      BY <1>6, <2>1, <2>2
    <3> QED
      BY <1>7, <2>1, <3>1
  <2>3. ASSUME q \in a .. a + n - 1 PROVE q \div n = k
    <3>1. q - a \in 0 .. n - 1
      BY <1>7, <2>1, <2>3
    <3>2. (n * k + (q - a)) \div n = k
      BY <1>3, <3>1, DivMod
    <3>3. n * k + (q - a) = q
      <4>1. a + (q - a) = q
        BY <1>7, <2>1
      <4> QED
        BY <1>6, <4>1
    <3> QED
      BY <3>2, <3>3
  <2> QED
    BY <2>2, <2>3
<1>9. OnNode(p, r) = a .. a + n - 1
  <2>1. \A q \in a .. a + n - 1 : q \in Ranks
    BY <1>2, <1>7 DEF Ranks
  <2>2. OnNode(p, r) = {q \in Ranks : q \div n = k}
    BY <1>1 DEF OnNode
  <2> QED
    BY <1>8, <2>1, <2>2
<1>10. IntraSize(p, r) = n
  <2>1. Cardinality(a .. a + n - 1) = n
    BY <1>7, IntervalHas
  <2> QED
    BY <1>9, <2>1 DEF IntraSize
<1>11. IntraRank(p, r) = i
  <2>1. {q \in a .. a + n - 1 : q < r} = a .. a + i - 1
    <3>1. n \in Nat /\ i \in Nat /\ i < n /\ a \in Nat /\ r = a + i
      BY <1>3, <1>7
    <3>2. \A q : q \in a .. a + n - 1 /\ q < r <=> q \in a .. a + i - 1
      BY <3>1
    <3> QED
      BY <3>2
  <2>2. Cardinality(a .. a + i - 1) = i
    BY <1>3, <1>7, IntervalHas
  <2> QED
    BY <1>9, <2>1, <2>2 DEF IntraRank
<1> QED
  BY <1>1, <1>3, <1>5, <1>10, <1>11

LEMMA EvenInter ==
    ASSUME NEW p, DOMAIN p = Ranks, NEW n \in Nat \ {0}, NRanks % n = 0,
           \A q, r \in Ranks : p[q] = p[r] <=> q \div n = r \div n,
           NEW r \in Ranks
    PROVE  InterRank(p, r) = r \div n
<1>1. \A q \in Ranks : /\ IntraRank(p, q) = q % n
                       /\ q = n * (q \div n) + (q % n) /\ q \div n \in Nat /\ q % n \in 0 .. n - 1
  BY EvenIntra
<1>2. PICK k, i : k = r \div n /\ i = r % n
  OBVIOUS
<1>3. r = n * k + i /\ k \in Nat /\ i \in 0 .. n - 1 /\ n * k \in Nat
  <2>1. r = n * k + i /\ k \in Nat /\ i \in 0 .. n - 1
    BY <1>1, <1>2
  <2> QED
    BY <2>1
<1>4. PICK S, T : S = 0 .. k - 1 /\ T = {q \in Peers(p, r) : q < r}
  OBVIOUS
<1>5. \A q : q \in T <=> q \in Ranks /\ q % n = i /\ q < r
  BY <1>1, <1>2, <1>4 DEF Peers
<1>6. PICK f : f = [j \in S |-> n * j + i]
  OBVIOUS
<1>7. ASSUME NEW j \in S
      PROVE  j \in Nat /\ f[j] \in T /\ f[j] \div n = j
  <2>1. j \in Nat /\ j < k
    BY <1>3, <1>4
  <2>2. f[j] = n * j + i
    BY <1>6
  <2>3. n * j + n <= n * k
    BY <1>3, <2>1, MulGrows
  <2>4. n * j \in Nat
    BY <2>1, MulNat
  <2>5. f[j] \in Nat /\ f[j] < r
    BY <1>3, <2>2, <2>3, <2>4
  <2>6. f[j] \in Ranks
    BY <2>5, SmallerRank
  <2>7. f[j] \div n = j /\ f[j] % n = i
    <3>1. j \in Int
      BY <2>1
    <3>2. (n * j + i) \div n = j /\ (n * j + i) % n = i
      BY <1>3, <3>1, DivMod
    <3> QED
      BY <2>2, <3>2
  <2> QED
    BY <1>5, <2>1, <2>5, <2>6, <2>7
<1>8. ASSUME NEW q \in T PROVE \E j \in S : f[j] = q
  <2>1. q \in Ranks /\ q % n = i /\ q < r
    BY <1>5
  <2>2. PICK j : j = q \div n
    OBVIOUS
  <2>3. j \in Nat /\ q = n * j + i /\ n * j \in Nat
    BY <1>1, <2>1, <2>2
  <2>4. j < k
    <3> SUFFICES ASSUME ~ j < k PROVE FALSE
      OBVIOUS
    <3>1. j = k \/ k < j
      BY <1>3, <2>3
    <3>2. CASE j = k
      BY <1>3, <2>1, <2>3, <3>2
    <3>3. CASE k < j
      <4>1. n * k + n <= n * j
        BY <1>3, <2>3, <3>3, MulGrows
      <4> QED
        BY <1>3, <2>1, <2>3, <4>1
    <3> QED
      BY <3>1, <3>2, <3>3
  <2>5. j \in S
    BY <1>3, <1>4, <2>3, <2>4
  <2>6. f[j] = n * j + i
    BY <1>6, <2>5
  <2> QED
    BY <2>3, <2>5, <2>6
<1>9. f \in [S -> T] /\ \A x, y \in S : f[x] = f[y] => x = y
  BY <1>6, <1>7
<1>10. IsFiniteSet(T)
  <2>1. T \subseteq Ranks
    BY <1>5
  <2> QED
    BY <2>1, RanksAre, FS_Subset
<1>11. (\A t \in T : \E x \in S : f[x] = t) <=> Cardinality(S) = Cardinality(T)
  BY <1>9, <1>10, Counting
<1>12. Cardinality(T) = Cardinality(S)
  BY <1>8, <1>11
<1>13. Cardinality(0 .. 0 + k - 1) = k
  BY <1>3, IntervalHas
<1>14. Cardinality(S) = k
  BY <1>3, <1>4, <1>13
<1> QED
  BY <1>2, <1>4, <1>12, <1>14 DEF InterRank

\* A read finds the block of the rank it is for, by the window or by the map.
LEMMA BlocksFound ==
    ASSUME EvenlyFilled, place \in Placements, me \in Ranks, NEW r \in Ranks
    PROVE  /\ Owners(Window(WinTarget(r), BlockDisp(r))) = {r}
           /\ IsLocalTo(r) => Owners(<<place[me], BlockDisp(r)>>) = {r}
<1>1. DOMAIN place = Ranks /\ MapSize \in Nat
  BY RpmBlocksAssumption
<1>2. PICK n \in 1 .. MapSize :
          /\ NRanks % n = 0
          /\ \A q, s \in Ranks : place[q] = place[s] <=> q \div n = s \div n
  BY DEF EvenlyFilled
<1>3. n \in Nat \ {0} /\ n <= MapSize
  BY <1>1
<1>4. \A q \in Ranks : /\ IntraRank(place, q) = q % n /\ IntraSize(place, q) = n
                       /\ q = n * (q \div n) + (q % n) /\ q \div n \in Nat /\ q % n \in 0 .. n - 1
  BY <1>1, <1>2, <1>3, EvenIntra
<1>5. \A q \in Ranks : InterRank(place, q) = q \div n
  BY <1>1, <1>2, <1>3, EvenInter
<1>6. PICK b : b = MapSize \div n
  OBVIOUS
<1>7. b \in Nat \ {0}
  <2>1. MapSize \in Int /\ b \in Int /\ MapSize = n * b + (MapSize % n) /\ MapSize % n \in 0 .. n - 1
    BY <1>1, <1>3, <1>6, Division, ModRange
  <2>2. b > 0
    <3> SUFFICES ASSUME ~ b > 0 PROVE FALSE
      OBVIOUS
    <3>1. b < 1
      BY <2>1
    <3>2. n * b + n <= n * 1
      BY <1>3, <2>1, <3>1, MulGrows
    <3>3. n * b \in Int /\ n * 1 = n
      BY <1>3, <2>1
    <3> QED
      BY <1>3, <2>1, <3>2, <3>3
  <2> QED
    BY <2>1, <2>2
<1>8. \A q \in Ranks : BlockSize(q) = b
  BY <1>4, <1>6 DEF BlockSize
<1>9. ASSUME NEW q \in Ranks, NEW s \in Ranks,
             place[q] = place[s], IntraRank(place, q) * b = IntraRank(place, s) * b
      PROVE  q = s
  <2>1. q % n \in Int /\ s % n \in Int /\ b * (q % n) + 0 = b * (s % n) + 0
    BY <1>4, <1>7, <1>9
  <2>2. q % n = s % n
    <3> SUFFICES ASSUME q % n < s % n \/ s % n < q % n PROVE FALSE
      BY <2>1
    <3>1. b * (q % n) + b <= b * (s % n) \/ b * (s % n) + b <= b * (q % n)
      BY <1>7, <2>1, MulGrows
    <3>2. b * (q % n) \in Int /\ b * (s % n) \in Int
      BY <1>7, <2>1
    <3> QED
      BY <1>7, <2>1, <3>1, <3>2
  <2>3. q \div n = s \div n
    BY <1>2, <1>9
  <2> QED
    BY <1>4, <2>2, <2>3
<1>10. Owners(<<place[r], IntraRank(place, r) * b>>) = {r}
  <2>1. \A q \in Ranks : BlockAt(q) = <<place[q], IntraRank(place, q) * b>>
    BY <1>8 DEF BlockAt
  <2>2. \A q \in Ranks : BlockAt(q) = <<place[r], IntraRank(place, r) * b>> <=> q = r
    BY <1>9, <2>1
  <2> QED
    BY <2>2 DEF Owners
<1>11. BlockDisp(r) = IntraRank(place, r) * b
  BY <1>8 DEF BlockDisp
<1>12. ASSUME IsLocalTo(r) PROVE Owners(<<place[me], BlockDisp(r)>>) = {r}
  <2>1. r \div n = me \div n
    BY <1>5, <1>12 DEF IsLocalTo, IsLocal
  <2>2. place[me] = place[r]
    BY <1>2, <2>1
  <2> QED
    BY <1>10, <1>11, <2>2
<1>13. Window(WinTarget(r), BlockDisp(r)) = <<place[r], BlockDisp(r)>>
  <2>1. PICK t, k : t = WinTarget(r) /\ k = r \div n
    OBVIOUS
  <2>2. t = r - (r % n)
    BY <1>4, <2>1 DEF WinTarget, IntraRank0
  <2>3. r \in Nat /\ k \in Nat /\ r = n * k + (r % n) /\ r % n \in 0 .. n - 1
    BY <1>4, <2>1, RanksAre
  <2>4. n * k \in Int
    BY <1>3, <2>3
  <2>5. t = n * k + 0
    <3>1. PICK i, a : i = r % n /\ a = n * k
      OBVIOUS
    <3>2. i \in Int /\ a \in Int /\ r = a + i /\ t = r - i
      BY <2>2, <2>3, <2>4, <3>1
    <3>3. t = a + 0
      BY <3>2
    <3> QED
      BY <3>1, <3>3
  <2>6. t \div n = k /\ t % n = 0
    <3>1. k \in Int /\ 0 \in 0 .. n - 1
      BY <1>3, <2>3
    <3>2. (n * k + 0) \div n = k /\ (n * k + 0) % n = 0
      BY <1>3, <3>1, DivMod
    <3> QED
      BY <2>5, <3>2
  <2>7. t \in Ranks
    <3>1. t \in 0 .. r
      BY <2>1, WinTargetIsRank
    <3> QED
      BY <3>1, RanksAre DEF Ranks
  <2>8. place[t] = place[r]
    BY <1>2, <2>1, <2>6, <2>7
  <2>9. IntraRank(place, t) = 0
    BY <1>4, <2>6, <2>7
  <2> QED
    BY <2>1, <2>8, <2>9 DEF Window
<1> QED
  BY <1>10, <1>11, <1>12, <1>13

\* What is outstanding is what was asked for, and goes to buffers of its own.
GetsAre ==
    /\ \A g \in gets : g.slot \in Slots /\ g.rank \in Ranks /\ g = Get(g.slot, g.rank)
    /\ \A g, h \in gets : g.slot = h.slot => g = h

AsyncInv == BlocksInv /\ me \in Ranks /\ DOMAIN buf = Slots /\ GetsAre

\* The reads that Gets carry out.
Carried(G) == {<<g.slot, g.rank>> : g \in G}

LEMMA GetFields ==
    ASSUME NEW s, NEW r
    PROVE  Get(s, r).slot = s /\ Get(s, r).rank = r
  BY DEF Get, WinGet

\* A Get into a free buffer is one more, and a part of the Gets are Gets.
LEMMA OneMore ==
    ASSUME GetsAre, NEW s \in Slots, NEW r \in Ranks, Free(s)
    PROVE  LET all == gets \cup {Get(s, r)}
           IN  /\ \A g \in all : g.slot \in Slots /\ g.rank \in Ranks /\ g = Get(g.slot, g.rank)
               /\ \A g, h \in all : g.slot = h.slot => g = h
               /\ Carried(all) = Carried(gets) \cup {<<s, r>>}
<1>1. PICK g : g = Get(s, r)
  OBVIOUS
<1>2. g.slot = s /\ g.rank = r
  BY <1>1, GetFields
<1>3. \A h \in gets \cup {g} : h.slot \in Slots /\ h.rank \in Ranks /\ h = Get(h.slot, h.rank)
  BY <1>1, <1>2 DEF GetsAre
<1>4. \A h, k \in gets \cup {g} : h.slot = k.slot => h = k
  BY <1>2 DEF GetsAre, Free
<1>5. Carried(gets \cup {g}) = Carried(gets) \cup {<<s, r>>}
  BY <1>2 DEF Carried
<1> QED
  BY <1>1, <1>3, <1>4, <1>5

\* When Gets land, their buffers have the blocks of their ranks.
LEMMA LandedBlocks ==
    ASSUME EvenlyFilled, place \in Placements, me \in Ranks, NEW G, NEW s \in Slots,
           \A g \in G : g.slot \in Slots /\ g.rank \in Ranks /\ g = Get(g.slot, g.rank),
           \A g, h \in G : g.slot = h.slot => g = h
    PROVE  Owners(Landed(G)[s]) = IF \E r \in Ranks : <<s, r>> \in Carried(G)
                                  THEN {r \in Ranks : <<s, r>> \in Carried(G)}
                                  ELSE Owners(buf[s])
<1>1. CASE \E g \in G : g.slot = s
  <2>1. PICK g \in G : g.slot = s
    BY <1>1
  <2>2. g = CHOOSE h \in G : h.slot = s
    BY <2>1
  <2>3. Landed(G)[s] = Window(g.target, g.disp)
    BY <1>1, <2>2 DEF Landed
  <2>4. PICK r \in Ranks : r = g.rank
    BY <2>1
  <2>5. g = Get(s, r)
    BY <2>1, <2>4
  <2>6. g.target = WinTarget(r) /\ g.disp = BlockDisp(r)
    BY <2>5 DEF Get, WinGet
  <2>7. Owners(Landed(G)[s]) = {r}
    BY <2>3, <2>6, BlocksFound
  <2>8. \A q : <<s, q>> \in Carried(G) <=> q = r
    <3>1. <<s, r>> \in Carried(G)
      BY <2>1, <2>4 DEF Carried
    <3>2. ASSUME NEW q, <<s, q>> \in Carried(G) PROVE q = r
      <4>1. PICK h \in G : <<s, q>> = <<h.slot, h.rank>>
        BY <3>2 DEF Carried
      <4>2. h.slot = s /\ h.rank = q
        BY <4>1
      <4> QED
        BY <2>1, <2>4, <4>2
    <3> QED
      BY <3>1, <3>2
  <2> QED
    BY <2>7, <2>8
<1>2. CASE ~ \E g \in G : g.slot = s
  <2>1. Landed(G)[s] = buf[s]
    BY <1>2 DEF Landed
  <2>2. \A r \in Ranks : <<s, r>> \notin Carried(G)
    <3> SUFFICES ASSUME NEW r \in Ranks, <<s, r>> \in Carried(G) PROVE FALSE
      OBVIOUS
    <3>1. PICK h \in G : <<s, r>> = <<h.slot, h.rank>>
      BY DEF Carried
    <3> QED
      BY <1>2, <3>1
  <2> QED
    BY <2>1, <2>2
<1> QED
  BY <1>1, <1>2

\* Nobody's block is in a buffer that was not read into.
LEMMA AsyncInit == BlocksInit => AsyncInv /\ Async!Init
<1> SUFFICES ASSUME BlocksInit PROVE AsyncInv /\ Async!Init
  OBVIOUS
<1>1. AsyncInv
  BY InitBlocksInv DEF BlocksInit, AsyncInv, GetsAre
<1>2. Owners(Nothing) = {}
  <2>1. Len(Nothing) = 1 /\ \A r \in Ranks : Len(BlockAt(r)) = 2
    BY DEF Nothing, BlockAt
  <2> QED
    BY <2>1 DEF Owners
<1>3. \A s \in Slots : Owners(buf[s]) = {}
  BY <1>2 DEF BlocksInit
<1>4. [s \in Slots |-> Owners(buf[s])] = [s \in Slots |-> {}]
  BY <1>3
<1>5. {<<g.slot, g.rank>> : g \in gets} = {}
  BY DEF BlocksInit
<1> QED
  BY <1>1, <1>4, <1>5 DEF Async!Init

\* What the steps of AsyncReads are, with the buffers and the Gets for its state.
Filled(done) ==
    [s \in Slots |-> IF \E r \in Ranks : <<s, r>> \in done
                     THEN {r \in Ranks : <<s, r>> \in done} ELSE Owners(buf[s])]
OwnersNow == [s \in Slots |-> Owners(buf[s])]

LEMMA AsyncSteps ==
    /\ \A s \in Slots, r \in Ranks :
          (\A q \in Ranks : <<s, q>> \notin Carried(gets)) =>
            /\ /\ OwnersNow' = Filled({<<s, r>>}) /\ Carried(gets)' = Carried(gets)
               => Async!Next
            /\ /\ Carried(gets)' = Carried(gets) \cup {<<s, r>>} /\ OwnersNow' = OwnersNow
               => Async!Next
            /\ /\ OwnersNow' = Filled(Carried(gets) \cup {<<s, r>>}) /\ Carried(gets)' = {}
               => Async!Next
    /\ \A done \in SUBSET Carried(gets) :
          OwnersNow' = Filled(done) /\ Carried(gets)' = Carried(gets) \ done => Async!Next
    /\ OwnersNow' = OwnersNow /\ Carried(gets)' = Carried(gets) => UNCHANGED Async!vars
<1>1. \A done : Async!After(done) = Filled(done)
  BY DEF Async!After, Filled
<1>2. ASSUME NEW s \in Slots, NEW r \in Ranks, \A q \in Ranks : <<s, q>> \notin Carried(gets)
      PROVE  Async!Idle(s)
  BY <1>2 DEF Async!Idle, Carried
<1>3. ASSUME NEW s \in Slots, NEW r \in Ranks, \A q \in Ranks : <<s, q>> \notin Carried(gets),
             \/ OwnersNow' = Filled({<<s, r>>}) /\ Carried(gets)' = Carried(gets)
             \/ Carried(gets)' = Carried(gets) \cup {<<s, r>>} /\ OwnersNow' = OwnersNow
             \/ OwnersNow' = Filled(Carried(gets) \cup {<<s, r>>}) /\ Carried(gets)' = {}
      PROVE  Async!Next
  <2>1. Async!Idle(s)
    BY <1>2, <1>3
  <2>2. Async!Start(s, r) \/ Async!StartAndWait(s, r)
    BY <1>1, <1>3, <2>1 DEF Async!Start, Async!StartAndWait, Carried, OwnersNow
  <2> QED
    BY <2>2 DEF Async!Next
<1>4. ASSUME NEW done \in SUBSET Carried(gets),
             OwnersNow' = Filled(done), Carried(gets)' = Carried(gets) \ done
      PROVE  Async!Next
  <2>1. Async!Complete(done)
    BY <1>1, <1>4 DEF Async!Complete, Carried, OwnersNow
  <2> QED
    BY <2>1 DEF Async!Next, Carried
<1>5. ASSUME OwnersNow' = OwnersNow, Carried(gets)' = Carried(gets)
      PROVE  UNCHANGED Async!vars
  BY <1>5 DEF Async!vars, Carried, OwnersNow
<1> QED
  BY <1>3, <1>4, <1>5

\* The blocks stay where they are.
LEMMA OwnersThen ==
    ASSUME UNCHANGED place
    PROVE  OwnersNow' = [s \in Slots |-> Owners(buf'[s])]
  BY DEF OwnersNow, Owners, BlockAt, BlockSize

LEMMA GetsThen ==
    ASSUME UNCHANGED <<place, me>>, \A g \in gets' : g.slot \in Slots /\ g.rank \in Ranks /\ g = Get(g.slot, g.rank),
           \A g, h \in gets' : g.slot = h.slot => g = h
    PROVE  GetsAre'
  BY DEF GetsAre, Get, WinGet, WinTarget, BlockDisp, BlockSize

LEMMA AsyncStep ==
    EvenlyFilled /\ AsyncInv /\ [BlocksNext]_blocksVars => AsyncInv' /\ [Async!Next]_(Async!vars)
<1> SUFFICES ASSUME EvenlyFilled, AsyncInv, [BlocksNext]_blocksVars
             PROVE  AsyncInv' /\ [Async!Next]_(Async!vars)
  OBVIOUS
<1>1. BlocksInv'
  BY StepBlocksInv DEF AsyncInv
<1>2. BlocksInv /\ GetsAre /\ place \in Placements /\ me \in Ranks /\ DOMAIN buf = Slots
  BY DEF AsyncInv, BlocksInv
<1>3. Flushed(accessed, gets) = gets
  BY <1>2, FlushedAll DEF BlocksInv, GetsAccounted
<1>4. \A s : Free(s) => \A q : <<s, q>> \notin Carried(gets)
  BY DEF Free, Carried
<1>5. \A g \in gets : g.slot \in Slots /\ g.rank \in Ranks /\ g = Get(g.slot, g.rank)
  BY <1>2 DEF GetsAre
<1>6. \A g, h \in gets : g.slot = h.slot => g = h
  BY <1>2 DEF GetsAre
<1>7. ASSUME NEW G, \A g \in G : g.slot \in Slots /\ g.rank \in Ranks /\ g = Get(g.slot, g.rank),
             \A g, h \in G : g.slot = h.slot => g = h
      PROVE  [s \in Slots |-> Owners(Landed(G)[s])] = Filled(Carried(G))
  <2>1. \A s \in Slots : Owners(Landed(G)[s]) = Filled(Carried(G))[s]
    BY <1>2, <1>7, LandedBlocks DEF Filled
  <2> QED
    BY <2>1 DEF Filled
<1>8. ASSUME NEW s \in Slots, NEW r \in Ranks, PreadNoflush(s, r), IsLocalTo(r)
      PROVE  GetsAre' /\ DOMAIN buf' = Slots /\ Async!Next
  <2>1. /\ Free(s) /\ buf' = [buf EXCEPT ![s] = <<place[me], BlockDisp(r)>>]
        /\ UNCHANGED <<place, me, gets>>
    BY <1>8 DEF PreadNoflush
  <2>2. GetsAre' /\ DOMAIN buf' = Slots
    BY <1>2, <1>5, <1>6, <2>1, GetsThen
  <2>3. Owners(<<place[me], BlockDisp(r)>>) = {r}
    BY <1>2, <1>8, BlocksFound
  <2>4. \A t \in Slots : buf'[t] = IF t = s THEN <<place[me], BlockDisp(r)>> ELSE buf[t]
    BY <1>2, <2>1
  <2>5. [t \in Slots |-> Owners(buf'[t])] = Filled({<<s, r>>})
    <3>1. ASSUME NEW t \in Slots PROVE Owners(buf'[t]) = Filled({<<s, r>>})[t]
      <4>1. Filled({<<s, r>>})[t] = IF \E q \in Ranks : <<t, q>> \in {<<s, r>>}
                                    THEN {q \in Ranks : <<t, q>> \in {<<s, r>>}} ELSE Owners(buf[t])
        BY DEF Filled
      <4>2. CASE t = s
        BY <2>3, <2>4, <4>1, <4>2
      <4>3. CASE t # s
        BY <2>4, <4>1, <4>3
      <4> QED
        BY <4>2, <4>3
    <3> QED
      BY <3>1 DEF Filled
  <2>6. OwnersNow' = Filled({<<s, r>>})
    BY <2>1, <2>5, OwnersThen
  <2>7. Carried(gets)' = Carried(gets)
    BY <2>1 DEF Carried
  <2> QED
    BY <1>4, <2>1, <2>2, <2>6, <2>7, AsyncSteps
<1>9. ASSUME NEW s \in Slots, NEW r \in Ranks, PreadNoflush(s, r), ~ IsLocalTo(r)
      PROVE  GetsAre' /\ DOMAIN buf' = Slots /\ Async!Next
  <2>1. /\ Free(s) /\ gets' = gets \cup {Get(s, r)}
        /\ UNCHANGED <<place, me, buf>>
    BY <1>9 DEF PreadNoflush
  <2>2. GetsAre'
    <3>1. \A g \in gets' : g.slot \in Slots /\ g.rank \in Ranks /\ g = Get(g.slot, g.rank)
      BY <1>2, <2>1, OneMore
    <3>2. \A g, h \in gets' : g.slot = h.slot => g = h
      BY <1>2, <2>1, OneMore
    <3> QED
      BY <2>1, <3>1, <3>2, GetsThen
  <2>3. Carried(gets)' = Carried(gets) \cup {<<s, r>>}
    <3>1. Carried(gets') = Carried(gets) \cup {<<s, r>>}
      BY <1>2, <2>1, OneMore
    <3> QED
      BY <3>1 DEF Carried
  <2>4. OwnersNow' = OwnersNow
    <3>1. OwnersNow' = [t \in Slots |-> Owners(buf'[t])]
      BY <2>1, OwnersThen
    <3> QED
      BY <2>1, <3>1 DEF OwnersNow
  <2> QED
    BY <1>2, <1>4, <2>1, <2>2, <2>3, <2>4, AsyncSteps
<1>10. ASSUME Flush PROVE GetsAre' /\ DOMAIN buf' = Slots /\ Async!Next
  <2>1. /\ buf' = Landed(gets) /\ gets' = {} /\ UNCHANGED <<place, me>>
    BY <1>3, <1>10 DEF Flush
  <2>2. GetsAre' /\ DOMAIN buf' = Slots
    BY <2>1 DEF GetsAre, Landed
  <2>3. OwnersNow' = Filled(Carried(gets))
    <3>1. OwnersNow' = [t \in Slots |-> Owners(buf'[t])]
      BY <2>1, OwnersThen
    <3> QED
      BY <1>5, <1>6, <1>7, <2>1, <3>1
  <2>4. Carried(gets)' = Carried(gets) \ Carried(gets)
    BY <2>1 DEF Carried
  <2> QED
    BY <2>2, <2>3, <2>4, AsyncSteps
<1>11. ASSUME NEW s \in Slots, NEW r \in Ranks, PreadRemote(s, r)
       PROVE  GetsAre' /\ DOMAIN buf' = Slots /\ Async!Next
  <2>1. PICK all : all = gets \cup {Get(s, r)}
    OBVIOUS
  <2>2. Free(s) /\ UNCHANGED <<place, me>>
    BY <1>11 DEF PreadRemote
  <2>3. /\ \A g \in all : g.slot \in Slots /\ g.rank \in Ranks /\ g = Get(g.slot, g.rank)
        /\ \A g, h \in all : g.slot = h.slot => g = h
        /\ Carried(all) = Carried(gets) \cup {<<s, r>>}
    BY <1>2, <2>1, <2>2, OneMore
  <2>4. Flushed(Accessed(accessed, WinTarget(r)), all) = all
    <3>1. \A g \in all : Accessed(accessed, WinTarget(r)) \in {g.target, MULTIPLE_RANKS_ACCESSED}
      BY <1>2, <2>1, AccessedCovers
    <3> QED
      BY <3>1, FlushedAll
  <2>5. buf' = Landed(all) /\ gets' = {}
    BY <1>11, <2>1, <2>4 DEF PreadRemote
  <2>6. GetsAre' /\ DOMAIN buf' = Slots
    BY <2>5 DEF GetsAre, Landed
  <2>7. OwnersNow' = Filled(Carried(gets) \cup {<<s, r>>})
    <3>1. OwnersNow' = [t \in Slots |-> Owners(buf'[t])]
      BY <2>2, OwnersThen
    <3> QED
      BY <1>7, <2>3, <2>5, <3>1
  <2>8. Carried(gets)' = {}
    BY <2>5 DEF Carried
  <2> QED
    BY <1>4, <2>2, <2>6, <2>7, <2>8, AsyncSteps
<1>12. ASSUME NEW s \in Slots, NEW r \in Ranks, PreadLocal(s, r)
       PROVE  GetsAre' /\ DOMAIN buf' = Slots /\ Async!Next
  <2>1. /\ Free(s) /\ IsLocalTo(r) /\ gets' = {} /\ UNCHANGED <<place, me>>
        /\ buf' = [Landed(gets) EXCEPT ![s] = <<place[me], BlockDisp(r)>>]
    BY <1>3, <1>12 DEF PreadLocal
  <2>2. GetsAre' /\ DOMAIN buf' = Slots
    BY <2>1 DEF GetsAre, Landed
  <2>3. Owners(<<place[me], BlockDisp(r)>>) = {r}
    BY <1>2, <2>1, BlocksFound
  <2>4. \A t \in Slots : buf'[t] = IF t = s THEN <<place[me], BlockDisp(r)>> ELSE Landed(gets)[t]
    BY <2>1 DEF Landed
  <2>5. [t \in Slots |-> Owners(Landed(gets)[t])] = Filled(Carried(gets))
    BY <1>5, <1>6, <1>7
  <2>6. \A q : <<s, q>> \notin Carried(gets)
    BY <1>4, <2>1
  <2>7. PICK C : C = Carried(gets)
    OBVIOUS
  <2>8. [t \in Slots |-> Owners(buf'[t])] = Filled(C \cup {<<s, r>>})
    <3>1. ASSUME NEW t \in Slots PROVE Owners(buf'[t]) = Filled(C \cup {<<s, r>>})[t]
      <4>1. \A D : Filled(D)[t] = IF \E q \in Ranks : <<t, q>> \in D
                                  THEN {q \in Ranks : <<t, q>> \in D} ELSE Owners(buf[t])
        BY DEF Filled
      <4>2. CASE t = s
        <5>1. buf'[t] = <<place[me], BlockDisp(r)>>
          BY <2>4, <4>2
        <5>2. Owners(buf'[t]) = {r}
          BY <2>3, <5>1
        <5>3. \A q : <<t, q>> \in C \cup {<<s, r>>} <=> q = r
          BY <2>6, <2>7, <4>2
        <5>4. PICK D : D = C \cup {<<s, r>>}
          OBVIOUS
        <5>5. \A q : <<t, q>> \in D <=> q = r
          BY <5>3, <5>4
        <5>6. {q \in Ranks : <<t, q>> \in D} = {r}
          BY <5>5
        <5>7. \E q \in Ranks : <<t, q>> \in D
          BY <5>5
        <5>8. Filled(D)[t] = {r}
          BY <4>1, <5>6, <5>7
        <5> QED
          BY <5>2, <5>4, <5>8
      <4>3. CASE t # s
        <5>1. Owners(buf'[t]) = Filled(C)[t]
          <6>1. Owners(Landed(gets)[t]) = [u \in Slots |-> Owners(Landed(gets)[u])][t]
            OBVIOUS
          <6> QED
            BY <2>4, <2>5, <2>7, <4>3, <6>1
        <5>2. \A q : <<t, q>> \in C \cup {<<s, r>>} <=> <<t, q>> \in C
          BY <4>3
        <5> QED
          BY <4>1, <5>1, <5>2
      <4> QED
        BY <4>2, <4>3
    <3> QED
      BY <3>1 DEF Filled
  <2>9. OwnersNow' = Filled(Carried(gets) \cup {<<s, r>>})
    BY <2>1, <2>7, <2>8, OwnersThen
  <2>10. Carried(gets)' = {}
    BY <2>1 DEF Carried
  <2> QED
    BY <1>4, <2>1, <2>2, <2>9, <2>10, AsyncSteps
<1>13. ASSUME Lands PROVE GetsAre' /\ DOMAIN buf' = Slots /\ Async!Next
  <2>1. PICK g \in gets : buf' = Landed({g}) /\ gets' = gets \ {g} /\ UNCHANGED <<place, me>>
    BY <1>13 DEF Lands
  <2>2. GetsAre'
    BY <1>5, <1>6, <2>1, GetsThen
  <2>3. DOMAIN buf' = Slots
    BY <2>1 DEF Landed
  <2>4. OwnersNow' = Filled(Carried({g}))
    <3>1. OwnersNow' = [t \in Slots |-> Owners(buf'[t])]
      BY <2>1, OwnersThen
    <3> QED
      BY <1>5, <1>7, <2>1, <3>1
  <2>5. Carried({g}) = {<<g.slot, g.rank>>}
    BY DEF Carried
  <2>6. Carried(gets \ {g}) = Carried(gets) \ {<<g.slot, g.rank>>}
    <3>1. \A h \in gets : <<h.slot, h.rank>> = <<g.slot, g.rank>> => h = g
      BY <1>6, <2>1
    <3> QED
      BY <3>1 DEF Carried
  <2>7. Carried(gets)' = Carried(gets) \ Carried({g})
    BY <2>1, <2>5, <2>6 DEF Carried
  <2>8. Carried({g}) \in SUBSET Carried(gets)
    BY <2>1 DEF Carried
  <2> QED
    BY <2>2, <2>3, <2>4, <2>7, <2>8, AsyncSteps
<1>14. CASE UNCHANGED blocksVars
  <2>1. UNCHANGED <<place, me, accessed, gets, buf>>
    BY <1>14 DEF blocksVars
  <2>2. GetsAre' /\ DOMAIN buf' = Slots
    BY <1>2, <1>5, <1>6, <2>1, GetsThen
  <2>3. OwnersNow' = OwnersNow
    <3>1. OwnersNow' = [t \in Slots |-> Owners(buf'[t])]
      BY <2>1, OwnersThen
    <3> QED
      BY <2>1, <3>1 DEF OwnersNow
  <2>4. Carried(gets)' = Carried(gets)
    BY <2>1 DEF Carried
  <2>5. me' \in Ranks
    BY <1>2, <2>1
  <2> QED
    BY <1>1, <2>2, <2>3, <2>4, <2>5, AsyncSteps DEF AsyncInv
<1>15. CASE BlocksNext
  <2>1. me' = me
    BY <1>15 DEF BlocksNext, PreadNoflush, PreadRemote, PreadLocal, Flush, Lands
  <2>2. GetsAre' /\ DOMAIN buf' = Slots /\ Async!Next
    BY <1>8, <1>9, <1>10, <1>11, <1>12, <1>13, <1>15 DEF BlocksNext
  <2> QED
    BY <1>1, <1>2, <2>1, <2>2 DEF AsyncInv
<1> QED
  BY <1>14, <1>15

\* Reads of blocks are asynchronous reads: each gets the block of the rank it
\* is for, wherever that is, once and not before it starts, and a flush leaves
\* none under way (rpm.hpp:133-194), on nodes that are filled evenly.
THEOREM ReadsAreAsync == EvenlyFilled => (BlocksSpec => ImplementsAsyncReads)
<1> SUFFICES ASSUME EvenlyFilled PROVE BlocksSpec => ImplementsAsyncReads
  OBVIOUS
<1>1. AsyncInv /\ [BlocksNext]_blocksVars => AsyncInv' /\ [Async!Next]_(Async!vars)
  BY AsyncStep
<1> QED
  BY <1>1, AsyncInit, PTL DEF BlocksSpec, ImplementsAsyncReads, Async!Spec

=============================================================================
