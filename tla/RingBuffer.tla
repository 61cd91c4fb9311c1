----------------------------- MODULE RingBuffer ------------------------------
(***************************************************************************)
(* The ring buffer of one rank over its block of persistent memory         *)
(* (ring_buffer.hpp).  Space is reserved and given back by LSN; the bytes  *)
(* are moved by separate calls, which split an access that runs over the   *)
(* end of the ring.  The reserving calls come in two kinds: the _nb calls  *)
(* check the capacity and refuse, the _unsafe calls leave that to their    *)
(* caller.  overrun is a history variable that says whether a caller of an *)
(* _unsafe call ever went beyond what the check allows.                    *)
(***************************************************************************)
EXTENDS RingTracker

CONSTANTS
    RingSize,   \* bytes of the ring
    BehindSize, \* bytes behind the ring, of the block's metadata first of all
    Bytes,      \* values of a byte
    MaxLsn      \* bound on the LSNs handed out, below the width of an LSN

ASSUME RingAssumption ==
    /\ RingSize \in 1 .. Word - 1 /\ BehindSize \in Nat
    /\ MaxLsn \in 0 .. Word - 1
    /\ Bytes # {}

VARIABLES
    tracker,    \* the ring's cursors
    block,      \* the bytes of the block: the ring, and what is behind it
    io,         \* the last pwrite or pread: its arguments and bytes
    overrun     \* history: an _unsafe call exceeded the capacity

vars == <<tracker, block, io, overrun>>

Offsets == 0 .. RingSize - 1
Behind  == RingSize .. RingSize + BehindSize - 1
Cells   == Offsets \cup Behind

\* The sizes a caller may pass, and the buffers of such a size.
Sizes   == 0 .. RingSize
Buf(n)  == [0 .. n - 1 -> Bytes]

Access(op, lsn, n, buf) == [op |-> op, lsn |-> lsn, n |-> n, buf |-> buf]

TypeOK ==
    /\ tracker \in TrackerType(RingSize)
    /\ block \in [Cells -> Bytes]
    /\ io.n \in Sizes /\ io.buf \in Buf(io.n)
    /\ overrun \in BOOLEAN

\* The block holds whatever a previous program left in it.
Init ==
    /\ tracker = NewTracker(RingSize)
    /\ block \in [Cells -> Bytes]
    /\ io = Access("none", 0, 0, [i \in {} |-> i])
    /\ overrun = FALSE

-----------------------------------------------------------------------------
(* Moving bytes: n bytes of a buffer from index i on, to or from offset ofs. *)

BlockWrite(b, buf, i, n, ofs) ==
    [o \in Cells |-> IF ofs <= o /\ o < ofs + n THEN buf[i + o - ofs] ELSE b[o]]

RingWrite_AllFirst(b, t, buf, n, lsn) ==
    LET ofs  == to_ofs(t, lsn)
        size == first_segment_size_ofs(t, ofs, n)
    IN  BlockWrite(BlockWrite(b, buf, 0, n, ofs), buf, size, n - size, 0)

RingWrite(b, t, buf, n, lsn) ==
    LET ofs  == to_ofs(t, lsn)
        size == first_segment_size_ofs(t, ofs, n)
    IN  IF size = n
        THEN BlockWrite(b, buf, 0, n, ofs)
        ELSE BlockWrite(BlockWrite(b, buf, 0, size, ofs), buf, size, n - size, 0)

RingRead(b, t, n, lsn) ==
    LET ofs  == to_ofs(t, lsn)
        size == first_segment_size_ofs(t, ofs, n)
    IN  [i \in 0 .. n - 1 |-> IF i < size THEN b[ofs + i] ELSE b[i - size]]

-----------------------------------------------------------------------------
(* The operations. *)

ReserveNb(n) ==
    /\ tracker.head + n <= MaxLsn
    /\ can_allocate(tracker, n)
    /\ tracker' = allocate(tracker, n)
    /\ UNCHANGED <<block, io, overrun>>

ReserveUnsafe(n) ==
    /\ tracker.head + n <= MaxLsn
    /\ tracker' = allocate(tracker, n)
    /\ overrun' = (overrun \/ ~ can_allocate(tracker, n))
    /\ UNCHANGED <<block, io>>

ConsumeNb(n) ==
    /\ can_release(tracker, n)
    /\ tracker' = release(tracker, n)
    /\ UNCHANGED <<block, io, overrun>>

ConsumeUnsafe(n) ==
    /\ tracker.tail + n <= MaxLsn
    /\ tracker' = release(tracker, n)
    /\ overrun' = (overrun \/ ~ can_release(tracker, n))
    /\ UNCHANGED <<block, io>>

\* Callers address only LSNs that were reserved and not yet given back.
Reserved(lsn, n) == tracker.tail <= lsn /\ lsn + n <= tracker.head

Pwrite(n, buf, lsn) ==
    /\ Reserved(lsn, n)
    /\ block' = RingWrite(block, tracker, buf, n, lsn)
    /\ io' = Access("pwrite", lsn, n, buf)
    /\ UNCHANGED <<tracker, overrun>>

Pread(n, lsn) ==
    /\ Reserved(lsn, n)
    /\ io' = Access("pread", lsn, n, RingRead(block, tracker, n, lsn))
    /\ UNCHANGED <<tracker, block, overrun>>

NextNb ==
    \E n \in Sizes :
        \/ ReserveNb(n)
        \/ ConsumeNb(n)
        \/ \E lsn \in 0 .. MaxLsn :
              \/ \E buf \in Buf(n) : Pwrite(n, buf, lsn)
              \/ Pread(n, lsn)

Next ==
    \/ NextNb
    \/ \E n \in Sizes : ReserveUnsafe(n) \/ ConsumeUnsafe(n)

SpecNb == Init /\ [][NextNb]_vars
Spec   == Init /\ [][Next]_vars

-----------------------------------------------------------------------------
(* Properties. *)

\* The reserved bytes fit the ring: as long as no unsafe call overran it, the
\* head is ahead of the tail by at most the ring's size, so that neither
\* unsigned difference of ring_tracker.hpp:56-57 has wrapped around.
CapacityRespected ==
    ~ overrun => /\ tracker.tail <= tracker.head
                 /\ tracker.head - tracker.tail <= RingSize

\* The ring seen as a log: the byte of an LSN is the one its ring offset holds.
Log == INSTANCE RingLog WITH
           Capacity <- RingSize,
           head <- tracker.head,
           tail <- tracker.tail,
           log  <- [l \in tracker.tail .. tracker.head - 1 |-> block[l % RingSize]]

\* With the checked calls only, the ring buffer implements the log: no
\* reserved byte is overwritten by a write to another LSN, by a new
\* reservation or by a split at the ring's end, until it is consumed.
ImplementsLog == Log!Spec

\* The unsafe calls are as good as the checked ones as long as their callers
\* keep to the capacity: up to the first overrun every step is one of the log.
\* However far they overrun, no write leaves the ring: the metadata of the block
\* behind it stays (ring_buffer.hpp:127-136).
LogUntilOverrun ==
    [][/\ ~ overrun' => [Log!Next]_(Log!vars)
       /\ \A o \in Behind : block'[o] = block[o]]_vars

=============================================================================
