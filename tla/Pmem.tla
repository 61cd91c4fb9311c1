--------------------------------- MODULE Pmem ---------------------------------
(***************************************************************************)
(* What of a block survives a crash: the writes of rpm_local_block         *)
(* (rpm.hpp:119) through file_operations and memory_operations (pmem2.hpp) *)
(* to memory behind a cache.  A flag says whether a write is flushed and   *)
(* drained before it returns; what is not is flushed and drained by calls  *)
(* of their own.  Addresses are those of the mapping of a node, which      *)
(* has the blocks of other ranks before and behind this one.               *)
(***************************************************************************)
EXTENDS Integers

CONSTANTS BlockSize,    \* of each block
          IntraRank     \* the rank of this block on its node

ASSUME PmemAssumption == BlockSize \in Nat \ {0} /\ IntraRank \in Nat

VARIABLES
    cache,      \* what the processors of the node see at each address
    media,      \* what the memory has and keeps
    pending,    \* addresses on their way to the memory; a drain waits for them
    writing,    \* the write that has stored but not returned
    flushed,    \* offsets that the caller has flushed since it wrote them
    promised    \* what was written durably at each offset, or Unpromised

pmemVars == <<cache, media, pending, writing, flushed, promised>>

Addresses == 0 .. (IntraRank + 2) * BlockSize - 1
BlockOffsets == 0 .. BlockSize - 1
Values == {1, 2}
Unpromised == 0
NoWrite == "no write"

\* The flags: write around the cache, and return without a flush.
Plain == "0"
NONTEMPORAL == "nontemporal"
NOFLUSH == "noflush"

disp == IntraRank * BlockSize

\* file_operations::to_addr of what rpm_local_block passes on.
to_addr_NoDisp(ofs) == ofs
to_addr(ofs)        == disp + ofs
AddressesOf(ofs, size) == {to_addr(ofs + i) : i \in 0 .. size - 1}
OffsetsOf(ofs, size)   == ofs .. ofs + size - 1

\* What the memory has when the addresses in A have reached it.
Reached(A) == [a \in Addresses |-> IF a \in A THEN cache[a] ELSE media[a]]

\* What is promised when the offsets in O are durable.
Promise(O) == [o \in BlockOffsets |-> IF o \in O THEN cache[disp + o] ELSE promised[o]]

-----------------------------------------------------------------------------

PmemIdle ==
    /\ cache = [a \in Addresses |-> 1] /\ media = cache
    /\ pending = {} /\ writing = [flags |-> NoWrite] /\ flushed = {}
    /\ promised = [o \in BlockOffsets |-> Unpromised]

PmemInit == PmemIdle

\* The stores of a write of content, a value for each address.
Store(content, flags) ==
    LET A == DOMAIN content
        O == {a - disp : a \in A}
    IN  /\ writing.flags = NoWrite
        /\ cache' = [a \in Addresses |-> IF a \in A THEN content[a] ELSE cache[a]]
        /\ pending' = IF flags = NONTEMPORAL THEN pending \cup A ELSE pending \ A
        /\ writing' = [flags |-> flags, to |-> A]
        /\ flushed' = flushed \ O
        /\ promised' = [o \in BlockOffsets |-> IF o \in O THEN Unpromised ELSE promised[o]]
        /\ UNCHANGED media

\* memory_operations; memmove reads all of its source first.  The writes with
\* the flag TEMPORAL are those without a flag.
memcpy(dest, size, v, flags)  == Store([a \in dest .. dest + size - 1 |-> v], flags)
memcpy_nt(dest, size, v)      == memcpy(dest, size, v, NONTEMPORAL)
memcpy_noflush(dest, size, v) == memcpy(dest, size, v, NOFLUSH)

memmove(dest, src, size, flags)  == Store([a \in dest .. dest + size - 1 |-> cache[src + (a - dest)]], flags)
memmove_nt(dest, src, size)      == memmove(dest, src, size, NONTEMPORAL)
memmove_noflush(dest, src, size) == memmove(dest, src, size, NOFLUSH)

memset(dest, v, size, flags)  == Store([a \in dest .. dest + size - 1 |-> v], flags)
memset_nt(dest, v, size)      == memset(dest, v, size, NONTEMPORAL)
memset_noflush(dest, v, size) == memset(dest, v, size, NOFLUSH)

\* The rest of a write that flushes: its stores, and with them all that is
\* pending, reach the memory.
WriteReturns ==
    /\ writing.flags \in {Plain, NONTEMPORAL}
    /\ media' = Reached(pending \cup writing.to)
    /\ pending' = {}
    /\ flushed' = {}
    /\ promised' = Promise(flushed \cup {a - disp : a \in writing.to})
    /\ writing' = [flags |-> NoWrite]
    /\ UNCHANGED cache

WriteReturnsUnflushed ==
    /\ writing.flags = NOFLUSH
    /\ writing' = [flags |-> NoWrite]
    /\ UNCHANGED <<cache, media, pending, flushed, promised>>

\* file_operations
pwrite(ofs, size, v)         == memcpy(to_addr(ofs), size, v, Plain)
pwrite_nt(ofs, size, v)      == memcpy_nt(to_addr(ofs), size, v)
pwrite_noflush(ofs, size, v) == memcpy_noflush(to_addr(ofs), size, v)

flush(ofs, size) ==
    /\ writing.flags = NoWrite
    /\ pending' = pending \cup AddressesOf(ofs, size)
    /\ flushed' = flushed \cup OffsetsOf(ofs, size)
    /\ UNCHANGED <<cache, media, writing, promised>>

drain ==
    /\ writing.flags = NoWrite
    /\ media' = Reached(pending)
    /\ pending' = {}
    /\ flushed' = {}
    /\ promised' = Promise(flushed)
    /\ UNCHANGED <<cache, writing>>

persist(ofs, size) ==
    /\ writing.flags = NoWrite
    /\ media' = Reached(pending \cup AddressesOf(ofs, size))
    /\ pending' = {}
    /\ flushed' = {}
    /\ promised' = Promise(flushed \cup OffsetsOf(ofs, size))
    /\ UNCHANGED <<cache, writing>>

\* The cache writes a line back when it likes.
Evict(a) ==
    /\ cache[a] # media[a]
    /\ media' = Reached({a})
    /\ UNCHANGED <<cache, pending, writing, flushed, promised>>

\* The power fails; what is pending may have arrived or not.
PowerFails ==
    /\ cache' = media
    /\ pending' = {} /\ flushed' = {} /\ writing' = [flags |-> NoWrite]
    /\ UNCHANGED <<media, promised>>

PmemNext ==
    \/ \E ofs \in BlockOffsets : \E size \in 1 .. BlockSize - ofs :
          \/ \E v \in Values :
                \/ pwrite(ofs, size, v) \/ pwrite_nt(ofs, size, v) \/ pwrite_noflush(ofs, size, v)
                \/ memset_nt(disp + ofs, v, size) \/ memset_noflush(disp + ofs, v, size)
          \/ \E from \in 0 .. BlockSize - size :
                memmove_nt(disp + ofs, disp + from, size) \/ memmove_noflush(disp + ofs, disp + from, size)
          \/ flush(ofs, size) \/ persist(ofs, size)
    \/ WriteReturns \/ WriteReturnsUnflushed \/ drain
    \/ \E a \in Addresses : Evict(a)
    \/ PowerFails

PmemSpec == PmemInit /\ [][PmemNext]_pmemVars

-----------------------------------------------------------------------------
(* Properties. *)

\* What a write that flushes has written when it returns, and what was flushed
\* and drained, is in the memory until it is written again, whatever the cache
\* does, wherever the power fails and in spite of the displacement of the block;
\* and nothing of this block goes to those of other ranks (rpm.hpp:133-151,
\* pmem2.hpp:355-390).
DurableInOwnBlock ==
    /\ \A o \in BlockOffsets : promised[o] # Unpromised => media[disp + o] = promised[o]
    /\ \A a \in Addresses \ (disp .. disp + BlockSize - 1) : media[a] = 1

=============================================================================
