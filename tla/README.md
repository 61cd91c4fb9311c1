# peanuts in TLA+

peanuts is a burst buffer for parallel programs: every MPI rank appends what it
writes to a ring of bytes in node-local persistent memory, remembers in interval
trees which extent of which file lies where, and exchanges these trees with the
other ranks when the program synchronises. A read collects its bytes from the
own ring, from rings of other ranks (on the same node by a load, on other nodes
by an MPI Get) and, for what nobody holds, from the backing file.

This directory holds TLA+ modules for those parts, TLC configurations that check
them on small instances, and proofs for TLAPS. Paths below are relative to
`projects/peanuts/include/peanuts/` unless they begin with `projects/`.
`PROJECT.json` lists, for every definition that models code, the lines it models.

Two build options, both ON by default (`projects/peanuts/CMakeLists.txt:23-24`),
decide which code is modelled: aggregated reads (Gets are issued and flushed once
per read) and deferred opening of the backing file.

## 1. The system

| part | state | operations | interacts with |
|---|---|---|---|
| ring tracker, `ring_tracker.hpp` | `head`, `tail`, size of the ring | cursor arithmetic, capacities, ring offset of an LSN | the ring buffer |
| ring buffer, `ring_buffer.hpp` | a tracker and a block of memory | reserve, consume (checked and unsafe), read and write at an LSN, split at the end of the ring | burst buffer handler, blocks |
| extent tree, `extent_tree.hpp` | a set of disjoint nodes: extent, pointer, client | `find`, `add`, `remove`, `merge`, `clear` | handler, store |
| extent list, `extent_list.hpp` | a list of extents | `add`, `inverse`, `outer_extent` | the read path (holes) |
| handler, `bb.hpp` (`bb_handler`) | local and global tree of a file, cached size of the file | `pwrite`, `pread`, `sync`, `truncate`, `size` | all ranks (collectives), ring, blocks, deferred file |
| store, `bb.hpp` (`bb_store`) | open files by inode number, a block of three metadata words per rank | `open`, `unlink`, `save`, `load` | ring, handler, MPI |
| persistent memory blocks, `rpm.hpp` | a window per node, which targets have outstanding Gets; the map of the node's memory | reads with and without flush; writes, flush, drain, persist of the local block; creation and destruction | topology, MPI RMA, libpmem2 |
| memory operations, `pmem2.hpp` | sources, configurations and maps of libpmem2 | copies, moves and fills with and without flush | blocks |
| topology, `topology.hpp` | tables of ranks and nodes | the look-ups | blocks |
| deferred file, `deferred_file.hpp`, `zpp/file.h` | an open file or none; its position | open at first use, read and write at an offset, truncate, size, close | handler |
| archives, `zpp_bits.h` | a buffer and a position in it | output and input of any supported type | store, handler |
| MPI wrappers, `mpi/` | a handle and whether to free it | construct, move, free; gathers, broadcasts, Gets | all |
| sparse extents, `sparse_extent.hpp` | extents with a stride | slices, iteration | their test only |
| sense barrier, thread-local values, `utils/sense_barrier.hpp`, `utils/tls.hpp` | a sense, a counter, a thread-local sense; a value per thread | `wait`; get, set, reset | threads |
| options, singletons, runtime | what there is one of in a process, and who finalises it | initialise, set, leave | programs |
| encodings, statistics, clocks, powers, `utils/` | a stream; a summary; a calibration; a stop watch | encode and decode; add and combine; measure; round and parse | benchmarks, tests |
| C interface, `projects/peanuts_c` | none | one method per function; exceptions to -1 | programs |
| benchmarks, build files | see section 7 | | |

### What is hard about it

* *Interleaving.* A synchronisation is three collective calls; a rank that has
  left it writes and enters the next one while others still merge. Gets land in
  the caller's buffer at any time before the flush, while the read goes on.
  Threads use a barrier again before the last round is over.
* *Ordering.* Every rank builds its own global tree from everybody's local trees;
  they must agree on who wins. `merge` carries an iterator through a tree which
  its own insertions split, erase and join.
* *Crashes.* Nothing is persistent but the rings and three metadata words per
  rank. `save` appends the indices and then writes the words one after the other;
  it is not collective.
* *Partial failure.* Only rank 0 truncates the file and asks for its size; only the
  root of a communicator opens a file with all its flags; only the first rank of a node
  makes the memory. What any of them throws is not told to the others, unless the code
  broadcasts it. A full ring stops a save half way.
* *Protocols.* Handlers on several communicators share an index per inode number, and
  numbers are used again. Handles of libraries are moved, borrowed and freed; the
  map, the window and its lock must go in one order on all ranks.
* *Limits.* Unsigned cursors, accesses split at the end of a ring, holes that
  begin inside the backing file and end outside, empty lists, archives that end in
  the middle of an item, system calls that transfer less than asked for.

### What makes each part correct

* Ring: reserved bytes stay what was written until they are consumed; no more is
  reserved than there is room.
* Tree: it is a map from offsets to locations; `add` and `remove` are the pointwise
  operations on that map; a merge assigns what the other tree has.
* Handler: between synchronisations a rank sees its own writes over the state of
  the last one; a synchronisation gives all ranks the same file, in which the
  highest rank wins; a truncation cuts it for all; every collective call returns
  for everyone, also when rank 0's system call fails.
* Read: each byte of the request is put in the buffer once, by the right source.
* Blocks: a read gets the bytes of the block it names; after a flush all have landed.
* Store: `load` restores what the last completed `save` recorded, and nothing
  written later overwrites what a loaded index points at.
* Store: a file found by its number is the file that was opened; ranks that exchanged
  their trees in different groups agree in the end; a file is created or cut for an
  open once; every open ends on every rank.
* Memory: what was flushed and drained survives a power failure, and in the rank's own
  block; nothing is unmapped while a Get may read it; nobody goes on alone.
* Barrier: nobody leaves before all have come; everyone leaves.
* Archives and encodings: what goes in comes out, and what is cut short is refused.
* Handles, descriptors, initialisers: one owner at a time, who gives them back.

## 2. Modules

```
RingTracker <- RingBuffer ==> RingLog         ExtentTree <- ExtentIndex ==> ExtentMap
                   ^                                            ^
                   |                            ExtentTreeProofs +-- BurstBuffer ==> EpochFile
                   |                                   ^              ^
                   |                                   +---- BurstBufferProofs
              MemoryProofs                             +---- ReadPathProofs
                   |                                              v
Topology <- RpmBlocks ==> AsyncReads          ExtentList <- ReadPath
Lifecycle <- LifecycleProofs                  Store <- StoreProofs
Snapshot, Pmem <- SnapshotProofs              SenseBarrier ==> Rendezvous
                                                   ^
Handles, Runtime, ThreadLocal, SparseExtent,       |
DeferredFile, WholeFile, Encoding, Archive,        |
Clocks (-> Welford) <---------------------- UtilitiesProofs
SparseExtent, DeferredFile, WholeFile, Archive, Serializer, Pmem, Handles, ThreadLocal,
Runtime, Encoding, Clocks (-> Welford), Powers <- MCUtilities
   A <- B : B uses A          A ==> B : A implements the abstract specification B
```

`MC<Module>` gives the sets of inputs for the runs. Operators named `X_Suffix` are
altered forms of `X` (a dropped guard, an off-by-one ...). No specification uses
them; each is there to show that some property notices that mistake.

**RingTracker, RingBuffer, RingLog; proofs in MemoryProofs.** `tracker` is the head and
tail, unsigned integers `% Word`; `block` the bytes of the ring and, behind them, the first
`BehindSize` of what else is in the block, its metadata (`Behind`), where a wrong split would write. `ReserveNb`, `ReserveUnsafe`, `ConsumeNb`, `ConsumeUnsafe`,
`Pwrite`, `Pread` are the methods; `RingWrite` and `RingRead` split an access at the end
of the ring as the code does. Callers access only what is reserved. `RingLog` is an
endless log with a window of at most `RingSize` bytes and knows nothing of offsets.

**ExtentTree, ExtentIndex, ExtentMap, ExtentTreeProofs.** A tree is a set of nodes; since its nodes
are ordered and disjoint, the iterators of the code are nodes, or the end.
`Add` and `Remove` are what one call does after all its splitting and
coalescing; `Merge` is the loop with its carried iterator. Cutting a node moves the
pointer of the right piece; neighbours are joined when client and pointers continue.
`ExtentIndex` makes these operations the actions of a tree, `ExtentMap` is the map
from offsets to locations.

**ExtentList, ReadPath, ReadPathProofs.** `pread_noflush` and `pread` as a machine with a `pc` for each
loop: the local tree, the holes against the global tree, the remaining holes against
the file and the zeros beyond its end, the flush. Actions are iterations of the loops.
Every byte put in the buffer is recorded with its source; a Get may land at any step
until the flush. The trees do not change during a read: one thread uses a handler.

**BurstBuffer, EpochFile, BurstBufferProofs.** All ranks, one file, one handler each on the
communicator of all ranks. `Pwrite` appends to the ring and adds to the local tree,
or fails for lack of room. `SyncEnter`, `SyncMerge`, `SyncSizeRoot`, `SyncSize` are the parts
of `sync` between its collective calls; a rank that is alone exchanges nothing and keeps its
local tree (`SyncAlone`, for the return at `bb.hpp:120`); `TruncateRoot`, `TruncateRootFails`, `Truncate` those
of `truncate`. A collective call is a record that ranks join in the order of their
calls: an all-gather lets a rank go on when all have offered, a broadcast when the
root has called. So ranks are up to a whole call apart. `EpochFile` is a file with one
pending set of writes per rank, and a history of decided synchronisations and
truncations which each rank adopts one at a time.

**Topology, RpmBlocks, AsyncReads; proofs in MemoryProofs.** The tables `topology.hpp` computes
from who is on which node; reads of a block through the local mapping or by a Get;
`rank_accessed_` with its three sorts of value (no target, one, several) and the flush
that goes by it. `AsyncReads` says: a read of block r, when it has landed, has
block r's bytes; a flush waits for all.

**SenseBarrier, Rendezvous; proofs in UtilitiesProofs.** `wait` in its atomic steps: flip the
thread's sense and decrement, reset the counter, publish the sense, spin. `Rendezvous`: each
thread is outside or inside a round, and goes out only after all have come in.

**Snapshot, SnapshotProofs.** `save` with an action for each index it appends, for the throw when the
ring is full, and for the three metadata words; `load` of a new store; `open` by all
ranks, whose exchange (`Exchanged`) a rank that is alone leaves out. A crash ends the job between any two steps; up to `MaxTorn` ranks that were
writing metadata may have any mixture of their old and new words. `load` of metadata
that do not fit the memory is the state "broken".

**Store, StoreProofs.** `open`, `unlink`, `sync` and `pwrite` of handlers on communicators of any ranks, the
opening of the backing file at its first use, and a directory in which files are
created, removed and their inode numbers used again. A file is one piece here (its
last write), so that the state is who has which index, not what is in it. Collective
calls are entries of one list which every rank goes through in order, as far as it is a
member. `Open` is the root's, `OpenFails` its exception that is broadcast, `OpenOther`
what the others make of the broadcast. `Merge` clears the local entry only in a
communicator of all ranks. `Indexed` is the look-up in `bb_store_`.

**Lifecycle, LifecycleProofs.** `peanuts_store_create` to `peanuts_store_free`: the split of the
communicators, the first rank of a node that opens and resizes the memory while the
others wait at the barrier, the maps, the window and its lock, the Gets, and the
destruction in the order of the members. Any step that a rank takes by itself may throw,
at whatever point of it; it undoes what it did, and nobody else hears of it.

**Pmem; proofs in SnapshotProofs.** Writes, fills and moves of a local block through a cache that writes back when it
likes. A write with `NOFLUSH` promises nothing; one without, and `flush` then `drain`, promise
the bytes; the power may fail between any two steps of them.

**Archive (proofs in UtilitiesProofs), Serializer.** `Archive` has what the burst buffer does with archives: indices that are
saved one behind the other through one buffer and loaded, trees that are gathered with
their sizes. `Serializer` has the library: types are records, `SerializeOne` and
`DeserializeOne` follow its overloads, with the growth of the buffer, its limit, byte
order, variable-length integers, and errors in the middle of an item.

**DeferredFile, WholeFile; proofs in UtilitiesProofs.** The life of descriptors that objects open, move, close and
destroy in one process, where `close` may report an error after the descriptor is gone; reads and
writes as a seek and a loop of system calls, each interrupted, failing or short. `Fds`, the
descriptors a process can have, is a bound: without one left no `open` is taken.
`WholeFile` is the loop that reads to the end of a file that others change.

**Handles; proofs in UtilitiesProofs.** The objects that hold a handle of MPI, libpmem2 or the system: made,
borrowed, moved, assigned over, released and destroyed, with the deleter that goes along. `raw` has the
handles that the program holds itself: what the library gave it (`ObtainRaw`) or it took out of an object
(`Release`). It frees them (`FreeRaw`) or has objects made that will (`Adopt`: `info{native}`,
`comm{native, true}` and their like).

**ThreadLocal, Runtime; proofs in UtilitiesProofs.** Values under a pthread key while threads and objects come and go.
Options, singletons and MPI with the initialisers that set them up, the environment they
read and the list of what is registered.

**SparseExtent, Encoding, Welford, Clocks (proofs in UtilitiesProofs), Powers.** Algorithms against what they should compute:
slices against sets of bytes, a decoded stream against what was encoded, a
summary against its samples, powers and units against arithmetic without wrap-around.
`from_human` reads texts without a number, with one beyond all words (whose value is then anything) and with
suffixes that are no unit. The clock of the stopwatch may be set, and is finer than its unit (`TicksPerUnit`),
so that laps are rounded.
Doubles are exact rationals there: the algebra is checked and the rounding is not.

### External code, as it is used

MPI collectives (ranks match their calls in order; an all-gather completes when all
have called, a broadcast when the root has), MPI Get (lands any time up to
the flush of its target), the backing file (a size and its bytes; a call fails or not),
persistent memory (keeps words that were written, and of a cached line what was written
back), the file system (a directory, inode numbers, descriptors), libpmem2 and pthread
keys. These are marked external where they have definitions of their own.

## 3. Runs

| run | instance | shows |
|---|---|---|
| `ring` | 3-byte ring and 2 bytes behind it, 4-bit words, LSNs to 7 | `CapacityRespected`; `LogUntilOverrun`: every step is one of the log until an unsafe call overruns, and none writes behind the ring |
| `tree` | 3 offsets, extents in the rings of two clients, every sequence of operations | `TreesWellFormed`: disjoint, joined, `find` is the first overlap; `OperationsImplementMap`; `MergeAssigns` |
| `bb` | 2 ranks, 3-byte rings, 3 offsets, any extents, 2 writes, 2 calls, truncations | `NoMisdirectedRead`: pointers name ring bytes of that offset; `Converged`; `EpochsWhileOnePiece`: it implements `EpochFile` |
| `read` | 5 offsets, every pair of a local and a global tree of at most two nodes, every request and file size | `HolesExact`; `ReadsRight`: each byte written once and by the right source, and the returned length; `LoopsAdvance` |
| `rpm_blocks` | 4 ranks on one, two or four nodes, evenly and consecutively; 2 buffers | reads implement `AsyncReads`; `FlushCompletes`; `TablesRight` for all 256 placements |
| `sense_barrier` | 4 threads, unbounded rounds | agreement on the round, implements `Rendezvous`, everyone leaves |
| `snapshot` | 2 ranks, one file, 3-unit rings, one write each, two crashes that may tear | `LoadRestores`, `BytesIntact` |
| `store` | 3 ranks, communicators of three, two and one, one path and number, 2 calls, 1 write, 1 removal | `NoForeignBytes`, `NothingLeftBehind`, `HandlersShareIndex`, `CutByRootOnly`, `CallsReturn` |
| `lifecycle` | 3 ranks on two nodes, files and devices of four sizes, failures at any step | `RemoteMemoryLives`, `OneSizePerNode`, `AllOrNothing`, `StoresCreated` |
| `utilities` | the parts of `MCUtilities`, each by itself from its own initial states | one property for each pair of question and part, below |
| `bb_lost`, `read_past` | subsets of the above | disagreements of code and comments, section 6 |

`utilities` is one run of many small ones: `part` says which module moves, and all others
stay idle. `SlicesExact` (sparse extents), `OwnedOnce` (descriptors; thread-local values),
`HandlesOwned`, `ArchivesComeBack` (saves; exchanges), `DurableInOwnBlock`, `NumbersExact`
(encodings; powers and units), `MeasurementsSound` (statistics, calibration, laps), `RoundTrips`
and `ShortRefused` (library of archives), `OwnersFinalise`, `ReadsWhole` and `TransfersInPlace`.

*Why these bounds.* LSNs to 7 go more than twice around a ring of three, so that an
access can end before, at, and beyond its end in the first and in later rounds; the
proofs cover all other sizes. Three offsets let one node lie inside another and
stick out on each side, which are all the ways `add` can cut; merges see trees of up to
three nodes. In `bb`, two ranks suffice for one to be a call ahead of the other. Five offsets
let a hole lie between two nodes, and begin before and end beyond the end of the file.
Four ranks are the least with two nodes of two, where a node's window has two blocks on a
node that is not the reader's. In `snapshot` the ring becomes full in the middle of a save
and a job that has loaded crashes again; there one write, and one saved index, takes one
unit, and a file is one piece. In `store`, three ranks are the least with a communicator of
several that leaves one out; one number and one removal let it be used again. `lifecycle`
has a node with a first rank and another, and a rank alone. In `utilities`, texts, items
and inputs are chosen at the boundaries of their widths (a varint of one, two and three
bytes; a bit set of nine bits), and `WordBits = 7` lets every unit wrap around. A write that is not split
at the end of the three-byte ring goes up to two bytes beyond, so that `BehindSize = 2` sees it. Three laps of a clock with
three ticks to a unit are the least whose roundings together make more than a unit.

*Larger instances* that passed but take too long to repeat each time: `store` with two writes
(995 thousand states), and with two ranks, three calls and two writes (1.5 million states,
without `CallsReturn`).

*Where the system may stop.* A job of `snapshot` may just end, and parts of `utilities` are
done at some point, so that these two have `CHECK_DEADLOCK FALSE`. In the others a rank that waits for
ever is a deadlock that the run would report, apart from the named final states: `Finished`, and
`Stranded` in `lifecycle`, where a rank that threw leaves others in a barrier, as it does in the code.

*Symmetry.* `utilities` has it for the file objects, which are in an initial state that does not
tell them apart and in no liveness property.

*Preconditions.* `EpochsWhileOnePiece` supposes two ranks or more, because a rank that is alone keeps its
writes in the local tree and puts nothing into the global one, and that a rank writes one contiguous piece between
two synchronisations, because otherwise `merge` loses bytes (section 6); `NoMisdirectedRead` and
`Converged` suppose neither. `HandlesOwned` supposes that a program gives to an object, or frees, only handles
that it holds itself. The first half of `MergeAssigns` is about merges where no node of the other
tree is "continued" or "missed" in the sense of section 6, the second half about all.
`BytesIntact` is about jobs in which `sound` holds: at each crash the ranks'
snapshots fitted together and no record was torn; the code does nothing to make
that so, and the part of it about the pointers of a rank into its own ring does
not need the ranks' snapshots to fit together. `NoForeignBytes` supposes that every rank
unlinks a file before it is removed; `NothingLeftBehind` and `HandlersShareIndex` that
no rank has unlinked one. `Store` has only communicators for which the receive count
of the gather is right (section 6). `OwnersFinalise` supposes that initialisers are
destroyed in the reverse order, as automatic objects are.

*Fairness.* `Store!FairSpec` has weak fairness, per rank, of the steps of a call it is in and of
joining a call that others have made: a rank in a call runs until it must wait, and MPI programs
are required to make the same collective calls everywhere. Nothing forces a rank to start a
write or a call of its own. `Lifecycle!FairSpec` supposes that all ranks call
`peanuts_store_create`, that each goes on by itself (or throws), and that a Get lands. No rank is made to call
`peanuts_store_free`. `SenseBarrier!FairSpec` has weak fairness of each thread's steps inside
`wait`, which is that the system runs threads that spin; nothing forces a thread to call. That
reads end is not stated with fairness but as the variant `LoopsAdvance`: each step of the loops
gets nearer to the end.

Every property of a passing run has an altered definition in `PROJECT.json` (`mutants`)
under which TLC finds it violated.

## 4. Proofs

TLAPS checks the following for all values of the constants, under the named assumptions.

* **Ring** (`MemoryProofs`). Assumptions: `WordAssumption`, a positive word, and
  `RingAssumption`, a ring of 1 to Word - 1 bytes with LSNs below Word. The inductive
  invariant is `TypeOK /\ CapacityRespected`. The capacity is not inductive without the
  types: cursors are differences modulo `Word`, and only the ranges exclude the wrap.
  `NoAliasing` (two LSNs of a window no longer than the ring have different offsets)
  is the arithmetic core; from it each write leaves the other reserved bytes alone
  and each read finds its own. Results: `TypeCorrect`, `CapacityCorrect`,
  `LogUntilOverrunCorrect` and `Refinement`: with the checked calls alone (`SpecNb`) the
  ring implements `RingLog`.
* **Tree** (`ExtentTreeProofs`). For trees of any size and any natural offsets, from `Tree(T)`, non-empty,
  disjoint nodes: `FindReturnsFirst`; `RemoveErases` and `AddAssigns`, that `remove` and `add` leave such a tree
  and are the pointwise operations on the map from bytes to locations; `TreesStayCoalesced`. The argument
  follows the code: what is carved is a set of parts of nodes beside the extent, so nothing is
  equivalent to the new node and it is inserted; a join covers the bytes of its two nodes at their
  old places; only pairs with the new node can be joined, and its neighbours are the only candidates.
* **Merge** (`ExtentTreeProofs`). `MergeInvents`: the merge of any two trees is a tree, each byte of it is
  where one of the two had it, and only bytes of the merged tree can be lost. `MergeOverlays`: if no node is
  "continued" or "missed" (section 6) nothing is lost either, so these two are the only ways to
  lose bytes. `Exact` is the invariant of the loop: before the node that comes next the
  result is the overlay, behind it the old tree, and the carried iterator is where a search would
  begin. `MergeStaysCoalesced` does not need that. The loop is a recursive
  function; that there is such a function (`PassesExist`) and what each of its values has is
  shown from the least number at which it would fail (`SmallestExists`).
* **Index** (`ExtentTreeProofs`). With `IndexInv`, both trees of `ExtentIndex` well formed, the three lead to
  `TreesAlwaysWellFormed`, `OperationsAlwaysImplementMap` (the refinement of `ExtentMap`) and
  `MergeAlwaysAssigns`, under `IndexAssumption`: the extents are not empty and lie within the index.
* **Burst buffer** (`BurstBufferProofs`), under `BurstBufferAssumption`: a positive number of ranks, rings and files
  of any size, writes that are not empty.
  - `NeverMisdirected`. The pointers in a tree are right only if those of all trees
    that may still be merged into it are, so `IInv` says so of every tree there is, those in flight
    between ranks included (`AllSound`), with the types (`Shape`) and with where ranks are in the list of
    calls (`InCalls`: only the last call can be undecided; a rank has offered in the calls it has
    entered). `MergeInvents` carries it through a synchronisation.
  - `Convergence`. Each rank computes its tree by itself, so equality of two ranks is not inductive; that there is
    one sequence of trees and of sizes (`Along`) on which all ranks are, each at its place,
    is (`HInv`, theorem `OneTrail`, for two ranks or more; one rank alone has nothing to agree on). The root of a broadcast may be ahead with the only copy of the answer
    (`RootAhead`).
  - `HandlersKeepEpochs`, the refinement of `EpochFile` by trees, rings and their exchange. `EInv` adds to
    `HInv` that a rank offers bytes of its own ring only (`OwnTrees`), written later than all it has
    offered before (`InOrder`); that it offers what is in its tree (`InFlight`); and that these are
    single nodes while writes were single pieces (`Pieces`). It is the theorem `OffersInOrder`, also for two ranks or
    more. A single node
    of newer bytes is never continued or missed, so that by `MergeOverlays` a
    synchronisation puts the pieces on top of each other in the order of the ranks (`AllOnTop`); hence the
    files of the decided rounds are what the trees of the trail find (`Chronicle`, `FilesAre`). Then one lemma
    for each action: `Pwrite` is `Write`, `SyncEnter` is `EnterSync`, `SyncMerge` is `LeaveSync`, the
    truncations are `Truncate` for the root and `Truncated` for the others, and the broadcast of the
    size is a stutter.
* **Reads** (`ReadPathProofs`), under `ReadPathAssumption`: finite trees of non-empty, disjoint nodes. `ReadsAlwaysRight`,
  `HolesAlwaysExact` and `LoopsAlwaysAdvance`. Half of it is about the algorithms on lists: `add` gives the
  union (`AddAllIs`), `inverse` the bytes between (`InverseIs`), the walk along two lists every non-empty
  intersection (`IntersectionIs`). `IInv` has a part for each loop: what is already in the list of found
  extents is in the buffer, or a Get of it is under way and nobody else writes there (`Fetching`);
  in the loop over holes and nodes a byte is found unless its pair is still ahead
  (`InRemote`); the holes behind the iterator of the file loop are filled (`InFile`).
* **Snapshots** (`SnapshotProofs`), under `SnapshotAssumption`: any number of ranks, rings of any size.
  `NothingOverwritten` and `LoadsRestore`, for any crashes. A ring is only written at its head, but the
  head of a job that loads is that of the metadata; so the invariant bounds
  pointers by `Ends`, the head of a job that runs or else the one that a load will find. It says
  that a rank's indices, in use or saved in the ring, are right of its own ring (`OwnIntact`), what a save in
  progress has put there (`Saving`), that the metadata name a whole save unless torn
  (`SavedIsThere`), and as long as the snapshots fitted together also the other ranks' rings (`Together`).
* **Blocks** (`MemoryProofs`). `Accounted`: `rank_accessed_` knows of each outstanding Get,
  for any number of ranks, placement and set of buffers; `FlushCompletesAll` follows. The invariant
  adds to `GetsAccounted` the types of the placement and of the variable, which the
  case split on its three sorts of value needs. `TablesAlwaysRight`: for every placement. `ReadsAreAsync`: the
  reads implement `AsyncReads`, under `EvenlyFilled`, that nodes have equally many ranks, one
  behind the other. The code needs this (section 6), and every placement of the run has it.
* **Barrier** (`UtilitiesProofs`). For a finite non-empty set of threads: `RoundsAlwaysAgree`
  (the counter is the number of threads that have not yet come in this round, and at most
  one thread is about to reset or to publish, when all have come), and from it
  `BarrierRefinement` to `Rendezvous`: one step of the barrier is one arrival, one departure or a stutter.
* **Creation and destruction** (`LifecycleProofs`). For any number of ranks on any nodes:
  `RemoteMemoryAlwaysLives`, `OneSizePerNodeAlways`, `AllOrNothingAlways`. None of the three is
  inductive: the invariant says at which stages a rank is in which collective call, that a
  call some rank has left has been made by all of its members, that the size of a node's
  memory is settled once its first rank is in the barrier, and that a rank whose Gets may
  land has not yet called the free of the window.
* **Memory operations** (`SnapshotProofs`). `DurableAlways`, for a block of any size at any place. That memory and cache
  agree on what is promised (`Promised`) needs that a caller's flush has put its bytes on the way to
  the memory (`FlushedPending`) and that a write in progress is in the rank's own block (`WritingOwn`).
* **Whole files** (`UtilitiesProofs`). `ReadsAlwaysWhole`, for files and first sizes of any length, and system calls that
  transfer any part: the bytes before the position of the loop are the file's (`Filled`), and while nobody changes
  the file the position is not beyond its end (`NotBeyond`).
* **Handles** (`UtilitiesProofs`). `HandlesAlwaysOwned`, for any number of objects and handles. The
  invariant adds the types, and that objects of the classes that never borrow free what they
  hold, without which the program could be handed one that another object frees. Each action is one of a few
  changes of the owners (none, one made, one freed, one handed over, to an object or to the program), with a lemma each.
* **Deferred files** (`UtilitiesProofs`), under `FileAssumption`: descriptors, offsets and the bytes of the payload are
  natural numbers. `DescriptorsAlwaysOwned` and `TransfersAlwaysInPlace`, for any number of objects on one file and
  system calls that transfer any part. A byte goes to or comes from its own offset as long as the position of the
  descriptor is where the call is (`CallInPlace`); that is inductive only because no other object
  has this descriptor, to move or to close it. That a file stays a sequence under an overwrite
  (`WrittenOverIs`) and that there is a lowest descriptor (`LeastUnused`) are lemmas.
* **Values of threads** (`UtilitiesProofs`). `ThreadsAlwaysApart`, for any number of threads and a heap of any size. The
  invariant adds that a pointer is to a value that is neither freed nor lost (`PointersLive`). There are three
  changes of the heap, with a lemma each: a value is replaced, written or deleted.
* **Runtime** (`UtilitiesProofs`). `OwnersAlwaysFinalise`, for initialisers nested to any depth. The property says of the list
  of options that those who added to it are, in order, the ones who take away; the invariant adds that
  they also own the instance (`AddersOwn`) and who holds what (`OwnedByOne`, `OptionsHeld`, `MpiHeld`), so
  that the youngest initialiser, the one that goes, added the last entry or none.
* **Sparse extents** (`UtilitiesProofs`), under `SparseAssumption`: extents and counts are not empty. `SlicesAlwaysExact`, for
  extents, holes and counts of any size and any interval. `RowsApart` and `IndexIs` say that rows are a stride
  apart and that each place is in one, and are the only places with products and quotients; the cases of
  the slices are linear from there. The row of slices is by `FirstSliceIs` what lies between where it
  began and where it has come.
* **Encodings** (`UtilitiesProofs`), under `EncodingAssumption`: inputs are machine words, of any width.
  `StreamsAlwaysDecode` (`EncodingSpec => []StreamDecodes`, the part of `NumbersExact` about `Encoding`), for streams of
  any length, with values added behind a live iterator. The varints of all numbers up to one are a
  recursive function, and so are the sums that are read back: `VarintsExist`, `VarintsAre` and `SumsAre` show
  that they exist and what they are, from the least number at which they would not
  (`LeastNumber`). The invariant then has the places where the varints of the differences end
  (`StreamOf`); the iterator is at one of them (`IteratorAt`), and a difference that is added again is the word
  (`AddedAgain`).
* **Archives** (`UtilitiesProofs`), under `ArchiveAssumption`: what is serialised at once is less than a third of the
  largest `size_t`, so that the growth of a buffer does not wrap. `ArchivesAlwaysComeBack` (`ArchiveSpec =>
  []ArchivesComeBack`), for any indices, any trees and any number of ranks. A fold is a run of steps
  (`FoldsAre`), so that serialising puts each item behind the last whenever the buffer grows (`PutAll`), and reading a tree finds
  as many nodes as its count says (`GetTreeIs`). The invariant of a save has the ends of the indices in the
  ring (`Recorded`); that of an exchange the ends of the trees in what is received, which are the sums of the
  sizes, with zeros behind the last tree when the vector of sizes is longer (`Placed`, `Received`).
* **Statistics and clocks** (`UtilitiesProofs`), under `WelfordAssumption` and `ClocksAssumption`: samples are integers and
  a calibration takes at least two. `MeasurementsAlwaysSound` (`WelfordSpec /\ ClocksSpec => []MeasurementsSound`), for any
  number of threads, samples and processors. Of a rational a fraction is known that it equals (`Is`); then what
  a summary tells are sums of integers (`Moments`, `Tells`), and adding a sample and combining summaries are each one
  identity (`DistancesGrow`, `ShareIdentity`). When no sample is nearer to the mean than the deviation, their
  squared distances would add up to more than they are unless all are zero (`NoneNear`), so that only equal samples
  trap; else the result is between two of the samples (`AverageBetween`). Laps add up but for their
  roundings (`CastRounds`, `RoundingsAdd`), for any number of laps and of ticks in a unit.
* **Store** (`StoreProofs`). `HandlersAlwaysShareIndex` and `CutByRootOnlyAlways`, for any ranks,
  communicators, paths, inode numbers and bounds. The invariant: calls keep what they are once they
  are made, handlers and indices of a rank are from calls it has made, the root of an open has been there
  and has its file open, so that it never opens it again with the flags that create or cut it; and
  while nobody unlinks, a rank has one index per inode number and every handler uses it.
* **Files of the store** (`StoreProofs`). `NoForeignBytesAlways`: inode numbers are used
  again, and still a rank finds only what was written to the file it opened. The first half of the
  invariant (`CallsInv`) says that a rank that comes to a sync has the handler it goes through; the second
  (`FilesInv`) that an index and what is offered of it are of one file, and that a file of which some
  rank has an index in `bb_store_`, or is about to make one, has a name. So what an open
  finds by number is of the file that has the number now. The proof uses that files are unlinked
  by all ranks before they are removed (`~ stale`) just where a file loses its name.
* **Agreement in the store** (`StoreProofs`). `NothingLeftBehindAlways`, for communicators that overlap
  in any way and are called in any order. The invariant is a ledger for each inode number (`Balanced`): a sequence
  `T`, in which `T[k]` is the entry that all ranks have when they are done with call `k`, had nothing been
  exchanged in smaller groups. A rank's entry differs from that only where a smaller group has exchanged one or
  the rank has kept one for itself, and then some rank still owes an entry to the next call of all ranks (`Owes`,
  `Accounted`). When nobody owes anything, all have the entry of one place of `T`. The lemmas are first
  on ledgers as values (`LedgerWritten`, `LedgerMerged`, `LedgerLonger`, `LedgerPassed`, `LedgerJoined`:
  an entry written, merged, a call made, left, joined), then one for each action.

Only model-checked:

* Liveness (`CallsReturn`, `AllLeave`, `StoresCreated`), which needs fairness and ENABLED, beyond the prover.
* Of the utilities, the part of `NumbersExact` about `Powers`, `RoundTrips` and `ShortRefused`. What recursive
  operators compute for every input (`SerializeOne`, `DeserializeOne`, `power`) would need induction over data, which
  the installed provers do not instantiate. The recursive functions of the proofs above take a number, and there the
  induction is an argument about the least counterexample. (`OwnedOnce` is `DescriptorsOwned` and `ThreadsApart`
  together, and both are proved; the part of `NumbersExact` about encodings, `StreamDecodes`, is proved too.)

## 5. How far the models go

* Integers have a width in `RingTracker`, `Archive`, `Serializer`, `Encoding`, `Powers` and `Runtime`;
  elsewhere bounds are far from it. The length of a Get is narrowed to `int` (`mpi/win.hpp:156`), which
  no model has.
* One thread per rank uses handlers. `BurstBuffer` has trees and one handler per rank on the
  communicator of all; `Store` has many handlers and communicators, and one piece per file.
  Truncation on a smaller communicator is in neither.
* Writes are not empty (section 6).
* Bytes are named by rank, write and offset, so that a wrong source is a wrong byte.
* Nothing in `bb.hpp` consumes from a ring: it fills and then writes fail. The
  consuming calls are in `RingBuffer` all the same.
* `Snapshot` loads only into a store that was just constructed.
* `Serializer` has no protocols, identifiers of types, remote calls, or structures that are
  copied as bytes; no code of peanuts uses them.

## 6. Where the code and what is said of it disagree

With a run:

* `bb_lost` - `bb.hpp:143` says remote local trees are merged into the global tree; a rank
  that wrote two pieces with another rank's bytes between them can lose one. The local tree is cleared
  afterwards (`bb.hpp:155`), so that nobody reads that write again.
* `read_past` - the inner loop that fills "remaining holes" (`bb.hpp:293`) shares its iterator with the
  outer one and leaves it at the end of a `std::forward_list`; the outer `++it` then goes beyond.
  Compiled, it is a segmentation fault.

Seen while modelling, without a run. In the burst buffer:

* After "fill the rest with zeros" (`bb.hpp:287`), that loop starts at the current hole: bytes just
  read from the file are zeroed. `ReadsRight` leaves these bytes out.
* `merge` loses nodes in two ways. *Continued*: the inserted node joins its right or left neighbour,
  and the iterator that was carried along stands on a node that is no longer what the next
  insertion needs: merging `[0-1:2:1][2-3:3:1]` (extent:pointer:client) into `[0-1:0:1][1-2:0:2][2-3:1:1]`
  leaves `[2-3:1:1]`. *Missed*: a node that lies inside one of the tree's is not found and is passed over: merging
  `[0-12:100:1][12-15:500:1][15-20:115:1]` into `[0-20:100:1]` leaves the tree as it was. The compiled
  header does the same.
* An empty extent breaks the assertion at `extent_tree.hpp:234`; an empty read inside an extent puts an
  empty extent in the list.
* Beyond the end of the trees `pread` returns a count that is negative or leaves out bytes of the file (`bb.hpp:306`);
  `projects/peanuts_c/tests/peanuts_c_mpitest.cpp:62` expects `read >= 0`.
* A read that throws at the file (`bb.hpp:277`) leaves Gets outstanding into a buffer that its caller takes for free.
* The gather of trees passes a vector of the world's size; its receive count is divided by the size
  of the communicator (`mpi/comm.hpp:85`, `bb.hpp:130`) and too large for communicators of half of the world or less.
* An `open` that truncates a file keeps the index of what was in it (`bb.hpp:460`). Each handler
  has a cached size of its own (`bb.hpp:109`), which a truncation through another one does not change.
* The ring never regains space: a program that writes long enough gets ENOSPC.
* A `load` from memory where nothing was ever saved sets the capacity of the ring to zero.

In the memory and the topology:

* With ranks placed in turn on the nodes, the first rank of a node is not what `topology.hpp:94` computes;
  with unevenly filled nodes, ranks of different nodes may count as local
  (`topology.hpp:58`), and remote blocks are located by the reader's block size (`rpm.hpp:66`).
* `rank_info` is written by index into a vector that was only reserved (`rpm.hpp:223-225`), and the
  default move of `rpm` keeps the pointer that its lock has to the window (`rpm.hpp:46`).
* A rank that throws during creation leaves the others in the barrier or in the creation of the window.

In the supporting code:

* A moved-from `deferred_file` is open with descriptor -1. In `zpp/file.h`, `sync()` throws when it
  succeeds (1309), `read()` with one byte left or three ends in a wrapped size or not at all, and `seek` is documented to return the previous position but
  returns the new one.
* `sparse_extent` has three members and an inspector for four; `sparse_extent_tree` inserts nothing. The
  `++` of the iterator in `varint_encoding.hpp` counts on a dereference before it.
* `bitset`s are or-ed into the bytes of the buffer (`zpp_bits.h:2285`), which must be zero.
* `from_range` of the statistics throws when a part has no samples; the calibration of the counter divides
  by zero when all samples are the same (`utils/tsc.hpp`); `from_human` divides by zero for the units y and z,
  whose divisors wrap around, and takes a number beyond all words for whatever the uninitialised value holds.
* Options of the runtime are copies made before they are set; initialisers that are not destroyed in
  reverse order remove the wrong entry; a `MPI_Info` passed as it is, also one that the caller did not make, becomes
  a temporary that frees it (`mpi/info.hpp:33`; `HandlesOwned` supposes that the caller held it and gave it away);
  `thread_local_value`s that go before their threads leak the values.

## 7. Not modelled, and why

Trees of sparse extents (unfinished, section 6); the rest of the MPI wrappers and of the C interface, which
are calls with a check of their codes; protocols and remote calls of `zpp_bits.h` and the parts of
`zpp/file.h` that nothing calls; inspectors, formatting, random strings: no state of the burst
buffer. Benchmarks and build files measure and build what is modelled.

## 8. Plan

Next, in this order:

1. Truncation through one of several handlers of a file, and the cached sizes of the others, in `Store`.
2. A load into a store that is in use, in `Snapshot`.

Small runs are joined to larger ones of the same module where they ask the same
question, so that the whole set stays quick to run.
