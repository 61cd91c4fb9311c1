-------------------------------- MODULE Archive --------------------------------
(***************************************************************************)
(* What goes through the archives of zpp_bits.h: the indices of a store,   *)
(* saved to a ring one after the other and loaded from it (bb.hpp:353),    *)
(* and the local trees that the ranks of a communicator exchange to        *)
(* synchronise (bb.hpp:119).  A buffer is a sequence of cells; a value of  *)
(* width w takes w of them, each with its place in the value, so that a    *)
(* value read from the wrong place is not one.                             *)
(***************************************************************************)
EXTENDS Integers, Sequences, SequencesExt

CONSTANTS WordMod,      \* words are 0 .. WordMod - 1
          Indices,      \* what may be saved: sequences of bbs
          Worlds        \* what may be exchanged: the local tree of each rank

VARIABLES
    phase,      \* what is done: nothing, "save", "load", "sizes", "trees", "merge"; how it failed
    bbs,        \* the indices to be saved
    ring,       \* what the ring holds between the snapshot's LSN and its head
    cur,        \* how many have been saved; the LSN up to which load has come
    out,        \* the output archive with its buffer
    loaded,     \* what load has inserted, or what has been merged, in its order
    trees,      \* the local tree of each rank of the communicator
    world,      \* how many ranks there are
    sizes,      \* the vector of the sizes of the serialised trees
    in          \* the input archive

archiveVars == <<phase, bbs, ring, cur, out, loaded, trees, world, sizes, in>>

HeaderWidth == 2        \* of the size_t before each index
InoWidth    == 2
CountWidth  == 1        \* default_size_type
NodeWidth   == 3

\* The displacements of what the ranks send: an exclusive scan of the counts.
Displacements(counts) == [i \in 1 .. Len(counts) |-> FoldLeft(LAMBDA x, y : x + y, 0, SubSeq(counts, 1, i - 1))]
Total(counts)         == FoldLeft(LAMBDA x, y : x + y, 0, counts)

TreeWidth(tree) == CountWidth + NodeWidth * Len(tree)
BbWidth(bb)     == InoWidth + TreeWidth(bb.global) + TreeWidth(bb.local)

\* What is serialised is far from the largest size_t: a buffer grows to less
\* than three times what is in it.
IsSequence(s) == s \in Seq(Range(s))
SmallTree(tree) == IsSequence(tree) /\ 3 * TreeWidth(tree) < WordMod
SmallBb(bb) ==
    /\ bb = [ino |-> bb.ino, global |-> bb.global, local |-> bb.local]
    /\ IsSequence(bb.global) /\ IsSequence(bb.local)
    /\ 3 * (HeaderWidth + BbWidth(bb)) < WordMod

ASSUME ArchiveAssumption ==
    /\ WordMod \in Nat \ {0}
    /\ \A saved \in Indices : IsSequence(saved) /\ \A k \in DOMAIN saved : SmallBb(saved[k])
    /\ \A sent \in Worlds :
          /\ IsSequence(sent) /\ \A i \in DOMAIN sent : SmallTree(sent[i])
          /\ Total([i \in DOMAIN sent |-> TreeWidth(sent[i])]) < WordMod

\* An archive: the buffer and the position.
Arch(data, pos) == [data |-> data, pos |-> pos]
EmptyArchive == Arch(<<>>, 0)
Lost == <<"lost", 0>>   \* a cell that was written outside its buffer

Cells(v, w)      == [i \in 1 .. w |-> <<v, i>>]
Resized(data, n) == [i \in 1 .. n |-> IF i <= Len(data) THEN data[i] ELSE <<0, 0>>]
Remaining(a)     == (Len(a.data) - a.pos) % WordMod

\* Resize a buffer that is too short for n more cells, by half more than that.
EnlargeFor(a, n) ==
    IF n > Remaining(a) THEN [a EXCEPT !.data = Resized(@, ((Len(@) + n) * 3) \div 2)] ELSE a

\* Serialise an item <<value, width>>; a write beyond the buffer is lost.
Put(a, item) ==
    LET b == EnlargeFor(a, item[2])
    IN  [data |-> IF b.pos + item[2] > Len(b.data) THEN b.data \o <<Lost>>
                  ELSE [i \in 1 .. Len(b.data) |->
                           IF i \in b.pos + 1 .. b.pos + item[2]
                           THEN Cells(item[1], item[2])[i - b.pos] ELSE b.data[i]],
         pos  |-> b.pos + item[2]]

\* out(items): serialise them and cut the buffer to what was written.
Out(a, items) ==
    LET b == FoldLeft(Put, a, items)
    IN  IF b.pos >= Len(a.data) THEN [b EXCEPT !.data = Resized(@, b.pos)] ELSE b

TreeItems(tree) == <<<<Len(tree), CountWidth>>>> \o [i \in 1 .. Len(tree) |-> <<tree[i], NodeWidth>>]
BbItems(bb)     == <<<<bb.ino, InoWidth>>>> \o TreeItems(bb.global) \o TreeItems(bb.local)

\* The value of width w that begins behind cell p; garbage if it is not one.
Garbage == 99
ValueAt(data, p, w) ==
    IF SubSeq(data, p + 1, p + w) = Cells(data[p + 1][1], w) THEN data[p + 1][1] ELSE Garbage

\* Deserialise a value of width w: whether there was one, what was read, and
\* the archive after it.
Get(a, w) ==
    IF w > Remaining(a) THEN [ok |-> FALSE, value |-> Garbage, rest |-> a]
    ELSE [ok |-> TRUE, value |-> ValueAt(a.data, a.pos, w), rest |-> [a EXCEPT !.pos = @ + w]]

\* A node into a tree that is read; nothing once a read has failed.
GetNode(got, i) ==
    LET node == Get(got.rest, NodeWidth)
    IN  IF got.ok /\ node.ok
        THEN [ok |-> TRUE, value |-> Append(got.value, node.value), rest |-> node.rest]
        ELSE [got EXCEPT !.ok = FALSE]

GetNodes(got, n) == FoldLeft(GetNode, got, [i \in 1 .. n |-> i])

\* A tree: an associative container, which is emptied before.
GetTree(a) ==
    LET count == Get(a, CountWidth)
    IN  GetNodes([ok |-> count.ok, value |-> <<>>, rest |-> count.rest], count.value)

GetBb(a) ==
    LET ino    == Get(a, InoWidth)
        global == GetTree(ino.rest)
        local  == GetTree(global.rest)
    IN  [ok    |-> ino.ok /\ global.ok /\ local.ok,
         value |-> [ino |-> ino.value, global |-> global.value, local |-> local.value],
         rest  |-> local.rest]

-----------------------------------------------------------------------------

ArchiveIdle ==
    /\ phase = "idle" /\ bbs = <<>> /\ ring = <<>> /\ cur = 0 /\ loaded = <<>>
    /\ out = EmptyArchive /\ in = EmptyArchive /\ trees = <<>> /\ world = 0 /\ sizes = <<>>

ArchiveInit ==
    /\ ring = <<>> /\ cur = 0 /\ loaded = <<>> /\ sizes = <<>>
    /\ out = EmptyArchive /\ in = EmptyArchive
    /\ \/ phase = "save" /\ bbs \in Indices /\ trees = <<>> /\ world = 0
       \/ phase = "sizes" /\ bbs = <<>> /\ trees \in Worlds /\ world \in Len(trees) .. 2 * Len(trees) - 1

\* The archive when an index is saved: the buffer is cleared, the position reset.
Cleared_Unreset(a) == Arch(<<>>, a.pos)
Cleared(a)         == EmptyArchive

\* Save the next index: leave room for its size, serialise it behind, put its
\* size before it, and start the buffer again.
SaveIndex ==
    /\ phase = "save" /\ cur < Len(bbs)
    /\ LET begun == Arch(Resized(out.data, HeaderWidth), out.pos + HeaderWidth)
           full  == Out(begun, BbItems(bbs[cur + 1]))
           ser   == full.data
       IN  /\ ring' = ring \o Cells(Len(ser) - HeaderWidth, HeaderWidth)
                           \o SubSeq(ser, HeaderWidth + 1, Len(ser))
           /\ out' = Cleared(full)
    /\ cur' = cur + 1
    /\ UNCHANGED <<phase, bbs, loaded, trees, world, sizes, in>>

StartLoad ==
    /\ phase = "save" /\ cur = Len(bbs)
    /\ phase' = "load" /\ cur' = 0
    /\ UNCHANGED <<bbs, ring, out, loaded, trees, world, sizes, in>>

\* Load the next index: its size, as many bytes, and the bb in them.
LoadIndex ==
    /\ phase = "load" /\ cur < Len(ring)
    /\ LET size == ValueAt(ring, cur, HeaderWidth)
           got  == GetBb(Arch(SubSeq(ring, cur + HeaderWidth + 1, cur + HeaderWidth + size), 0))
       IN  /\ cur' = cur + HeaderWidth + size
           /\ loaded' = Append(loaded, got.value)
           /\ phase' = IF got.ok THEN phase ELSE "load failed"
    /\ UNCHANGED <<bbs, ring, out, trees, world, sizes, in>>

-----------------------------------------------------------------------------

Serialised(tree) == Out(EmptyArchive, TreeItems(tree)).data

\* MPI_Allgather of one number of each member into a vector that begins as
\* zeros and is as long as the world: a rank finds the numbers of the members
\* first, and zeros behind them.
AllGather(sent) == [i \in 1 .. world |-> IF i \in DOMAIN sent THEN sent[i] ELSE 0]

\* All ranks learn the sizes of the serialised trees.
GatherSizes ==
    /\ phase = "sizes"
    /\ sizes' = AllGather([i \in DOMAIN trees |-> Len(Serialised(trees[i]))])
    /\ phase' = "trees"
    /\ UNCHANGED <<bbs, ring, cur, out, loaded, trees, world, in>>

\* The buffer that MPI_Allgatherv fills.
Gathered ==
    LET at == Displacements(sizes)
    IN  [p \in 1 .. Total(sizes) |->
            LET i == CHOOSE i \in 1 .. Len(sizes) : at[i] < p /\ p <= at[i] + sizes[i]
            IN  Serialised(trees[i])[p - at[i]]]

GatherTrees ==
    /\ phase = "trees"
    /\ in' = Arch(Gathered, 0)
    /\ phase' = "merge"
    /\ UNCHANGED <<bbs, ring, cur, out, loaded, trees, world, sizes>>

\* Take the next tree into tmp_tree for the merge; the loop goes on for every
\* entry of sizes but stops when nothing remains.
Finished == cur = Len(sizes) \/ Remaining(in) = 0

MergeTree ==
    /\ phase = "merge" /\ ~Finished
    /\ LET got == GetTree(in)
       IN  /\ in' = got.rest
           /\ loaded' = Append(loaded, got.value)
           /\ phase' = IF got.ok THEN phase ELSE "merge failed"
    /\ cur' = cur + 1
    /\ UNCHANGED <<bbs, ring, out, trees, world, sizes>>

ArchiveNext == SaveIndex \/ StartLoad \/ LoadIndex \/ GatherSizes \/ GatherTrees \/ MergeTree

ArchiveSpec == ArchiveInit /\ [][ArchiveNext]_archiveVars

-----------------------------------------------------------------------------
(* Properties. *)

\* However many indices are saved through one buffer and one archive, and
\* whatever their trees, load finds each of them where the sizes lead it and
\* reads it as it was (bb.hpp:357-370, 382-397).
IndicesComeBack ==
    /\ phase = "load" => loaded = SubSeq(bbs, 1, Len(loaded))
    /\ phase = "load" /\ cur >= Len(ring) => cur = Len(ring) /\ loaded = bbs
    /\ phase # "load failed"

\* Every rank takes the trees of the communicator's ranks from what it
\* received, each once, in the order of the ranks and as it was sent, with the
\* one temporary tree used again for all of them and with a vector of sizes
\* that may have more entries than there are trees (bb.hpp:130-151).
TreesComeInOrder ==
    /\ phase = "merge" => /\ loaded = SubSeq(trees, 1, Len(loaded))
                          /\ Finished => loaded = trees /\ in.pos = Len(in.data)
    /\ phase # "merge failed"

\* Saves and exchanges.
ArchivesComeBack == IndicesComeBack /\ TreesComeInOrder

=============================================================================
