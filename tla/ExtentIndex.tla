---------------------------- MODULE ExtentIndex ------------------------------
(***************************************************************************)
(* A pair of extent trees under every sequence of calls: tree is the       *)
(* target of the operations of extent_tree.hpp, delta the tree that is     *)
(* merged into it.  The calls a caller may make are given by constants.    *)
(***************************************************************************)
EXTENDS ExtentTree

CONSTANTS
    IndexSize,    \* file offsets are 0 .. IndexSize - 1
    AddCalls,     \* the nodes that may be added to tree
    DeltaCalls,   \* the nodes that may be added to delta
    RemoveCalls   \* the extents that may be removed from tree

VARIABLES tree, delta

indexVars == <<tree, delta>>

IndexOffsets == 0 .. IndexSize - 1

Nodes == [b : 0 .. IndexSize, e : 0 .. IndexSize, ptr : Int, client : Int]

\* The extents of the calls are not empty and in the file.
ASSUME IndexAssumption ==
    /\ IndexSize \in Nat
    /\ \A v \in AddCalls \cup DeltaCalls : v \in Nodes /\ v.b < v.e
    /\ \A v \in RemoveCalls : v.b \in IndexOffsets /\ v.e \in 0 .. IndexSize /\ v.b < v.e

IndexInit == tree = {} /\ delta = {}

AddToTree(v) ==
    /\ tree' = Add(tree, v)
    /\ UNCHANGED delta

AddToDelta(v) ==
    /\ delta' = Add(delta, v)
    /\ UNCHANGED tree

RemoveFromTree(v) ==
    /\ tree' = Remove(tree, v)
    /\ UNCHANGED delta

\* merge leaves its argument alone; its caller may clear it or not.
MergeDelta ==
    /\ delta # {}
    /\ tree' = Merge(tree, delta)
    /\ UNCHANGED delta

ClearDelta ==
    /\ delta' = {}
    /\ UNCHANGED tree

IndexNext ==
    \/ \E v \in AddCalls : AddToTree(v)
    \/ \E v \in DeltaCalls : AddToDelta(v)
    \/ \E v \in RemoveCalls : RemoveFromTree(v)
    \/ MergeDelta
    \/ ClearDelta

IndexSpec == IndexInit /\ [][IndexNext]_indexVars

-----------------------------------------------------------------------------
(* Properties. *)

\* The find of extent_tree.hpp:143 returns the first node that shares a byte
\* with the extent asked for, and none only if there is no such node.
FindIsFirst ==
    \A v \in RemoveCalls : Find(tree, v) = First({m \in tree : Overlaps(m, v)})

\* Whatever was added, split or merged, the nodes of a tree are non-empty and
\* never share a byte (extent_tree.hpp:222-279): the order of the std::set is
\* total on them, a file byte has at most one ring byte, and a look-up finds the
\* first node of several.  Adjacent nodes that describe one run of one client's
\* ring are always joined, so that sequential writes keep the tree small.
TreesWellFormed ==
    /\ \A T \in {tree, delta} :
          T \subseteq Nodes /\ NonEmpty(T) /\ Disjoint(T) /\ Coalesced(T)
    /\ FindIsFirst

MapOf(T) == [o \in IndexOffsets |-> LocationOf(T, o)]

Map == INSTANCE ExtentMap WITH
          Offsets <- IndexOffsets, map <- MapOf(tree), delta <- MapOf(delta), None <- Hole

\* The four operations other than merge do to the bytes of the file what the
\* map promises: the last assignment to a byte wins, the bytes around it keep
\* the ring bytes they had when a node is cut in front, behind or in two, and
\* clearing the merged tree leaves the bytes merged from it.
OperationsImplementMap ==
    [][ /\ \A v \in AddCalls : AddToTree(v) => Map!Assign(v.b, v.e, v.ptr, v.client)
        /\ \A v \in DeltaCalls : AddToDelta(v) => Map!AssignDelta(v.b, v.e, v.ptr, v.client)
        /\ \A v \in RemoveCalls : RemoveFromTree(v) => Map!Remove(v.b, v.e)
        /\ ClearDelta => Map!Clear ]_indexVars

\* delta has a node that ends inside a node of tree which goes on, at that
\* byte, where the first one stops: the same run of the same ring, which the
\* insertion will join into one node.
Continued ==
    \E v \in delta, m \in tree :
        /\ v.client = m.client
        /\ v.ptr - v.b = m.ptr - m.b
        /\ m.b <= v.e /\ v.e < m.e

\* delta has a node beyond another one, where the tree holds a node as well,
\* and the tree has bytes of a third node in between.  The iterator that merge
\* carries along is then still at the third node when the far one is inserted.
Missed ==
    \E u, v \in delta, m, k \in tree :
        /\ u.e < m.e /\ m.e <= v.b
        /\ Overlaps(k, v)

\* Merging assigns every byte of delta, as long as no node of delta is
\* continued by the tree and none is missed.  Whatever the two trees are, it
\* never gives a byte a ring byte that neither of them had for it, and leaves
\* the bytes alone that delta has not: what it can do at worst is to keep or to
\* lose the old location of a byte (extent_tree.hpp:155-169).
MergeAssigns ==
    [][MergeDelta =>
          /\ ~ Continued /\ ~ Missed => Map!Merge
          /\ \A o \in IndexOffsets :
                \/ LocationOf(tree', o) = LocationOf(tree, o)
                \/ /\ LocationOf(delta, o) # Hole
                   /\ LocationOf(tree', o) \in {LocationOf(delta, o), Hole}]_indexVars

=============================================================================
