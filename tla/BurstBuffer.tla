----------------------------- MODULE BurstBuffer -----------------------------
(***************************************************************************)
(* One file in the burst buffer of all ranks (bb.hpp): every rank appends  *)
(* what it writes to its own ring and notes it in its local extent tree;   *)
(* sync exchanges the local trees and merges them into every rank's copy   *)
(* of the global tree.  Handlers use the communicator of all ranks.        *)
(*                                                                         *)
(* A ring is the log of module RingLog, whose tail nobody moves: the code  *)
(* of bb.hpp never consumes.  A collective call is an entry of coll, the   *)
(* calls of one communicator in their order; a rank that makes its k-th    *)
(* call finds there what the others have contributed so far.  That every   *)
(* rank makes the same calls in the same order is MPI's rule for its users.*)
(***************************************************************************)
EXTENDS ExtentTree, Sequences

CONSTANTS
    NRanks,        \* number of ranks
    RingSize,     \* bytes of a ring
    MaxOffset,    \* file offsets are 0 .. MaxOffset - 1
    Writes,       \* the extents a rank may write: begin and end
    TruncSizes,   \* the sizes a file may be truncated to
    FileSizes,    \* the sizes the file may have at first
    MaxWrites,    \* bound on the writes of a rank
    MaxCalls      \* bound on the collective calls

ASSUME BurstBufferAssumption ==
    /\ NRanks \in Nat \ {0}
    /\ RingSize \in Nat /\ MaxOffset \in Nat
    /\ \A w \in Writes : w[1] \in Nat /\ w[2] \in Nat /\ w[1] < w[2] /\ w[2] <= MaxOffset
    /\ TruncSizes \subseteq Nat /\ FileSizes \subseteq Nat

Ranks   == 0 .. NRanks - 1
Root    == 0
Offsets == 0 .. MaxOffset - 1
Alone   == NRanks = 1

VARIABLES
    ring,      \* ring[r]: the bytes r has appended to its ring, in LSN order
    local,     \* local[r]: local_tree
    global,    \* global[r]: global_tree
    dsize,     \* dsize[r]: deferred_file_size_ of r's handler
    file,      \* the backing file: its size, and how much of it is its first bytes
    pc,        \* pc[r]: "idle", or where r is in sync: "gather" or "size"
    coll,      \* the collective calls
    done,      \* done[r]: the number of collective calls r has returned from
    nwrites,   \* nwrites[r]: the number of writes of r
    onepiece   \* history: no local tree has had more than one node

vars == <<ring, local, global, dsize, file, pc, coll, done, nwrites, onepiece>>

\* The bytes of a rank's n-th write differ from all others: what a rank wrote,
\* in which write and for which file offset.
Byte(r, n, o) == <<r, n, o>>

Pending == -2   \* the root has not broadcast yet
Failed  == -1   \* the root broadcast that the system call failed

NoRank == [r \in {} |-> {}]

Call(op, size) == [op |-> op, size |-> size, offered |-> NoRank, root |-> Pending]

\* The collective call r makes next, and the one it is in.
Mine(r) == done[r] + 1

Init ==
    /\ ring = [r \in Ranks |-> <<>>]
    /\ local = [r \in Ranks |-> {}]
    /\ global = [r \in Ranks |-> {}]
    /\ \E s \in FileSizes : file = [size |-> s, kept |-> s]
    /\ dsize = [r \in Ranks |-> file.size]
    /\ pc = [r \in Ranks |-> "idle"]
    /\ coll = <<>>
    /\ done = [r \in Ranks |-> 0]
    /\ nwrites = [r \in Ranks |-> 0]
    /\ onepiece = TRUE

-----------------------------------------------------------------------------
(* size: the end of the trees, or of the backing file as of the last call. *)

SizeOf(r) ==
    LET trees == IF BackEnd(local[r]) < BackEnd(global[r]) THEN BackEnd(global[r]) ELSE BackEnd(local[r])
    IN  IF trees < dsize[r] THEN dsize[r] ELSE trees

-----------------------------------------------------------------------------
(* pwrite: the ring's space is reserved and filled, then the tree updated. *)
(* A full ring makes pwrite throw before it changes anything.              *)

Pwrite_LsnAfter(r, b, e) ==
    LET lsn  == Len(ring[r])
        written == Add(local[r], Node(b, e, lsn + (e - b), r))
    IN  /\ pc[r] = "idle"
        /\ nwrites[r] < MaxWrites
        /\ lsn + (e - b) <= RingSize
        /\ ring' = [ring EXCEPT ![r] = @ \o [i \in 1 .. e - b |-> Byte(r, nwrites[r], b + i - 1)]]
        /\ local' = [local EXCEPT ![r] = written]
        /\ nwrites' = [nwrites EXCEPT ![r] = @ + 1]
        /\ onepiece' = (onepiece /\ Cardinality(written) = 1)
        /\ UNCHANGED <<global, dsize, file, pc, coll, done>>

Pwrite(r, b, e) ==
    LET lsn  == Len(ring[r])
        written == Add(local[r], Node(b, e, lsn, r))
    IN  /\ pc[r] = "idle"
        /\ nwrites[r] < MaxWrites
        /\ lsn + (e - b) <= RingSize
        /\ ring' = [ring EXCEPT ![r] = @ \o [i \in 1 .. e - b |-> Byte(r, nwrites[r], b + i - 1)]]
        /\ local' = [local EXCEPT ![r] = written]
        /\ nwrites' = [nwrites EXCEPT ![r] = @ + 1]
        /\ onepiece' = (onepiece /\ Cardinality(written) = 1)
        /\ UNCHANGED <<global, dsize, file, pc, coll, done>>

-----------------------------------------------------------------------------
(* sync: sync_extent, then sync_file_size. *)

\* all_gather of the serialized local trees: r's own goes out ...
WithOffer(offered, r, T) == [q \in DOMAIN offered \cup {r} |-> IF q = r THEN T ELSE offered[q]]

SyncOffers(r) ==
    /\ pc[r] = "idle"
    /\ IF Mine(r) <= Len(coll)
       THEN /\ coll[Mine(r)].op = "sync"
            /\ coll' = [coll EXCEPT ![Mine(r)].offered = WithOffer(@, r, local[r])]
       ELSE /\ Len(coll) < MaxCalls
            /\ coll' = Append(coll, [Call("sync", 0) EXCEPT !.offered = WithOffer(@, r, local[r])])
    /\ pc' = [pc EXCEPT ![r] = "gather"]
    /\ UNCHANGED <<ring, local, global, dsize, file, done, nwrites, onepiece>>

\* ... but a rank that is alone exchanges nothing and keeps its local tree.
SyncAlone(r) ==
    /\ pc[r] = "idle"
    /\ Mine(r) > Len(coll) /\ Len(coll) < MaxCalls
    /\ coll' = Append(coll, Call("sync", 0))
    /\ pc' = [pc EXCEPT ![r] = "size"]
    /\ UNCHANGED <<ring, local, global, dsize, file, done, nwrites, onepiece>>

SyncEnter(r) == IF Alone THEN SyncAlone(r) ELSE SyncOffers(r)

\* The trees offered by the ranks are merged one after the other, by rank.
MergeAll(T, offered) ==
    LET merged[n \in 0 .. NRanks] ==
            IF n = 0 THEN T ELSE Merge(merged[n - 1], offered[n - 1])
    IN  merged[NRanks]

SyncMerge_OwnOnTop(r) ==
    LET offered == coll[Mine(r)].offered
    IN  /\ pc[r] = "gather"
        /\ DOMAIN offered = Ranks
        /\ global' = [global EXCEPT ![r] = Merge(MergeAll(@, offered), local[r])]
        /\ local' = [local EXCEPT ![r] = {}]
        /\ pc' = [pc EXCEPT ![r] = "size"]
        /\ UNCHANGED <<ring, dsize, file, coll, done, nwrites, onepiece>>

\* ... and when all have come in, they are merged and the local tree cleared.
SyncMerge(r) ==
    LET offered == coll[Mine(r)].offered
    IN  /\ pc[r] = "gather"
        /\ DOMAIN offered = Ranks
        /\ global' = [global EXCEPT ![r] = MergeAll(@, offered)]
        /\ local' = [local EXCEPT ![r] = {}]
        /\ pc' = [pc EXCEPT ![r] = "size"]
        /\ UNCHANGED <<ring, dsize, file, coll, done, nwrites, onepiece>>

\* Leaving a call with the size the root broadcast; all ranks throw if the
\* root could not find it out.
Leave(r, size) ==
    /\ dsize' = [dsize EXCEPT ![r] = IF size = Failed THEN @ ELSE size]
    /\ pc' = [pc EXCEPT ![r] = "idle"]
    /\ done' = [done EXCEPT ![r] = @ + 1]

SyncSizeRoot ==
    /\ pc[Root] = "size"
    /\ \E size \in {file.size, Failed} :
          /\ coll' = [coll EXCEPT ![Mine(Root)].root = size]
          /\ Leave(Root, size)
    /\ UNCHANGED <<ring, local, global, file, nwrites, onepiece>>

SyncSize(r) ==
    /\ r # Root
    /\ pc[r] = "size"
    /\ coll[Mine(r)].root # Pending
    /\ Leave(r, coll[Mine(r)].root)
    /\ UNCHANGED <<ring, local, global, file, coll, nwrites, onepiece>>

-----------------------------------------------------------------------------
(* truncate: the root truncates the file and broadcasts whether it could.  *)

Trim(T, size) ==
    IF T # {} /\ BackEnd(T) > size THEN Remove(T, Node(size, MaxOffset, 0, 0)) ELSE T

TrimTrees_GlobalOnly(r, size) ==
    /\ local' = local
    /\ global' = [global EXCEPT ![r] = Trim(@, size)]
    /\ Leave(r, size)

TrimTrees(r, size) ==
    /\ local' = [local EXCEPT ![r] = Trim(@, size)]
    /\ global' = [global EXCEPT ![r] = Trim(@, size)]
    /\ Leave(r, size)

\* A rank that calls truncate before the root does waits for its broadcast.
TruncateRoot(size) ==
    /\ pc[Root] = "idle"
    /\ Mine(Root) > Len(coll) /\ Len(coll) < MaxCalls
    /\ coll' = Append(coll, [Call("truncate", size) EXCEPT !.root = size])
    /\ file' = [size |-> size, kept |-> IF size < file.kept THEN size ELSE file.kept]
    /\ TrimTrees(Root, size)
    /\ UNCHANGED <<ring, nwrites, onepiece>>

TruncateRootFails(size) ==
    /\ pc[Root] = "idle"
    /\ Mine(Root) > Len(coll) /\ Len(coll) < MaxCalls
    /\ coll' = Append(coll, [Call("truncate", size) EXCEPT !.root = Failed])
    /\ Leave(Root, Failed)
    /\ UNCHANGED <<ring, local, global, file, nwrites, onepiece>>

Truncate(r) ==
    /\ r # Root
    /\ pc[r] = "idle"
    /\ Mine(r) <= Len(coll)
    /\ coll[Mine(r)].op = "truncate"
    /\ IF coll[Mine(r)].root = Failed
       THEN Leave(r, Failed) /\ UNCHANGED <<local, global>>
       ELSE TrimTrees(r, coll[Mine(r)].size)
    /\ UNCHANGED <<ring, file, coll, nwrites, onepiece>>

-----------------------------------------------------------------------------

\* The ranks have made all their calls.
Finished ==
    /\ \A r \in Ranks : pc[r] = "idle" /\ done[r] = MaxCalls
    /\ UNCHANGED vars

Next ==
    \/ \E r \in Ranks :
          \/ \E w \in Writes : Pwrite(r, w[1], w[2])
          \/ SyncEnter(r)
          \/ SyncMerge(r)
          \/ SyncSize(r)
          \/ Truncate(r)
    \/ SyncSizeRoot
    \/ \E size \in TruncSizes : TruncateRoot(size) \/ TruncateRootFails(size)
    \/ Finished

Spec == Init /\ [][Next]_vars

-----------------------------------------------------------------------------
(* Properties. *)

None == <<>>

\* The bytes that a tree finds in the rings.
ContentOf(T) ==
    [o \in Offsets |->
        LET loc == LocationOf(T, o)
        IN  IF loc = Hole THEN None ELSE ring[loc[1]][loc[2] + 1]]

TreeOK(T) ==
    /\ NonEmpty(T) /\ Disjoint(T)
    /\ \A m \in T : /\ m.b \in Offsets /\ m.e \in 1 .. MaxOffset
                    /\ m.client \in Ranks
                    /\ m.ptr >= 0 /\ m.ptr + Size(m) <= Len(ring[m.client])

\* Whatever extents the ranks wrote, in whatever order their calls interleave,
\* the nodes of every tree, those in flight between ranks included, share no
\* byte and point at bytes that their client has already appended to its ring;
\* and a byte that a rank finds for a file offset is one that was written to
\* that offset, never a byte of another place of the file (bb.hpp:143-185), and
\* not behind the size of the file that the rank is told (bb.hpp:71-82).
NoMisdirectedRead ==
    /\ \A r \in Ranks : \A T \in {local[r], global[r]} :
          /\ TreeOK(T)
          /\ \A o \in Offsets : ContentOf(T)[o] # None => ContentOf(T)[o][3] = o /\ o < SizeOf(r)
    /\ \A k \in DOMAIN coll : \A r \in DOMAIN coll[k].offered : TreeOK(coll[k].offered[r])

\* Number of the calls whose extents r has merged or trimmed.
Merged(r) == done[r] + IF pc[r] = "size" THEN 1 ELSE 0

\* Ranks that are at the same point of the sequence of collective calls have
\* the same global tree, and the same idea of the file's size once they have
\* returned, although each computed it by itself and the calls of others
\* overlap its own.
Converged ==
    \A r, q \in Ranks :
        /\ Merged(r) = Merged(q) => global[r] = global[q]
        /\ pc[r] = "idle" /\ pc[q] = "idle" /\ done[r] = done[q] => dsize[r] = dsize[q]

\* Call k is decided: nobody has to come in any more.
Decided(k) == Alone \/ coll[k].op = "truncate" \/ DOMAIN coll[k].offered = Ranks
NumDecided == Cardinality({k \in DOMAIN coll : Decided(k)})

\* No byte is behind the largest offset, also not if it could not be cut.
CutSize(k) == IF coll[k].root = Failed \/ coll[k].size > MaxOffset THEN MaxOffset ELSE coll[k].size

\* The file that the first k calls should leave, by the promise of EpochFile.
FileAfter ==
    LET published(f, k) ==
            LET offer == [r \in Ranks |-> ContentOf(coll[k].offered[r])]
            IN  [o \in Offsets |->
                    LET writers == {r \in Ranks : offer[r][o] # None}
                    IN  IF writers = {} THEN f[o]
                        ELSE offer[CHOOSE r \in writers : \A q \in writers : q <= r][o]]
        cut(f, k) == [o \in Offsets |-> IF o < CutSize(k) THEN f[o] ELSE None]
        after[k \in 0 .. NumDecided] ==
            IF k = 0 THEN [o \in Offsets |-> None]
            ELSE IF coll[k].op = "sync" THEN published(after[k - 1], k)
                 ELSE cut(after[k - 1], k)
    IN  after

\* The decided calls as the rounds of EpochFile.
RoundsDecided ==
    LET after == FileAfter
    IN  [k \in 1 .. NumDecided |->
            [op   |-> coll[k].op,
             size |-> IF coll[k].op = "sync" THEN 0 ELSE CutSize(k),
             file |-> after[k]]]

\* What the ranks find in their trees, and where they are in the rounds.
Unpublished  == [r \in Ranks |-> ContentOf(local[r])]
Visible      == [r \in Ranks |-> ContentOf(global[r])]
RoundsMerged == [r \in Ranks |-> Merged(r)]
Gathering    == {r \in Ranks : pc[r] = "gather"}

Epoch == INSTANCE EpochFile WITH
            rounds  <- RoundsDecided,
            mine    <- Unpublished,
            seen    <- Visible,
            left    <- RoundsMerged,
            entered <- Gathering,
            count   <- nwrites

\* The exchange of trees and the rings behind them implement the file of
\* EpochFile: what a rank wrote before a synchronisation is what every rank
\* finds after it, and nothing of it shows before.  This is so as long as each
\* rank writes one contiguous piece between synchronisations: the merge of
\* trees of several nodes loses some of them.  A rank that is alone publishes
\* nothing: it goes on to find what it wrote in its local tree.
EpochsWhileOnePiece ==
    /\ ~ Alone => Epoch!Init
    /\ [][~ Alone /\ onepiece' => [Epoch!Next]_(Epoch!vars)]_vars

\* "deserialize remote local trees and merge into global tree" (bb.hpp:143):
\* after a merge a rank finds, for every byte that some rank wrote, the byte of
\* the last such rank.
SyncPublishes ==
    \A r \in Ranks :
        ~ Alone /\ pc[r] = "size" => ContentOf(global[r]) = FileAfter[Merged(r)]

=============================================================================
