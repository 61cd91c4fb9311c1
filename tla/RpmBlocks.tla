------------------------------ MODULE RpmBlocks ------------------------------
(***************************************************************************)
(* The blocks of persistent memory as one rank reads them (rpm.hpp).  The  *)
(* memory of a node is mapped by all its ranks, each of which has a block; *)
(* the window of the node's first rank exposes it to the other nodes.  A   *)
(* block on the reader's node is copied; one on another node is fetched by *)
(* a Get, which is complete after a flush of the target of the window.     *)
(* rank_accessed_ remembers which targets a flush has to wait for.  It is  *)
(* shared by all files and handlers of the rank.                           *)
(***************************************************************************)
EXTENDS Topology

CONSTANTS
    NRanks,       \* number of ranks
    Placements,   \* the placements of the ranks on nodes
    MapSize,      \* size of the memory of a node, in units of its alignment
    Slots         \* the buffers that are read into

Ranks == 0 .. NRanks - 1

ASSUME RpmBlocksAssumption ==
    /\ NRanks \in Nat \ {0} /\ MapSize \in Nat
    /\ \A p \in Placements : DOMAIN p = Ranks

VARIABLES
    place,      \* the placement
    me,         \* the reading rank
    accessed,   \* rank_accessed_
    gets,       \* Gets that are not complete
    buf         \* buf[s]: where the bytes in the buffer come from

blocksVars == <<place, me, accessed, gets, buf>>

NO_RANK_ACCESSED        == -1
MULTIPLE_RANKS_ACCESSED == -2

Nothing == <<"nothing">>    \* a buffer that was not read into
Nowhere == <<"nowhere">>    \* a window of no size

\* block_size_, and where the block of a rank begins in the memory of its node
\* as that rank computes it.
BlockSize(r)  == MapSize \div IntraSize(place, r)
BlockAt(r)    == <<place[r], IntraRank(place, r) * BlockSize(r)>>

\* rank_info_, the table by which the reader finds the block of r: by its own
\* block size.
WinTarget_Self(r)   == r
WinTarget(r)        == IntraRank0(place, r)
BlockDisp(r)        == IntraRank(place, r) * BlockSize(me)
IsLocalTo(r)        == IsLocal(place, r, me)

\* The memory behind a displacement in a window.
Window(target, disp) ==
    IF IntraRank(place, target) = 0 THEN <<place[target], disp>> ELSE Nowhere

BlocksInit ==
    /\ place \in Placements
    /\ me \in Ranks
    /\ accessed = NO_RANK_ACCESSED
    /\ gets = {}
    /\ buf = [s \in Slots |-> Nothing]

-----------------------------------------------------------------------------

\* A Get into slot s from a displacement in the window of target; rank is
\* whose block it is for.
WinGet(s, r, target, disp) == [slot |-> s, rank |-> r, target |-> target, disp |-> disp]
Get(s, r) == WinGet(s, r, WinTarget(r), BlockDisp(r))

\* The buffers when the Gets of done are complete.
Landed(done) ==
    [s \in Slots |-> IF \E g \in done : g.slot = s
                     THEN LET g == CHOOSE g \in done : g.slot = s
                          IN  Window(g.target, g.disp)
                     ELSE buf[s]]

Accessed_First(a, target) == IF a = NO_RANK_ACCESSED THEN target ELSE a

\* rank_accessed_ after a Get from target.
Accessed(a, target) ==
    IF a = NO_RANK_ACCESSED THEN target
    ELSE IF a # target THEN MULTIPLE_RANKS_ACCESSED
    ELSE a

\* The Gets that a flush waits for: those from one target, or all.
WinFlush(target, outstanding) == {g \in outstanding : g.target = target}

Flushed(a, outstanding) ==
    IF a = MULTIPLE_RANKS_ACCESSED THEN outstanding ELSE WinFlush(a, outstanding)

\* A buffer is not read into while a Get to it is outstanding.
Free(s) == \A g \in gets : g.slot # s

PreadNoflush(s, r) ==
    /\ Free(s)
    /\ IF IsLocalTo(r)
       THEN /\ buf' = [buf EXCEPT ![s] = <<place[me], BlockDisp(r)>>]
            /\ UNCHANGED <<accessed, gets>>
       ELSE /\ gets' = gets \cup {Get(s, r)}
            /\ accessed' = Accessed(accessed, WinTarget(r))
            /\ UNCHANGED buf
    /\ UNCHANGED <<place, me>>

Flush ==
    LET done == Flushed(accessed, gets)
    IN  /\ buf' = Landed(done)
        /\ gets' = gets \ done
        /\ accessed' = NO_RANK_ACCESSED
        /\ UNCHANGED <<place, me>>

\* pread: both at once.
PreadRemote(s, r) ==
    LET all  == gets \cup {Get(s, r)}
        done == Flushed(Accessed(accessed, WinTarget(r)), all)
    IN  /\ Free(s) /\ ~ IsLocalTo(r)
        /\ buf' = Landed(done)
        /\ gets' = all \ done
        /\ accessed' = NO_RANK_ACCESSED
        /\ UNCHANGED <<place, me>>

PreadLocal(s, r) ==
    LET done == Flushed(accessed, gets)
    IN  /\ Free(s) /\ IsLocalTo(r)
        /\ buf' = [Landed(done) EXCEPT ![s] = <<place[me], BlockDisp(r)>>]
        /\ gets' = gets \ done
        /\ accessed' = NO_RANK_ACCESSED
        /\ UNCHANGED <<place, me>>

\* A Get completes by itself.
Lands ==
    \E g \in gets :
        /\ buf' = Landed({g})
        /\ gets' = gets \ {g}
        /\ UNCHANGED <<place, me, accessed>>

BlocksNext ==
    \/ \E s \in Slots, r \in Ranks : PreadNoflush(s, r) \/ PreadRemote(s, r) \/ PreadLocal(s, r)
    \/ Flush
    \/ Lands

BlocksSpec == BlocksInit /\ [][BlocksNext]_blocksVars

-----------------------------------------------------------------------------
(* Properties. *)

\* Every buffer that was read into holds bytes of memory that is there: no Get
\* goes to a window of no size or beyond the memory of a node.
BlocksTypeOK ==
    /\ place \in Placements /\ me \in Ranks
    /\ accessed \in Ranks \cup {NO_RANK_ACCESSED, MULTIPLE_RANKS_ACCESSED}
    /\ \A g \in gets : g.slot \in Slots /\ g.rank \in Ranks /\ g.target \in Ranks
    /\ \A s \in Slots :
          buf[s] = Nothing \/ \E r \in Ranks : \E d \in 0 .. MapSize - 1 : buf[s] = <<place[r], d>>

\* rank_accessed_ knows of every Get that may be outstanding, although it is
\* one number for any number of them and is kept across reads and files.
GetsAccounted ==
    \A g \in gets : accessed \in {g.target, MULTIPLE_RANKS_ACCESSED}

\* A flush leaves no Get outstanding, whoever started it.
FlushCompletes == [][Flush => gets' = {}]_blocksVars

\* The ranks whose block is at an address.
Owners(at) == {r \in Ranks : BlockAt(r) = at}

\* Reads of blocks, wherever these are, are reads as AsyncReads promises them.
Async == INSTANCE AsyncReads WITH
            data    <- [s \in Slots |-> Owners(buf[s])],
            pending <- {<<g.slot, g.rank>> : g \in gets}

ImplementsAsyncReads == Async!Spec

\* The placements for which a table is wrong.
WrongTables ==
    {p \in [Ranks -> Ranks] :
        ~ /\ \A r \in Ranks : RankOf(p, InterRank(p, r), IntraRank(p, r)) = r
          /\ NNodes(p) = Cardinality({p[r] : r \in Ranks})
          /\ \A r \in Ranks : IntraSize(p, r) <= MaxPpn(p)
          /\ \E r \in Ranks : IntraSize(p, r) = MaxPpn(p)}

\* The tables of topology.hpp are right for every placement, also when nodes
\* have different numbers of ranks and the inter ranks of one node's ranks
\* differ: a pair of ranks names one rank, and the nodes, the most ranks of a
\* node and the ranks of each node are counted right.
TablesRight ==
    /\ WrongTables = {}
    /\ RankOf(place, InterRank(place, me), IntraRank(place, me)) = me

=============================================================================
