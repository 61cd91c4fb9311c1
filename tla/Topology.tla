------------------------------ MODULE Topology -------------------------------
(***************************************************************************)
(* Where the ranks are (topology.hpp): the tables that every rank computes *)
(* from a split of the communicator by node (intra) and by the rank in the *)
(* node (inter).  A placement p gives each rank 0 .. n - 1 its node.  MPI  *)
(* orders the ranks of a split as they were, since all give the same key.  *)
(***************************************************************************)
EXTENDS Integers, FiniteSets

OnNode(p, r) == {q \in DOMAIN p : p[q] = p[r]}

IntraRank(p, r) == Cardinality({q \in OnNode(p, r) : q < r})
IntraSize(p, r) == Cardinality(OnNode(p, r))

\* The ranks with the same intra rank are a communicator of their own.
Peers(p, r)     == {q \in DOMAIN p : IntraRank(p, q) = IntraRank(p, r)}
InterRank(p, r) == Cardinality({q \in Peers(p, r) : q < r})

\* rank_map_, gathered from all, and its inverse.
RankPair(p, r) == <<InterRank(p, r), IntraRank(p, r)>>

RankOf(p, inter, intra) == CHOOSE r \in DOMAIN p : RankPair(p, r) = <<inter, intra>>

IsLocal(p, r, q) == InterRank(p, r) = InterRank(p, q)

\* global2intra_rank0_global_rank: the first rank of r's node, if the ranks of
\* a node are numbered one after the other.
IntraRank0(p, r) == r - IntraRank(p, r)

NNodes_ByIntra(p) == Cardinality({IntraRank(p, r) : r \in DOMAIN p})
NNodes(p) == Cardinality({InterRank(p, r) : r \in DOMAIN p})

MaxPpn(p) ==
    LET ppn(i) == Cardinality({r \in DOMAIN p : InterRank(p, r) = i})
    IN  CHOOSE n \in {ppn(InterRank(p, r)) : r \in DOMAIN p} :
            \A r \in DOMAIN p : ppn(InterRank(p, r)) <= n

=============================================================================
