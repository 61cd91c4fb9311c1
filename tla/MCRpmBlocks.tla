----------------------------- MODULE MCRpmBlocks -----------------------------
EXTENDS RpmBlocks

\* As a job launcher places them by default: as many ranks on every node, and
\* those of a node one after the other.
EvenBlocks == {[r \in Ranks |-> r \div n] : n \in {k \in 1 .. NRanks : NRanks % k = 0}}

Two == {1, 2}

=============================================================================
