--------------------------- MODULE MCExtentIndex -----------------------------
EXTENDS ExtentIndex

\* Every extent of the file with every ring position and client.
Calls(maxptr, clients) ==
    {v \in {Node(b, e, p, c) : b \in IndexOffsets, e \in 1 .. IndexSize,
                              p \in 0 .. maxptr, c \in clients} : v.b < v.e}

OneRing     == Calls(1, {1})
TwoRings    == OneRing \cup Calls(0, {2})
EveryExtent == Calls(0, {0})

=============================================================================
