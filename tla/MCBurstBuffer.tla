--------------------------- MODULE MCBurstBuffer -----------------------------
EXTENDS BurstBuffer

\* Every extent of the file.
EveryExtent == {<<b, e>> \in Offsets \X (1 .. MaxOffset) : b < e}

Sizes_1     == {1}
Sizes_None  == {}

=============================================================================
