------------------------------ MODULE MCLifecycle ------------------------------
EXTENDS Lifecycle

\* Two ranks on a node and one on another.
TwoAndOne == [r \in 0 .. 2 |-> IF r < 2 THEN "n0" ELSE "n1"]

\* No file, an empty one, one too small for two ranks, and one large enough.
Sizes == {Absent, 0, 1, 2}

=============================================================================
