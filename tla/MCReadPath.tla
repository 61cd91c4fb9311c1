----------------------------- MODULE MCReadPath ------------------------------
EXTENDS ReadPath

\* All trees of at most two nodes of the clients that f gives the extents; the pieces lie
\* apart in the rings, so that each ring byte tells the node and the offset.
Trees(f(_, _)) ==
    LET extents == {<<b, e>> \in Offsets \X (1 .. MaxOffset) : b < e}
        nodes   == {Node(x[1], x[2], x[1] * MaxOffset, f(x[1], x[2])) : x \in extents}
    IN  {T \in {{}} \cup {{m, n} : m, n \in nodes} : Disjoint(T)}

OwnTrees   == Trees(LAMBDA b, e : 0)
OtherTrees == Trees(LAMBDA b, e : 1 + ((b + e) % 2))

=============================================================================
