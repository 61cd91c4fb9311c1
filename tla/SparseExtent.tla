----------------------------- MODULE SparseExtent ------------------------------
(***************************************************************************)
(* Sparse extents (sparse_extent.hpp): count extents of one size with a    *)
(* hole after each.  A caller that wants the bytes of an interval takes    *)
(* them as a row of slices, each again a sparse extent, as the test of     *)
(* the slices does.                                                        *)
(***************************************************************************)
EXTENDS Integers

CONSTANT SparseExtents    \* the sparse extents that are sliced

ASSUME SparseAssumption ==
    SparseExtents \subseteq [begin : Nat, size : Nat \ {0}, hole : Nat, count : Nat \ {0}]

VARIABLES
    sparse,     \* the sparse extent, or Nothing when none is sliced
    interval,   \* the interval that the caller wants
    pos,        \* the slices have been taken up to here
    slices      \* the bytes of all slices taken so far

sparseVars == <<sparse, interval, pos, slices>>

Sparse(begin, size, hole, count) ==
    [begin |-> begin, size |-> size, hole |-> hole, count |-> count]

\* The default constructor.
Nothing == Sparse(0, 0, 0, 0)

StrideSize(se) == se.size + se.hole
WholeSize(se)  == StrideSize(se) * se.count - se.hole
Stop(se)       == se.begin + WholeSize(se)
OuterEnd(se)   == se.begin + WholeSize(se) + se.hole
SparseExtentAt(se, i) ==
    LET disp == se.begin + i * StrideSize(se)
    IN  [begin |-> disp, end |-> disp + se.size]

IndexAt(se, p)        == (p - se.begin) \div StrideSize(se)
ShiftedIndexAt(se, p) == (p + se.hole - se.begin) \div StrideSize(se)

\* One extent without holes is an extent.
Normalize(se) ==
    IF se.count <= 1 THEN [se EXCEPT !.hole = 0]
    ELSE IF se.hole = 0 THEN [se EXCEPT !.size = @ * se.count, !.count = 1]
    ELSE se

\* The first slice of what begins at p: the rest of the extent that p is in,
\* or all extents from the next one on.
SliceStartAt(se, p) ==
    LET i     == ShiftedIndexAt(se, p)
        start == se.begin + i * StrideSize(se)
    IN  IF i >= se.count THEN Nothing
        ELSE IF p > start THEN Sparse(p, se.size - (p - start), 0, 1)
        ELSE Sparse(start, se.size, se.hole, se.count - i)

\* The first slice of what ends at p.
SliceStopAt(se, p) ==
    LET i     == IndexAt(se, p)
        inside == p < se.begin + i * StrideSize(se) + se.size
    IN  IF p <= se.begin THEN Nothing
        ELSE IF inside /\ i = 0 THEN Sparse(se.begin, p - se.begin, 0, 1)
        ELSE Sparse(se.begin, se.size, se.hole, IF inside THEN i ELSE i + 1)

FirstSlice_StopIndex(se, start, stop) ==
    LET first == ShiftedIndexAt(se, start)
        left  == se.begin + first * StrideSize(se)
        last  == IndexAt(se, stop)
    IN  IF first >= se.count THEN Nothing
        ELSE IF start <= left THEN Sparse(left, se.size, se.hole, last - first + 1)
        ELSE Sparse(start, se.size - (start - left), 0, 1)

\* The first slice of what lies between start and stop.
FirstSlice(se, start, stop) ==
    LET first  == ShiftedIndexAt(se, start)
        left   == se.begin + first * StrideSize(se)
        from   == IF start <= left THEN left ELSE start
        last   == IndexAt(se, stop)
        inside == stop < se.begin + last * StrideSize(se) + se.size
    IN  IF first >= se.count THEN Nothing
        ELSE IF inside /\ last = first THEN Sparse(from, stop - from, 0, 1)
        ELSE IF start <= left
             THEN Sparse(from, se.size, se.hole, (IF inside THEN last - 1 ELSE last) - first + 1)
        ELSE Sparse(from, se.size - (start - left), 0, 1)

-----------------------------------------------------------------------------

SparseIdle == sparse = Nothing /\ interval = <<0, 0>> /\ pos = 0 /\ slices = {}

\* What its iterator gives from begin to end.
Extents(se) == {SparseExtentAt(se, i) : i \in 0 .. se.count - 1}

BytesIn(se) == UNION {e.begin .. e.end - 1 : e \in Extents(se)}

IsInHole(se, p) == (p - se.begin) % StrideSize(se) >= se.size

SparseInit ==
    /\ sparse \in SparseExtents
    /\ interval \in (sparse.begin .. OuterEnd(sparse) - 1) \X (sparse.begin + 1 .. OuterEnd(sparse))
    /\ interval[1] < interval[2]
    /\ pos = interval[1]
    /\ slices = {}

\* The caller goes on where the last slice stops, unless the rest is a hole.
TakeSlice ==
    /\ sparse # Nothing /\ pos < interval[2]
    /\ LET slice == FirstSlice(sparse, pos, interval[2])
       IN  /\ slices' = slices \cup BytesIn(slice)
           /\ pos' = IF slice.count = 0 \/ Stop(slice) + slice.hole >= interval[2]
                     THEN interval[2] ELSE Stop(slice)
    /\ UNCHANGED <<sparse, interval>>

SparseSpec == SparseInit /\ [][TakeSlice]_sparseVars

-----------------------------------------------------------------------------
(* Properties. *)

Within(se, start, stop) == {b \in BytesIn(se) : start <= b /\ b < stop}

\* A slice is what lies before its end of the wanted bytes, and not nothing if
\* there are any.
FirstOf(slice, wanted) ==
    /\ BytesIn(slice) = {b \in wanted : b < Stop(slice)}
    /\ wanted # {} => BytesIn(slice) # {}

\* The row of slices has the bytes of the interval so far, each at its time,
\* however the interval lies to the extents and the holes; and the slices that
\* only begin or only end somewhere agree with it.  What is no byte of an extent
\* is in a hole.
SlicesExact ==
    sparse # Nothing =>
        /\ slices = Within(sparse, interval[1], pos)
        /\ FirstOf(SliceStartAt(sparse, interval[1]),
                   Within(sparse, interval[1], OuterEnd(sparse)))
        /\ interval[2] < OuterEnd(sparse) =>
              FirstOf(SliceStopAt(sparse, interval[2]), Within(sparse, sparse.begin, interval[2]))
        /\ BytesIn(Normalize(sparse)) = BytesIn(sparse)
        /\ {p \in sparse.begin .. OuterEnd(sparse) - 1 : ~ IsInHole(sparse, p)} = BytesIn(sparse)

=============================================================================
