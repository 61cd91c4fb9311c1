------------------------------- MODULE ReadPath -------------------------------
(***************************************************************************)
(* One pread of a handler (bb.hpp): the requested bytes are taken from the *)
(* rank's own ring as far as its local tree knows them, then from the      *)
(* rings of others by the global tree, then from the file.                 *)
(*                                                                         *)
(* The trees and the file stay as they are during the read.  A Get from a  *)
(* remote ring is complete only when it has landed, at the latest when the *)
(* read ends with a flush.                                                 *)
(***************************************************************************)
EXTENDS ExtentList

CONSTANTS
    MaxOffset,     \* the offsets are 0 .. MaxOffset - 1
    LocalTrees,    \* the local trees,
    GlobalTrees    \* and the global trees there may be

Offsets == 0 .. MaxOffset - 1

ASSUME ReadPathAssumption ==
    /\ MaxOffset \in Nat
    /\ \A T \in LocalTrees \cup GlobalTrees :
          /\ IsFiniteSet(T) /\ Disjoint(T) /\ NonEmpty(T)
          /\ T \subseteq [b : Offsets, e : 0 .. MaxOffset, ptr : Nat, client : Nat]

VARIABLES
    local, global,  \* the trees of the file's bb
    fsize,          \* the size of the backing file
    req,            \* the requested extent
    pc,             \* "local", "remote", "file", "flush", "done", "threw" or "crashed"
    el, hole_el,    \* the extents found, and those that were not
    hole_it,        \* iterators of the loop a phase consists of:
    global_it,      \*   into hole_el and into the global tree
    eof,            \* the end of the file by the trees
    buf,            \* what the buffer holds for each requested offset
    gets,           \* Gets that have not landed: offset and ring location
    ret             \* the value returned

vars == <<local, global, fsize, req, pc, el, hole_el, hole_it, global_it, eof, buf, gets, ret>>
given == <<local, global, fsize, req>>

Unset     == <<"unset">>     \* what the caller left in the buffer
Zero      == <<"zero">>
FileByte  == <<"file">>      \* the byte of the file at that offset
Ring(loc) == <<"ring", loc>> \* the byte at a location of a ring

Within(x, o) == x.b <= o /\ o < x.e

Init ==
    /\ local \in LocalTrees
    /\ global \in GlobalTrees
    /\ fsize \in 0 .. MaxOffset
    /\ \E b, e \in 0 .. MaxOffset : b <= e /\ req = Extent(b, e)
    /\ pc = "local"
    /\ el = {} /\ hole_el = {} /\ hole_it = End /\ global_it = End
    /\ eof = 0
    /\ buf = [o \in Offsets |-> Unset]
    /\ gets = {}
    /\ ret = 0

-----------------------------------------------------------------------------

\* The bytes that a node has of the request, each with its place in the ring.
BytesOf(m, x) == {[ofs |-> o, loc |-> Location(m, o)] : o \in {i \in Offsets : Within(x, i)}}

Fill(bytes) ==
    [o \in Offsets |->
        IF \E g \in bytes : g.ofs = o
        THEN Ring((CHOOSE g \in bytes : g.ofs = o).loc) ELSE buf[o]]

\* Returning early: what the request asked for was found.
ReturnAll ==
    /\ ret' = Size(req)
    /\ pc' = "flush"
    /\ UNCHANGED <<hole_it, global_it>>

EnterRemote_GlobalEof(holes, end) ==
    /\ pc' = "remote"
    /\ hole_it' = First(holes)
    /\ global_it' = Find(global, OuterExtent(holes))
    /\ eof' = BackEnd(global)
    /\ UNCHANGED ret

EnterRemote(holes, end) ==
    /\ pc' = "remote"
    /\ hole_it' = First(holes)
    /\ global_it' = Find(global, OuterExtent(holes))
    /\ eof' = IF end < BackEnd(global) THEN BackEnd(global) ELSE end
    /\ UNCHANGED ret

EnterFile(holes) ==
    /\ pc' = "file"
    /\ hole_it' = First(holes)
    /\ UNCHANGED <<global_it, ret>>

\* The local tree's nodes, from the first that overlaps the request on.
ReadLocal ==
    LET hit   == Hit(local, Find(local, req), req)
        found == {Intersection(m, req) : m \in hit}
        list  == AddAll({}, found)
        holes == InverseIn(list, req)
        end   == BackEnd(local)
    IN  /\ pc = "local"
        /\ el' = list
        /\ hole_el' = holes
        /\ buf' = Fill(UNION {BytesOf(m, Intersection(m, req)) : m \in hit})
        /\ IF holes = {} THEN ReturnAll /\ eof' = end
           ELSE IF global # {} THEN EnterRemote(holes, end)
           ELSE EnterFile(holes) /\ eof' = end
        /\ UNCHANGED <<given, gets>>

\* One turn of the loop over the holes and the global tree: the one that ends
\* first is left behind, and a hole that a node overlaps is read from its ring.
Remote_StrictAdvance ==
    LET valid == Intersection(hole_it, global_it)
    IN  /\ pc = "remote"
        /\ hole_it # End /\ global_it # End
        /\ IF Overlaps(hole_it, global_it)
           THEN /\ el' = AddExtent(el, valid)
                /\ gets' = gets \cup BytesOf(global_it, valid)
           ELSE UNCHANGED <<el, gets>>
        /\ hole_it' = IF hole_it.e < global_it.e
                      THEN NextOf(hole_el, hole_it) ELSE hole_it
        /\ global_it' = IF global_it.e < hole_it.e
                        THEN NextOf(global, global_it) ELSE global_it
        /\ UNCHANGED <<given, pc, hole_el, eof, buf, ret>>

Remote ==
    LET valid == Intersection(hole_it, global_it)
    IN  /\ pc = "remote"
        /\ hole_it # End /\ global_it # End
        /\ IF Overlaps(hole_it, global_it)
           THEN /\ el' = AddExtent(el, valid)
                /\ gets' = gets \cup BytesOf(global_it, valid)
           ELSE UNCHANGED <<el, gets>>
        /\ hole_it' = IF hole_it.e <= global_it.e
                      THEN NextOf(hole_el, hole_it) ELSE hole_it
        /\ global_it' = IF global_it.e <= hole_it.e
                        THEN NextOf(global, global_it) ELSE global_it
        /\ UNCHANGED <<given, pc, hole_el, eof, buf, ret>>

\* One of them is past its end: what is still lacking is asked of the file.
RemoteEnds_StaleHoles ==
    /\ pc = "remote"
    /\ hole_it = End \/ global_it = End
    /\ hole_el' = hole_el
    /\ IF el = {req} THEN ReturnAll ELSE EnterFile(hole_el)
    /\ UNCHANGED <<given, el, eof, buf, gets>>

RemoteEnds ==
    LET holes == InverseIn(el, req)
    IN  /\ pc = "remote"
        /\ hole_it = End \/ global_it = End
        /\ hole_el' = holes
        /\ IF holes = {} THEN ReturnAll ELSE EnterFile(holes)
        /\ UNCHANGED <<given, el, eof, buf, gets>>

\* What a buffer b becomes when the bytes of x that the file has are read into
\* it, and when the bytes of x before end are filled with zeros.
WithFile(b, x)       == [o \in Offsets |-> IF Within(x, o) /\ o < fsize THEN FileByte ELSE b[o]]
WithZeros(b, x, end) == [o \in Offsets |-> IF Within(x, o) /\ o < end THEN Zero ELSE b[o]]

\* The inner loop fills "remaining holes": from the current one on, up to the
\* first that begins beyond the end by the trees.
ZeroRemaining(b) ==
    LET holes == {x \in hole_el : x.b >= hole_it.b /\ x.b < eof}
    IN  [o \in Offsets |-> IF o < eof /\ \E x \in holes : Within(x, o) THEN Zero ELSE b[o]]

BeyondEof == First({x \in hole_el : x.b >= eof})

\* One turn of the loop over the holes: the whole hole is in the file, ...
FileWhole ==
    /\ pc = "file" /\ hole_it # End
    /\ hole_it.e <= fsize
    /\ buf' = WithFile(buf, hole_it)
    /\ hole_it' = NextOf(hole_el, hole_it)
    /\ UNCHANGED <<given, pc, el, hole_el, global_it, eof, gets, ret>>

\* ... or the file ends in it or before it, and the read of it stops at From:
\* there the read as a whole ends, or zeros follow up to the end by the trees.
From == IF fsize < hole_it.b THEN hole_it.b ELSE fsize

FileShort ==
    /\ pc = "file" /\ hole_it # End
    /\ fsize < hole_it.e
    /\ From >= eof
    /\ buf' = WithFile(buf, hole_it)
    /\ hole_it' = End
    /\ UNCHANGED <<given, pc, el, hole_el, global_it, eof, gets, ret>>

\* After the inner loop the outer one advances its iterator, which is past the
\* end unless a hole begins beyond the end by the trees.
FileFill ==
    /\ pc = "file" /\ hole_it # End
    /\ fsize < hole_it.e
    /\ From < eof
    /\ buf' = ZeroRemaining(WithZeros(WithFile(buf, hole_it), Extent(From, hole_it.e), eof))
    /\ IF BeyondEof = End
       THEN pc' = "crashed" /\ UNCHANGED hole_it
       ELSE hole_it' = NextOf(hole_el, BeyondEof) /\ UNCHANGED pc
    /\ UNCHANGED <<given, el, hole_el, global_it, eof, gets, ret>>

\* The file cannot be opened or read; nothing is flushed.
FileThrows ==
    /\ pc = "file" /\ hole_it # End
    /\ pc' = "threw"
    /\ UNCHANGED <<given, el, hole_el, hole_it, global_it, eof, buf, gets, ret>>

FileEnds ==
    /\ pc = "file" /\ hole_it = End
    /\ pc' = "flush"
    /\ ret' = IF req.e >= eof THEN eof - req.b ELSE Size(req)
    /\ UNCHANGED <<given, el, hole_el, hole_it, global_it, eof, buf, gets>>

-----------------------------------------------------------------------------

\* A Get lands: whenever it likes, as long as it is outstanding.
Lands ==
    /\ pc # "crashed"
    /\ \E g \in gets :
          /\ buf' = Fill({g})
          /\ gets' = gets \ {g}
    /\ UNCHANGED <<given, pc, el, hole_el, hole_it, global_it, eof, ret>>

\* pread ends: the outstanding Gets have landed when flush returns.
Flush ==
    /\ pc = "flush"
    /\ buf' = Fill(gets)
    /\ gets' = {}
    /\ pc' = "done"
    /\ UNCHANGED <<given, el, hole_el, hole_it, global_it, eof, ret>>

Ended == pc \in {"done", "threw", "crashed"} /\ UNCHANGED vars

Step ==
    \/ ReadLocal
    \/ Remote \/ RemoteEnds
    \/ FileWhole \/ FileShort \/ FileFill \/ FileThrows \/ FileEnds
    \/ Flush

Next == Step \/ Lands \/ Ended

Spec == Init /\ [][Next]_vars

-----------------------------------------------------------------------------
(* Properties. *)

InRequest == {o \in Offsets : Within(req, o)}

\* What the trees say of a byte; the local tree goes before the global one.
Found(o) ==
    IF LocationOf(local, o) # Hole THEN LocationOf(local, o) ELSE LocationOf(global, o)

TreesEnd == IF BackEnd(local) < BackEnd(global) THEN BackEnd(global) ELSE BackEnd(local)

Covered(L) == {o \in Offsets : \E x \in L : Within(x, o)}

\* The two walks, over the nodes of the local tree and over the holes and the
\* global tree side by side, leave out exactly the bytes that no tree knows; and
\* the walk along the lists of what was found and of the extents of the other
\* ranks gives the bytes that are in both, none of them twice.
HolesExact ==
    LET others == AddAll({}, {Extent(m.b, m.e) : m \in global})
        both   == IntersectionOf(el, others)
    IN  /\ pc = "file" => Covered(hole_el) = {o \in InRequest : Found(o) = Hole}
        /\ Covered(both) = Covered(el) \cap Covered(others)
        /\ \A x, y \in both : x # y => ~ Overlaps(x, y)

\* No byte of the buffer has two writers while a Get is outstanding: neither
\* another Get nor the read of a ring, of the file or a fill with zeros has put
\* something where the Get will land.
OneWriter ==
    \A g \in gets : buf[g.ofs] = Unset /\ \A h \in gets : h.ofs = g.ofs => h = g

\* A read that returns has, for each byte that some tree knows, the byte of the
\* ring that it names; the rank's own unpublished writes win.
FindsWritten ==
    pc = "done" => \A o \in InRequest : Found(o) # Hole => buf[o] = Ring(Found(o))

\* Of the bytes that no tree knows, those of a hole inside the file are the
\* file's, and those after the file's end but before the end by the trees are
\* zero.
FillsHoles ==
    pc = "done" =>
        \A x \in hole_el : \A o \in InRequest :
            Within(x, o) /\ Found(o) = Hole =>
                /\ x.e <= fsize => buf[o] = FileByte
                /\ fsize <= o /\ o < TreesEnd => buf[o] = Zero

\* When the file is no longer than the trees know, the value returned is the
\* number of requested bytes before the end of the file.
ReturnsLength ==
    pc = "done" /\ fsize <= TreesEnd /\ req.b <= TreesEnd =>
        ret = (IF req.e < TreesEnd THEN req.e ELSE TreesEnd) - req.b

\* What pread (bb.hpp:193-311) owes its caller: one writer of each byte until it
\* returns, and then the rings' bytes, the file's bytes and the zeros in their
\* places, and their number.
ReadsRight == OneWriter /\ FindsWritten /\ FillsHoles /\ ReturnsLength

\* Extents and nodes that the current loop still has ahead of it.
Ahead ==
      Cardinality({x \in hole_el : hole_it # End /\ x.b >= hole_it.b})
    + Cardinality({m \in global : pc = "remote" /\ global_it # End /\ m.b >= global_it.b})

\* The loop over the holes and the global tree, two sequences at once with three
\* ways to go on, and the loop over the holes in the file come to an end: every
\* turn leaves less ahead.
LoopsAdvance ==
    [][pc' = pc /\ ~ Lands => Ahead' < Ahead]_vars

\* "remaining holes should be filled with zeros" (bb.hpp:293), and then the read
\* returns: no iterator is advanced past the end.
FillReturns == pc # "crashed"

=============================================================================
