----------------------------- MODULE ExtentList ------------------------------
(***************************************************************************)
(* The sorted list of extents in which a read notes what it has found and  *)
(* what it still lacks (extent_list.hpp).  The list is the set of its      *)
(* extents here: their order is that of their first bytes.  A loop along a *)
(* list is a function of the number of its turns; what is left of the list *)
(* is in the state of the loop.                                            *)
(***************************************************************************)
EXTENDS ExtentTree

Extent(b, e) == [b |-> b, e |-> e]

Intersection(x, y) ==
    Extent(IF x.b < y.b THEN y.b ELSE x.b, IF x.e < y.e THEN x.e ELSE y.e)

\* The union of extents that touch each other.
UnionOf(xs) ==
    Extent(CHOOSE b \in {x.b : x \in xs} : \A x \in xs : b <= x.b,
           CHOOSE e \in {x.e : x \in xs} : \A x \in xs : x.e <= e)

\* The extents that the list's own add neither stops at nor skips.
Touching(L, x) == {y \in L : ~ x.e < y.b /\ ~ y.e < x.b}

\* They are erased, and their union with the new one put in their place.
AddExtent(L, x) == (L \ Touching(L, x)) \cup {UnionOf(Touching(L, x) \cup {x})}

\* Adding extents one after the other.
AddStep(s) ==
    IF s.left = {} THEN s
    ELSE [list |-> AddExtent(s.list, First(s.left)), left |-> s.left \ {First(s.left)}]

AddAll(L, xs) ==
    LET after[n \in 0 .. Cardinality(xs)] ==
            IF n = 0 THEN [list |-> L, left |-> xs] ELSE AddStep(after[n - 1])
    IN  after[Cardinality(xs)].list

\* One extent y of the list: what of x is before it is a hole, and the rest of
\* x, from s.b on, is looked at next.
InverseStep(s, x) ==
    LET y == First(s.left)
    IN  IF s.left = {} \/ s.b >= x.e THEN s
        ELSE [b     |-> IF s.b < y.e THEN y.e ELSE s.b,
              holes |-> s.holes \cup IF s.b < y.b
                                     THEN {Extent(s.b, IF y.b < x.e THEN y.b ELSE x.e)}
                                     ELSE {},
              left  |-> s.left \ {y}]

InverseIn(L, x) ==
    LET after[n \in 0 .. Cardinality(L)] ==
            IF n = 0 THEN [b |-> x.b, holes |-> {}, left |-> L] ELSE InverseStep(after[n - 1], x)
        end == after[Cardinality(L)]
    IN  end.holes \cup IF end.b < x.e THEN {Extent(end.b, x.e)} ELSE {}

OuterExtent(L) == IF L = {} THEN Extent(0, 0) ELSE Extent(First(L).b, Back(L).e)

\* The intersection of two lists, by a walk along both: s.l and s.r are what is
\* left of them.  Whichever extent ends first is left behind.
IntersectionStep(s) ==
    LET x == First(s.l)
        y == First(s.r)
    IN  IF s.l = {} \/ s.r = {} THEN s
        ELSE [l      |-> IF x.e <= y.e THEN s.l \ {x} ELSE s.l,
              r      |-> IF y.e <= x.e THEN s.r \ {y} ELSE s.r,
              result |-> IF x.e <= y.b \/ y.e <= x.b THEN s.result
                         ELSE s.result \cup {Intersection(x, y)}]

IntersectionOf(L, R) ==
    LET turns == Cardinality(L) + Cardinality(R)
        after[n \in 0 .. turns] ==
            IF n = 0 THEN [l |-> L, r |-> R, result |-> {}] ELSE IntersectionStep(after[n - 1])
    IN  after[turns].result

\* The next extent after one of the list, and the end of it.
NextOf(L, x) == First({y \in L : y.b > x.b})

=============================================================================
