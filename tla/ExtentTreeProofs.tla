--------------------------- MODULE ExtentTreeProofs ---------------------------
(***************************************************************************)
(* For every tree whose nodes are non-empty and disjoint: find returns the *)
(* first node that shares a byte with an extent; add gives every byte of   *)
(* the new node its location and leaves the locations of the others alone; *)
(* remove takes those of the extent away; and both leave a tree whose      *)
(* nodes are non-empty and disjoint.  For any two such trees: each byte of *)
(* their merge is where one of them had it, and unless a node is continued *)
(* or missed it is where the other tree has it, or else where this one     *)
(* had it.  And so, that the properties of ExtentIndex hold for an index   *)
(* of any size.                                                            *)
(***************************************************************************)
EXTENDS ExtentIndex, TLAPS, WellFoundedInduction, FiniteSetTheorems

TreeNodes == [b : Nat, e : Nat, ptr : Int, client : Int]

Tree(T) == T \subseteq TreeNodes /\ NonEmpty(T) /\ Disjoint(T)

\* An extent is anything with a begin and an end.
IsExtent(v) == v.b \in Nat /\ v.e \in Nat /\ v.b <= v.e

-----------------------------------------------------------------------------
(* The first and the last node. *)

LEMMA EndIsNoNode == End \notin TreeNodes
  BY DEF End, TreeNodes

LEMMA SmallestExists ==
    ASSUME NEW S \in SUBSET Nat, S # {}
    PROVE  \E n \in S : \A m \in S : n <= m
<1>1. PICK n \in S : \A m \in S : ~ (<<m, n>> \in OpToRel(<, Nat))
  BY NatLessThanWellFounded, WFMin
<1>2. ASSUME NEW m \in S PROVE n <= m
  <2>1. <<m, n>> \in Nat \X Nat /\ <<m, n>>[1] = m /\ <<m, n>>[2] = n
    OBVIOUS
  <2> QED
    BY <1>1, <2>1 DEF OpToRel
<1> QED
  BY <1>2

LEMMA FirstIs ==
    ASSUME NEW T, T \subseteq TreeNodes, T # {}
    PROVE  First(T) \in T /\ \A k \in T : First(T).b <= k.b
<1> DEFINE S == {m.b : m \in T}
<1>1. S \in SUBSET Nat /\ S # {}
  BY DEF TreeNodes
<1>2. PICK n \in S : \A s \in S : n <= s
  BY <1>1, SmallestExists
<1>3. PICK m \in T : m.b = n
  OBVIOUS
<1>4. \A k \in T : m.b <= k.b
  BY <1>2, <1>3
<1> QED
  BY <1>4 DEF First

\* The last node of those that begin before some byte.
LEMMA BackIs ==
    ASSUME NEW T, T \subseteq TreeNodes, T # {}, NEW limit \in Nat, \A m \in T : m.b < limit
    PROVE  Back(T) \in T /\ \A k \in T : k.b <= Back(T).b
<1> DEFINE S == {limit - m.b : m \in T}
<1>1. S \in SUBSET Nat /\ S # {}
  BY DEF TreeNodes
<1>2. PICK n \in S : \A s \in S : n <= s
  BY <1>1, SmallestExists
<1>3. PICK m \in T : limit - m.b = n
  OBVIOUS
<1>4. ASSUME NEW k \in T PROVE k.b <= m.b
  <2>1. n <= limit - k.b
    BY <1>2
  <2> QED
    BY <1>3, <2>1 DEF TreeNodes
<1> QED
  BY <1>4 DEF Back

\* Nodes of a tree are known by their begins.
LEMMA OneNodePerBegin ==
    ASSUME NEW T, Tree(T), NEW m \in T, NEW k \in T, m.b = k.b
    PROVE  m = k
  BY DEF Tree, NonEmpty, Disjoint, Overlaps, TreeNodes

-----------------------------------------------------------------------------
(* Looking up. *)

Sharing(T, v) == {m \in T : Overlaps(m, v)}

\* If some node shares a byte with v, the lower bound is the first of them.
LEMMA LowerBoundIs ==
    ASSUME NEW T, Tree(T), NEW v, IsExtent(v)
    PROVE  IF Sharing(T, v) = {}
           THEN LowerBound(T, v) = End \/ ~ Overlaps(LowerBound(T, v), v)
           ELSE /\ LowerBound(T, v) \in Sharing(T, v)
                /\ \A m \in Sharing(T, v) : LowerBound(T, v).b <= m.b
<1> DEFINE S == {m \in T : ~ Precedes(m, v)}
           it == LowerBound(T, v)
<1>1. S \subseteq TreeNodes /\ Sharing(T, v) \subseteq S
  BY DEF Tree, Sharing, Overlaps, Precedes, TreeNodes, IsExtent
<1>2. it = First(S)
  BY DEF LowerBound
<1>3. CASE Sharing(T, v) = {}
  <2>1. CASE S = {}
    BY <1>2, <1>3, <2>1 DEF First
  <2>2. CASE S # {}
    <3>1. it \in T
      BY <1>1, <1>2, <2>2, FirstIs
    <3> QED
      BY <1>3, <3>1 DEF Sharing
  <2> QED
    BY <2>1, <2>2
<1>4. CASE Sharing(T, v) # {}
  <2>1. it \in S /\ \A k \in S : it.b <= k.b
    BY <1>1, <1>2, <1>4, FirstIs
  <2>2. PICK m \in Sharing(T, v) : TRUE
    BY <1>4
  <2>3. it.b <= m.b /\ m.b < v.e /\ v.b < it.e
    BY <1>1, <2>1, <2>2 DEF Sharing, Overlaps, Precedes, TreeNodes, IsExtent
  <2>4. it \in Sharing(T, v)
    BY <1>1, <2>1, <2>2, <2>3 DEF Sharing, Overlaps, TreeNodes, IsExtent
  <2> QED
    BY <1>1, <1>4, <2>1, <2>4
<1> QED
  BY <1>3, <1>4

\* find (extent_tree.hpp:143) returns the first node that shares a byte with an
\* extent, in any tree, or the end if there is none.
THEOREM FindReturnsFirst ==
    ASSUME NEW T, Tree(T), NEW v, IsExtent(v)
    PROVE  Find(T, v) = First({m \in T : Overlaps(m, v)})
<1> DEFINE S == Sharing(T, v)
           it == LowerBound(T, v)
<1>1. Find(T, v) = IF it # End /\ ~ Overlaps(it, v) THEN End ELSE it
  BY DEF Find
<1>2. CASE S = {}
  <2>1. it = End \/ ~ Overlaps(it, v)
    BY <1>2, LowerBoundIs
  <2> QED
    BY <1>1, <1>2, <2>1 DEF First, Sharing
<1>3. CASE S # {}
  <2>1. it \in S /\ \A m \in S : it.b <= m.b
    BY <1>3, LowerBoundIs
  <2>2. S \subseteq TreeNodes /\ S \subseteq T
    BY DEF Sharing, Tree
  <2>3. First(S) \in S /\ \A m \in S : First(S).b <= m.b
    BY <1>3, <2>2, FirstIs
  <2>4. it = First(S)
    <3>1. it.b = First(S).b
      BY <2>1, <2>2, <2>3 DEF TreeNodes
    <3> QED
      BY <2>1, <2>2, <2>3, <3>1, OneNodePerBegin
  <2>5. Overlaps(it, v)
    BY <2>1 DEF Sharing
  <2> QED
    BY <1>1, <2>4, <2>5 DEF Sharing
<1> QED
  BY <1>2, <1>3

-----------------------------------------------------------------------------
(* Where a byte is. *)

\* Of a tree at most one node covers a byte, and it says where the byte is.
LEMMA LocationIs ==
    ASSUME NEW T, Tree(T), NEW m \in T, NEW o \in Nat, Covers(m, o)
    PROVE  LocationOf(T, o) = Location(m, o)
<1> DEFINE k == CHOOSE k \in T : Covers(k, o)
<1>1. k \in T /\ Covers(k, o)
  OBVIOUS
<1>2. k = m
  BY <1>1 DEF Tree, Disjoint, Overlaps, Covers, TreeNodes
<1> QED
  BY <1>1, <1>2 DEF LocationOf

\* p is m, or a part of m, and does not change where a byte is.
PartOf(p, m) ==
    /\ p \in TreeNodes
    /\ p.b < p.e
    /\ m.b <= p.b /\ p.e <= m.e
    /\ p.client = m.client
    /\ p.ptr + m.b = m.ptr + p.b

Beside(p, v) == p.e <= v.b \/ v.e <= p.b

LEMMA PartLocates ==
    ASSUME NEW p, NEW m \in TreeNodes, PartOf(p, m), NEW o \in Nat, Covers(p, o)
    PROVE  Covers(m, o) /\ Location(p, o) = Location(m, o)
<1>1. p.ptr + (o - p.b) = m.ptr + (o - m.b)
  BY DEF PartOf, TreeNodes
<1> QED
  BY <1>1 DEF PartOf, Location, Covers, TreeNodes

-----------------------------------------------------------------------------
(* Taking the bytes of an extent out of a tree. *)

LEMMA FrontIs ==
    ASSUME NEW m \in TreeNodes, NEW v, IsExtent(v), Overlaps(m, v), NEW p \in Front(m, v)
    PROVE  PartOf(p, m) /\ p.e = v.b /\ p.b = m.b
<1>1. m.b < v.b /\ p = [m EXCEPT !.e = v.b]
  BY DEF Front
<1>2. p = [b |-> m.b, e |-> v.b, ptr |-> m.ptr, client |-> m.client]
  BY <1>1 DEF TreeNodes
<1> QED
  BY <1>1, <1>2 DEF TreeNodes, PartOf, IsExtent, Overlaps

LEMMA RearIs ==
    ASSUME NEW m \in TreeNodes, NEW v, IsExtent(v), Overlaps(m, v), NEW p \in Rear(m, v)
    PROVE  PartOf(p, m) /\ p.b = v.e /\ p.e = m.e
<1>1. v.e < m.e /\ p = [m EXCEPT !.b = v.e, !.ptr = @ + (v.e - m.b)]
  BY DEF Rear
<1>2. p = [b |-> v.e, e |-> m.e, ptr |-> m.ptr + (v.e - m.b), client |-> m.client]
  BY <1>1 DEF TreeNodes
<1>3. p.b = v.e /\ p.e = m.e /\ p.client = m.client /\ p.ptr = m.ptr + (v.e - m.b)
  BY <1>2
<1>4. p \in TreeNodes
  BY <1>2 DEF TreeNodes, IsExtent
<1>5. p.ptr + m.b = m.ptr + p.b
  BY <1>3 DEF TreeNodes, IsExtent
<1>6. p.b < p.e /\ m.b <= p.b /\ p.e <= m.e
  BY <1>1, <1>3 DEF TreeNodes, IsExtent, Overlaps
<1> QED
  BY <1>3, <1>4, <1>5, <1>6 DEF PartOf

\* The nodes that the loop visits are those that share a byte with v.
LEMMA HitIs ==
    ASSUME NEW T, Tree(T), NEW v, IsExtent(v)
    PROVE  Hit(T, LowerBound(T, v), v) = Sharing(T, v)
<1> DEFINE it == LowerBound(T, v)
<1>1. CASE Sharing(T, v) = {}
  BY <1>1, LowerBoundIs DEF Hit
<1>2. CASE Sharing(T, v) # {}
  <2>1. it \in Sharing(T, v) /\ \A m \in Sharing(T, v) : it.b <= m.b
    BY <1>2, LowerBoundIs
  <2>2. it # End
    BY <2>1, EndIsNoNode DEF Sharing, Tree
  <2>3. Hit(T, it, v) = {m \in T : m.b >= it.b /\ Overlaps(m, v)}
    BY <2>1, <2>2 DEF Hit, Sharing
  <2>4. \A m \in Sharing(T, v) : m.b >= it.b
    BY <2>1 DEF Sharing, Tree, TreeNodes
  <2> QED
    BY <2>3, <2>4 DEF Sharing
<1> QED
  BY <1>1, <1>2

Carved(T, v) == Carve(T, LowerBound(T, v), v)

LEMMA CarvedIs ==
    ASSUME NEW T, Tree(T), NEW v, IsExtent(v)
    PROVE  Carved(T, v) = (T \ Sharing(T, v))
                          \cup UNION {Front(m, v) \cup Rear(m, v) : m \in Sharing(T, v)}
  BY HitIs DEF Carved, Carve

\* A node that is left is a part of a node, beside v.
LEMMA CarvedParts ==
    ASSUME NEW T, Tree(T), NEW v, IsExtent(v), NEW p \in Carved(T, v)
    PROVE  \E m \in T :
              /\ PartOf(p, m)
              /\ Beside(p, v)
              /\ p = m \/ p \in Front(m, v) \/ p \in Rear(m, v)
              /\ p # m => Overlaps(m, v)
<1>1. CASE p \in T \ Sharing(T, v)
  <2>1. p \in TreeNodes /\ p.b < p.e /\ ~ Overlaps(p, v)
    BY <1>1 DEF Tree, NonEmpty, Sharing
  <2>2. PartOf(p, p)
    BY <2>1 DEF PartOf, TreeNodes
  <2>3. Beside(p, v)
    BY <2>1 DEF Beside, Overlaps, TreeNodes, IsExtent
  <2> QED
    BY <1>1, <2>2, <2>3
<1>2. CASE p \notin T \ Sharing(T, v)
  <2>1. PICK m \in Sharing(T, v) : p \in Front(m, v) \cup Rear(m, v)
    BY <1>2, CarvedIs
  <2>2. m \in T /\ m \in TreeNodes /\ Overlaps(m, v)
    BY <2>1 DEF Sharing, Tree
  <2>3. CASE p \in Front(m, v)
    <3>1. PartOf(p, m) /\ p.e = v.b
      BY <2>2, <2>3, FrontIs
    <3>2. Beside(p, v)
      BY <3>1 DEF Beside, IsExtent
    <3> QED
      BY <2>2, <2>3, <3>1, <3>2
  <2>4. CASE p \in Rear(m, v)
    <3>1. PartOf(p, m) /\ p.b = v.e
      BY <2>2, <2>4, RearIs
    <3>2. Beside(p, v)
      BY <3>1 DEF Beside, IsExtent
    <3> QED
      BY <2>2, <2>4, <3>1, <3>2
  <2> QED
    BY <2>1, <2>3, <2>4
<1> QED
  BY <1>1, <1>2

LEMMA PartsApart ==
    ASSUME NEW m \in TreeNodes, NEW k \in TreeNodes, ~ Overlaps(m, k),
           NEW p, PartOf(p, m), NEW q, PartOf(q, k)
    PROVE  ~ Overlaps(p, q)
  BY DEF TreeNodes, PartOf, Overlaps

LEMMA CarvedTree ==
    ASSUME NEW T, Tree(T), NEW v, IsExtent(v)
    PROVE  Tree(Carved(T, v))
<1> DEFINE C == Carved(T, v)
<1>1. C \subseteq TreeNodes /\ NonEmpty(C)
  BY CarvedParts DEF PartOf, NonEmpty
<1>2. ASSUME NEW p \in C, NEW q \in C PROVE p = q \/ ~ Overlaps(p, q)
  <2>1. PICK m \in T : /\ PartOf(p, m)
                       /\ Beside(p, v)
                       /\ p = m \/ p \in Front(m, v) \/ p \in Rear(m, v)
                       /\ p # m => Overlaps(m, v)
    BY CarvedParts
  <2>2. PICK k \in T : /\ PartOf(q, k)
                       /\ Beside(q, v)
                       /\ q = k \/ q \in Front(k, v) \/ q \in Rear(k, v)
                       /\ q # k => Overlaps(k, v)
    BY CarvedParts
  <2>3. m \in TreeNodes /\ k \in TreeNodes /\ m.b < m.e
    BY DEF Tree, NonEmpty
  <2>4. CASE m # k
    <3>1. ~ Overlaps(m, k)
      BY <2>4 DEF Tree, Disjoint
    <3> QED
      BY <2>1, <2>2, <2>3, <3>1, PartsApart
  <2>5. CASE m = k
    <3>1. Beside(m, v) => ~ Overlaps(m, v)
      BY <2>3 DEF Beside, Overlaps, TreeNodes, IsExtent
    <3>2. CASE p = m \/ q = m
      BY <2>1, <2>2, <2>5, <3>1, <3>2
    <3>3. CASE p # m /\ q # m
      <4>1. Overlaps(m, v)
        BY <2>1, <3>3
      <4>2. p \in Front(m, v) \/ p \in Rear(m, v)
        BY <2>1, <3>3
      <4>3. q \in Front(m, v) \/ q \in Rear(m, v)
        BY <2>2, <2>5, <3>3
      <4>4. p \in Front(m, v) /\ q \in Front(m, v) => p = q
        BY DEF Front
      <4>5. p \in Rear(m, v) /\ q \in Rear(m, v) => p = q
        BY DEF Rear
      <4>6. p \in Front(m, v) /\ q \in Rear(m, v) => p.e <= q.b
        BY <2>3, <4>1, FrontIs, RearIs DEF IsExtent
      <4>7. p \in Rear(m, v) /\ q \in Front(m, v) => q.e <= p.b
        BY <2>3, <4>1, FrontIs, RearIs DEF IsExtent
      <4>8. p \in TreeNodes /\ q \in TreeNodes
        BY <1>1
      <4>9. p.e <= q.b \/ q.e <= p.b => ~ Overlaps(p, q)
        BY <4>8 DEF Overlaps, TreeNodes
      <4> QED
        BY <4>2, <4>3, <4>4, <4>5, <4>6, <4>7, <4>9
    <3> QED
      BY <3>2, <3>3
  <2> QED
    BY <2>4, <2>5
<1> QED
  BY <1>1, <1>2 DEF Tree, Disjoint

\* A byte of m that is not of v is in a part of m that is left.
LEMMA PartLeft ==
    ASSUME NEW T, Tree(T), NEW v, IsExtent(v), NEW m \in T,
           NEW o \in Nat, Covers(m, o), ~ (v.b <= o /\ o < v.e)
    PROVE  \E p \in Carved(T, v) : PartOf(p, m) /\ Covers(p, o)
<1>1. m \in TreeNodes /\ m.b < m.e
  BY DEF Tree, NonEmpty
<1>2. CASE ~ Overlaps(m, v)
  <2>1. m \in Carved(T, v)
    BY <1>2, CarvedIs DEF Sharing
  <2>2. PartOf(m, m)
    BY <1>1 DEF PartOf, TreeNodes
  <2> QED
    BY <2>1, <2>2
<1>3. CASE Overlaps(m, v) /\ o < v.b
  <2> DEFINE p == [m EXCEPT !.e = v.b]
  <2>1. p \in Front(m, v)
    BY <1>1, <1>3 DEF Front, Covers, TreeNodes, IsExtent
  <2>2. PartOf(p, m) /\ p.b = m.b /\ p.e = v.b
    BY <1>1, <1>3, <2>1, FrontIs
  <2>3. Covers(p, o)
    BY <1>3, <2>2 DEF Covers
  <2>4. p \in Carved(T, v)
    BY <1>3, <2>1, CarvedIs DEF Sharing
  <2> QED
    BY <2>2, <2>3, <2>4
<1>4. CASE Overlaps(m, v) /\ v.e <= o
  <2> DEFINE p == [m EXCEPT !.b = v.e, !.ptr = @ + (v.e - m.b)]
  <2>1. p \in Rear(m, v)
    BY <1>1, <1>4 DEF Rear, Covers, TreeNodes, IsExtent
  <2>2. PartOf(p, m) /\ p.b = v.e /\ p.e = m.e
    BY <1>1, <1>4, <2>1, RearIs
  <2>3. Covers(p, o)
    BY <1>4, <2>2 DEF Covers
  <2>4. p \in Carved(T, v)
    BY <1>4, <2>1, CarvedIs DEF Sharing
  <2> QED
    BY <2>2, <2>3, <2>4
<1> QED
  BY <1>2, <1>3, <1>4 DEF IsExtent

LEMMA CarvedLocations ==
    ASSUME NEW T, Tree(T), NEW v, IsExtent(v), NEW o \in Nat
    PROVE  LocationOf(Carved(T, v), o) =
             IF v.b <= o /\ o < v.e THEN Hole ELSE LocationOf(T, o)
<1> DEFINE C == Carved(T, v)
<1>1. ASSUME NEW p \in C, Covers(p, o)
      PROVE  /\ \E m \in T : Covers(m, o)
             /\ ~ (v.b <= o /\ o < v.e)
  <2>1. PICK m \in T : PartOf(p, m) /\ Beside(p, v)
    BY CarvedParts
  <2>2. m \in TreeNodes
    BY DEF Tree
  <2>3. Covers(m, o)
    BY <1>1, <2>1, <2>2, PartLocates
  <2>4. ~ (v.b <= o /\ o < v.e)
    BY <1>1, <2>1 DEF PartOf, Beside, Covers, TreeNodes, IsExtent
  <2> QED
    BY <2>3, <2>4
<1>2. CASE v.b <= o /\ o < v.e
  BY <1>1, <1>2 DEF LocationOf
<1>3. CASE ~ (v.b <= o /\ o < v.e) /\ \E m \in T : Covers(m, o)
  <2>1. PICK m \in T : Covers(m, o)
    BY <1>3
  <2>2. PICK p \in C : PartOf(p, m) /\ Covers(p, o)
    BY <1>3, <2>1, PartLeft
  <2>3. m \in TreeNodes
    BY DEF Tree
  <2>4. LocationOf(C, o) = Location(p, o)
    BY <2>2, CarvedTree, LocationIs
  <2>5. LocationOf(T, o) = Location(m, o)
    BY <2>1, LocationIs
  <2>6. Location(p, o) = Location(m, o)
    BY <2>2, <2>3, PartLocates
  <2> QED
    BY <1>3, <2>4, <2>5, <2>6
<1>4. CASE ~ (v.b <= o /\ o < v.e) /\ ~ \E m \in T : Covers(m, o)
  BY <1>1, <1>4 DEF LocationOf
<1> QED
  BY <1>2, <1>3, <1>4

\* remove (extent_tree.hpp:177) leaves a tree of non-empty, disjoint nodes, takes
\* the location of every byte of the extent away and changes that of no other.
\* An empty extent, which the assertions of the code do not expect but which
\* overlaps what it lies inside of, cuts a node in two and loses no byte.
THEOREM RemoveErases ==
    ASSUME NEW T, Tree(T), NEW v, IsExtent(v)
    PROVE  /\ Tree(Remove(T, v))
           /\ \A o \in Nat : LocationOf(Remove(T, v), o) =
                IF v.b <= o /\ o < v.e THEN Hole ELSE LocationOf(T, o)
<1>1. Remove(T, v) = Carved(T, v)
  BY DEF Remove, Carved
<1> QED
  BY <1>1, CarvedTree, CarvedLocations

-----------------------------------------------------------------------------
(* Inserting a node. *)

\* What joining nodes keeps: t locates every byte where s does.
Locating(t, s) ==
    /\ Tree(t.nodes)
    /\ t.it \in t.nodes
    /\ \A o \in Nat : LocationOf(t.nodes, o) = LocationOf(s.nodes, o)

\* The join of two nodes covers what they cover, and locates it where they do.
LEMMA JoinedIs ==
    ASSUME NEW m \in TreeNodes, NEW n \in TreeNodes, m.b < m.e, n.b < n.e, FollowedBy(m, n),
           NEW both, both = [m EXCEPT !.e = n.e]
    PROVE  /\ both \in TreeNodes /\ both.b = m.b /\ both.e = n.e /\ both.b < both.e
           /\ \A o \in Nat : Covers(both, o) <=> Covers(m, o) \/ Covers(n, o)
           /\ \A o \in Nat : Covers(m, o) => Location(both, o) = Location(m, o)
           /\ \A o \in Nat : Covers(n, o) => Location(both, o) = Location(n, o)
<1>1. both = [b |-> m.b, e |-> n.e, ptr |-> m.ptr, client |-> m.client]
  BY DEF TreeNodes
<1>2. m.e = n.b /\ m.client = n.client /\ n.ptr = m.ptr + (m.e - m.b)
  BY DEF FollowedBy, Size, TreeNodes
<1>3. both \in TreeNodes
  BY <1>1 DEF TreeNodes
<1>4. both.b = m.b /\ both.e = n.e /\ both.ptr = m.ptr /\ both.client = m.client
  BY <1>1
<1>5. both.b < both.e
  BY <1>2, <1>4 DEF TreeNodes
<1>6. ASSUME NEW o \in Nat
      PROVE  Covers(both, o) <=> Covers(m, o) \/ Covers(n, o)
  BY <1>2, <1>4 DEF Covers, TreeNodes
<1>7. ASSUME NEW o \in Nat PROVE Location(both, o) = Location(m, o)
  BY <1>4 DEF Location
<1>8. ASSUME NEW o \in Nat PROVE Location(both, o) = Location(n, o)
  <2>1. both.ptr + (o - both.b) = n.ptr + (o - n.b)
    BY <1>2, <1>4 DEF TreeNodes
  <2> QED
    BY <1>2, <1>4, <2>1 DEF Location
<1> QED
  BY <1>3, <1>4, <1>5, <1>6, <1>7, <1>8

LEMMA JoinKeeps ==
    ASSUME NEW s, Tree(s.nodes), NEW m \in s.nodes, NEW n \in s.nodes, FollowedBy(m, n)
    PROVE  Locating(Join(s, m, n), s)
<1>1. PICK both : both = [m EXCEPT !.e = n.e]
  OBVIOUS
<1>2. PICK U : U = (s.nodes \ {m, n}) \cup {both}
  OBVIOUS
<1>3. Join(s, m, n).nodes = U /\ Join(s, m, n).it = both
  BY <1>1, <1>2 DEF Join
<1>4. m \in TreeNodes /\ n \in TreeNodes /\ m.b < m.e /\ n.b < n.e /\ m.e = n.b
  BY DEF Tree, NonEmpty, FollowedBy
<1>5. both \in TreeNodes /\ both.b = m.b /\ both.e = n.e /\ both.b < both.e
  BY <1>1, <1>4, JoinedIs
<1>6. /\ \A o \in Nat : Covers(both, o) <=> Covers(m, o) \/ Covers(n, o)
      /\ \A o \in Nat : Covers(m, o) => Location(both, o) = Location(m, o)
      /\ \A o \in Nat : Covers(n, o) => Location(both, o) = Location(n, o)
  BY <1>1, <1>4, JoinedIs
<1>7. ASSUME NEW k \in s.nodes, k # m, k # n
      PROVE  ~ Overlaps(k, both) /\ ~ Overlaps(both, k)
  <2>1. ~ Overlaps(k, m) /\ ~ Overlaps(k, n)
    BY <1>7 DEF Tree, Disjoint
  <2>2. k \in TreeNodes /\ k.b < k.e
    BY DEF Tree, NonEmpty
  <2> QED
    BY <1>4, <1>5, <2>1, <2>2 DEF Overlaps, TreeNodes
<1>8. Tree(U)
  <2>1. U \subseteq TreeNodes /\ NonEmpty(U)
    BY <1>2, <1>5 DEF Tree, NonEmpty
  <2>2. Disjoint(U)
    BY <1>2, <1>7 DEF Tree, Disjoint
  <2> QED
    BY <2>1, <2>2 DEF Tree
<1>9. ASSUME NEW o \in Nat PROVE LocationOf(U, o) = LocationOf(s.nodes, o)
  <2>1. CASE Covers(m, o)
    <3>1. LocationOf(U, o) = Location(both, o)
      BY <1>2, <1>6, <1>8, <2>1, LocationIs
    <3>2. LocationOf(s.nodes, o) = Location(m, o)
      BY <2>1, LocationIs
    <3> QED
      BY <1>6, <2>1, <3>1, <3>2
  <2>2. CASE Covers(n, o)
    <3>1. LocationOf(U, o) = Location(both, o)
      BY <1>2, <1>6, <1>8, <2>2, LocationIs
    <3>2. LocationOf(s.nodes, o) = Location(n, o)
      BY <2>2, LocationIs
    <3> QED
      BY <1>6, <2>2, <3>1, <3>2
  <2>3. CASE ~ Covers(m, o) /\ ~ Covers(n, o) /\ \E k \in s.nodes : Covers(k, o)
    <3>1. PICK k \in s.nodes : Covers(k, o)
      BY <2>3
    <3>2. k \in U
      BY <1>2, <2>3, <3>1
    <3>3. LocationOf(U, o) = Location(k, o)
      BY <1>8, <3>1, <3>2, LocationIs
    <3>4. LocationOf(s.nodes, o) = Location(k, o)
      BY <3>1, LocationIs
    <3> QED
      BY <3>3, <3>4
  <2>4. CASE ~ \E k \in s.nodes : Covers(k, o)
    <3>1. ~ \E k \in U : Covers(k, o)
      BY <1>2, <1>6, <2>4
    <3> QED
      BY <2>4, <3>1 DEF LocationOf
  <2> QED
    BY <2>1, <2>2, <2>3, <2>4
<1> QED
  BY <1>2, <1>3, <1>8, <1>9 DEF Locating

LEMMA PrevKeeps ==
    ASSUME NEW s, Tree(s.nodes), s.it \in s.nodes
    PROVE  Locating(CoalesceWithPrev(s), s)
<1> DEFINE S == {m \in s.nodes : m.b < s.it.b}
           prev == Back(S)
<1>1. CASE prev # End /\ FollowedBy(prev, s.it)
  <2>1. S # {}
    BY <1>1 DEF Back
  <2>2. S \subseteq TreeNodes /\ s.it.b \in Nat
    BY DEF Tree, TreeNodes
  <2>3. prev \in S
    BY <2>1, <2>2, BackIs
  <2>4. CoalesceWithPrev(s) = Join(s, prev, s.it)
    BY <1>1 DEF CoalesceWithPrev
  <2> QED
    BY <1>1, <2>3, <2>4, JoinKeeps
<1>2. CASE ~ (prev # End /\ FollowedBy(prev, s.it))
  <2>1. CoalesceWithPrev(s) = s
    BY <1>2 DEF CoalesceWithPrev
  <2> QED
    BY <2>1 DEF Locating
<1> QED
  BY <1>1, <1>2

LEMMA NextKeeps ==
    ASSUME NEW s, Tree(s.nodes), s.it \in s.nodes
    PROVE  Locating(CoalesceWithNext(s), s)
<1> DEFINE S == {m \in s.nodes : m.b > s.it.b}
           next == First(S)
<1>1. CASE next # End /\ FollowedBy(s.it, next)
  <2>1. S # {}
    BY <1>1 DEF First
  <2>2. S \subseteq TreeNodes
    BY DEF Tree
  <2>3. next \in S
    BY <2>1, <2>2, FirstIs
  <2>4. CoalesceWithNext(s) = Join(s, s.it, next)
    BY <1>1 DEF CoalesceWithNext
  <2> QED
    BY <1>1, <2>3, <2>4, JoinKeeps
<1>2. CASE ~ (next # End /\ FollowedBy(s.it, next))
  <2>1. CoalesceWithNext(s) = s
    BY <1>2 DEF CoalesceWithNext
  <2> QED
    BY <2>1 DEF Locating
<1> QED
  BY <1>1, <1>2

-----------------------------------------------------------------------------
(* Nodes that could be one are joined. *)

LEMMA CarvedCoalesced ==
    ASSUME NEW T, Tree(T), Coalesced(T), NEW v, IsExtent(v), v.b < v.e
    PROVE  Coalesced(Carved(T, v))
<1> DEFINE C == Carved(T, v)
<1> SUFFICES ASSUME NEW p \in C, NEW q \in C, FollowedBy(p, q)
             PROVE  FALSE
  BY DEF Coalesced
<1>1. PICK m \in T : /\ PartOf(p, m)
                     /\ Beside(p, v)
                     /\ p = m \/ p \in Front(m, v) \/ p \in Rear(m, v)
                     /\ p # m => Overlaps(m, v)
  BY CarvedParts
<1>2. PICK k \in T : /\ PartOf(q, k)
                     /\ Beside(q, v)
                     /\ q = k \/ q \in Front(k, v) \/ q \in Rear(k, v)
                     /\ q # k => Overlaps(k, v)
  BY CarvedParts
<1>3. m \in TreeNodes /\ k \in TreeNodes
  BY DEF Tree
<1>4. p \in TreeNodes /\ q \in TreeNodes /\ p.b < p.e /\ q.b < q.e /\ p.e = q.b
  BY <1>1, <1>2 DEF PartOf, FollowedBy
<1>5. p.e = m.e \/ p.e = v.b
  BY <1>1, <1>3, FrontIs, RearIs
<1>6. q.b = k.b \/ q.b = v.e
  BY <1>2, <1>3, FrontIs, RearIs
<1>7. p.e # v.b /\ q.b # v.e
  BY <1>1, <1>2, <1>4 DEF Beside, TreeNodes, IsExtent
<1>8. p.e = m.e /\ q.b = k.b
  BY <1>5, <1>6, <1>7
<1>9. p.ptr + (p.e - p.b) = q.ptr /\ p.client = q.client
  BY DEF FollowedBy, Size
<1>10. p.ptr + m.b = m.ptr + p.b /\ q.ptr + k.b = k.ptr + q.b
  BY <1>1, <1>2 DEF PartOf
<1>11. m.ptr + (m.e - m.b) = k.ptr
  <2>1. /\ p.ptr \in Int /\ p.b \in Nat /\ m.ptr \in Int /\ m.b \in Nat /\ m.e \in Nat
        /\ q.ptr \in Int /\ q.b \in Nat /\ k.ptr \in Int
    BY <1>3, <1>4 DEF TreeNodes
  <2>2. k.ptr = q.ptr
    BY <1>8, <1>10, <2>1
  <2>3. p.ptr + (m.e - p.b) = q.ptr
    BY <1>8, <1>9
  <2>4. \A x, y, z, w, n, r \in Int : x + y = z + w /\ x + (n - w) = r => z + (n - y) = r
    OBVIOUS
  <2>5. p.ptr + m.b = m.ptr + p.b
    BY <1>10
  <2>6. m.ptr + (m.e - m.b) = q.ptr
    BY <2>1, <2>3, <2>4, <2>5
  <2> QED
    BY <2>2, <2>6
<1>12. m.client = k.client
  BY <1>1, <1>2, <1>9 DEF PartOf
<1>13. FollowedBy(m, k)
  BY <1>4, <1>8, <1>11, <1>12 DEF FollowedBy, Size
<1> QED
  BY <1>13 DEF Coalesced

\* The nodes that could still be joined begin where the iterator is, after the
\* join with the node before it.
LEMMA PrevCoalesces ==
    ASSUME NEW s, Tree(s.nodes), s.it \in s.nodes,
           \A m, k \in s.nodes : FollowedBy(m, k) => m = s.it \/ k = s.it
    PROVE  \A m, k \in CoalesceWithPrev(s).nodes :
              FollowedBy(m, k) => m = CoalesceWithPrev(s).it
<1> DEFINE S == {m \in s.nodes : m.b < s.it.b}
           prev == Back(S)
<1>1. ASSUME NEW x \in s.nodes, FollowedBy(x, s.it)
      PROVE  x = prev /\ prev \in S
  <2>1. x \in TreeNodes /\ x.b < x.e /\ s.it \in TreeNodes
    BY DEF Tree, NonEmpty
  <2>2. x \in S
    BY <1>1, <2>1 DEF FollowedBy, TreeNodes
  <2>3. S \subseteq TreeNodes /\ s.it.b \in Nat
    BY <2>1 DEF Tree, TreeNodes
  <2>4. prev \in S /\ x.b <= prev.b
    BY <2>2, <2>3, BackIs
  <2>5. prev \in s.nodes /\ prev \in TreeNodes /\ prev.b < prev.e
    BY <2>4 DEF Tree, NonEmpty
  <2>6. prev.b < x.e
    BY <1>1, <2>4 DEF FollowedBy
  <2>7. Overlaps(x, prev)
    BY <2>1, <2>4, <2>5, <2>6 DEF Overlaps, TreeNodes
  <2> QED
    BY <2>4, <2>5, <2>7 DEF Tree, Disjoint
<1>2. CASE prev # End /\ FollowedBy(prev, s.it)
  <2>1. PICK n : n = s.it
    OBVIOUS
  <2>2. PICK m : m = prev
    OBVIOUS
  <2>3. m \in s.nodes /\ n \in s.nodes /\ FollowedBy(m, n)
    <3>1. S # {}
      BY <1>2 DEF Back
    <3>2. S \subseteq TreeNodes /\ s.it.b \in Nat
      BY DEF Tree, TreeNodes
    <3>3. prev \in S
      BY <3>1, <3>2, BackIs
    <3> QED
      BY <1>2, <2>1, <2>2, <3>3
  <2>4. PICK both : both = [m EXCEPT !.e = n.e]
    OBVIOUS
  <2>5. CoalesceWithPrev(s) = [nodes |-> (s.nodes \ {m, n}) \cup {both}, it |-> both]
    BY <1>2, <2>1, <2>2, <2>4 DEF CoalesceWithPrev, Join
  <2>6. m \in TreeNodes /\ n \in TreeNodes /\ m.b < m.e /\ n.b < n.e /\ m.e = n.b
    BY <2>3 DEF Tree, NonEmpty, FollowedBy
  <2>7. both.b = m.b /\ both.e = n.e /\ both.ptr = m.ptr /\ both.client = m.client
    BY <2>4, <2>6 DEF TreeNodes
  <2>8. ASSUME NEW a \in s.nodes \ {m, n} PROVE ~ FollowedBy(a, both)
    <3>1. FollowedBy(a, both) => FollowedBy(a, m)
      BY <2>7 DEF FollowedBy
    <3>2. m # n
      BY <2>6 DEF TreeNodes
    <3> QED
      BY <2>1, <2>3, <2>8, <3>1, <3>2
  <2>9. ~ FollowedBy(both, both)
    BY <2>6, <2>7 DEF FollowedBy, TreeNodes
  <2>10. ASSUME NEW a \in s.nodes \ {m, n}, NEW b \in s.nodes \ {m, n}
         PROVE  ~ FollowedBy(a, b)
    BY <2>1, <2>10
  <2> QED
    BY <2>5, <2>8, <2>9, <2>10
<1>3. CASE ~ (prev # End /\ FollowedBy(prev, s.it))
  <2>1. CoalesceWithPrev(s) = s
    BY <1>3 DEF CoalesceWithPrev
  <2>2. End \notin S
    BY EndIsNoNode DEF Tree
  <2>3. \A x \in s.nodes : ~ FollowedBy(x, s.it)
    BY <1>1, <1>3, <2>2
  <2> QED
    BY <2>1, <2>3
<1> QED
  BY <1>2, <1>3

\* None are left after the join with the node after it.
LEMMA NextCoalesces ==
    ASSUME NEW s, Tree(s.nodes), s.it \in s.nodes,
           \A m, k \in s.nodes : FollowedBy(m, k) => m = s.it
    PROVE  Coalesced(CoalesceWithNext(s).nodes)
<1> DEFINE S == {m \in s.nodes : m.b > s.it.b}
           next == First(S)
<1>1. ASSUME NEW y \in s.nodes, FollowedBy(s.it, y)
      PROVE  y = next /\ next \in S
  <2>1. y \in TreeNodes /\ y.b < y.e /\ s.it \in TreeNodes /\ s.it.b < s.it.e
    BY DEF Tree, NonEmpty
  <2>2. y \in S /\ y.b = s.it.e
    BY <1>1, <2>1 DEF FollowedBy, TreeNodes
  <2>3. S \subseteq TreeNodes
    BY DEF Tree
  <2>4. next \in S /\ next.b <= y.b
    BY <2>2, <2>3, FirstIs
  <2>5. next \in s.nodes /\ next \in TreeNodes /\ next.b < next.e /\ next.b > s.it.b
    BY <2>4 DEF Tree, NonEmpty
  <2>6. ~ Overlaps(s.it, next)
    BY <2>1, <2>5 DEF Tree, Disjoint, TreeNodes
  <2>7. next.b = y.b
    BY <2>1, <2>2, <2>4, <2>5, <2>6 DEF Overlaps, TreeNodes
  <2> QED
    BY <2>4, <2>5, <2>7, OneNodePerBegin
<1>2. CASE next # End /\ FollowedBy(s.it, next)
  <2>1. PICK m : m = s.it
    OBVIOUS
  <2>2. PICK n : n = next
    OBVIOUS
  <2>3. m \in s.nodes /\ n \in s.nodes /\ FollowedBy(m, n)
    <3>1. S # {}
      BY <1>2 DEF First
    <3>2. S \subseteq TreeNodes
      BY DEF Tree
    <3>3. next \in S
      BY <3>1, <3>2, FirstIs
    <3> QED
      BY <1>2, <2>1, <2>2, <3>3
  <2>4. PICK both : both = [m EXCEPT !.e = n.e]
    OBVIOUS
  <2>5. CoalesceWithNext(s) = [nodes |-> (s.nodes \ {m, n}) \cup {both}, it |-> both]
    BY <1>2, <2>1, <2>2, <2>4 DEF CoalesceWithNext, Join
  <2>6. m \in TreeNodes /\ n \in TreeNodes /\ m.b < m.e /\ n.b < n.e /\ m.e = n.b
    BY <2>3 DEF Tree, NonEmpty, FollowedBy
  <2>7. both.b = m.b /\ both.e = n.e /\ both.ptr = m.ptr /\ both.client = m.client
    BY <2>4, <2>6 DEF TreeNodes
  <2>8. m.client = n.client /\ n.ptr = m.ptr + (m.e - m.b)
    BY <2>3 DEF FollowedBy, Size
  <2>9. ASSUME NEW a \in s.nodes \ {m, n} PROVE ~ FollowedBy(a, both)
    <3>1. FollowedBy(a, both) => FollowedBy(a, m)
      BY <2>7 DEF FollowedBy
    <3> QED
      BY <2>1, <2>3, <2>9, <3>1
  <2>10. ASSUME NEW a \in s.nodes \ {m, n} PROVE ~ FollowedBy(both, a)
    <3>1. both.ptr + (both.e - both.b) = n.ptr + (n.e - n.b)
      BY <2>6, <2>7, <2>8 DEF TreeNodes
    <3>2. FollowedBy(both, a) => FollowedBy(n, a)
      BY <2>7, <2>8, <3>1 DEF FollowedBy, Size
    <3>3. m # n
      BY <2>6 DEF TreeNodes
    <3> QED
      BY <2>1, <2>3, <2>10, <3>2, <3>3
  <2>11. ~ FollowedBy(both, both)
    BY <2>6, <2>7 DEF FollowedBy, TreeNodes
  <2>12. ASSUME NEW a \in s.nodes \ {m, n}, NEW b \in s.nodes \ {m, n}
         PROVE  ~ FollowedBy(a, b)
    BY <2>1, <2>12
  <2> QED
    BY <2>5, <2>9, <2>10, <2>11, <2>12 DEF Coalesced
<1>3. CASE ~ (next # End /\ FollowedBy(s.it, next))
  <2>1. CoalesceWithNext(s) = s
    BY <1>3 DEF CoalesceWithNext
  <2>2. End \notin S
    BY EndIsNoNode DEF Tree
  <2>3. \A y \in s.nodes : ~ FollowedBy(s.it, y)
    BY <1>1, <1>3, <2>2
  <2> QED
    BY <2>1, <2>3 DEF Coalesced
<1> QED
  BY <1>2, <1>3

\* Where the bytes of v were taken out, no node is equivalent to v.
LEMMA InsertedIs ==
    ASSUME NEW T, Tree(T), NEW v \in TreeNodes, v.b < v.e
    PROVE  SetInsert(Carved(T, v), v) = [nodes |-> Carved(T, v) \cup {v}, it |-> v]
<1>1. IsExtent(v)
  BY DEF IsExtent, TreeNodes
<1>2. ASSUME NEW p \in Carved(T, v) PROVE Precedes(p, v) \/ Precedes(v, p)
  BY <1>1, CarvedParts DEF Beside, Precedes, TreeNodes
<1> QED
  BY <1>2 DEF SetInsert

LEMMA InsertedTree ==
    ASSUME NEW T, Tree(T), NEW v \in TreeNodes, v.b < v.e
    PROVE  Tree(Carved(T, v) \cup {v})
<1>1. IsExtent(v)
  BY DEF IsExtent, TreeNodes
<1>2. Tree(Carved(T, v))
  BY <1>1, CarvedTree
<1>3. ASSUME NEW p \in Carved(T, v) PROVE ~ Overlaps(p, v) /\ ~ Overlaps(v, p)
  <2>1. Beside(p, v) /\ p \in TreeNodes
    BY <1>1, <1>2, CarvedParts DEF Tree
  <2> QED
    BY <2>1 DEF Beside, Overlaps, TreeNodes
<1> QED
  BY <1>2, <1>3 DEF Tree, NonEmpty, Disjoint

LEMMA InsertedLocations ==
    ASSUME NEW T, Tree(T), NEW v \in TreeNodes, v.b < v.e, NEW o \in Nat
    PROVE  LocationOf(Carved(T, v) \cup {v}, o) =
             IF Covers(v, o) THEN Location(v, o) ELSE LocationOf(T, o)
<1>1. IsExtent(v)
  BY DEF IsExtent, TreeNodes
<1> DEFINE U == Carved(T, v) \cup {v}
<1>2. CASE Covers(v, o)
  BY <1>2, InsertedTree, LocationIs
<1>3. CASE ~ Covers(v, o)
  <2>1. LocationOf(Carved(T, v), o) = LocationOf(T, o)
    BY <1>1, <1>3, CarvedLocations DEF Covers
  <2>2. LocationOf(U, o) = LocationOf(Carved(T, v), o)
    <3>1. CASE \E p \in Carved(T, v) : Covers(p, o)
      <4>1. PICK p \in Carved(T, v) : Covers(p, o)
        BY <3>1
      <4>2. LocationOf(U, o) = Location(p, o)
        BY <4>1, InsertedTree, LocationIs
      <4>3. LocationOf(Carved(T, v), o) = Location(p, o)
        BY <1>1, <4>1, CarvedTree, LocationIs
      <4> QED
        BY <4>2, <4>3
    <3>2. CASE ~ \E p \in Carved(T, v) : Covers(p, o)
      BY <1>3, <3>2 DEF LocationOf
    <3> QED
      BY <3>1, <3>2
  <2> QED
    BY <1>3, <2>1, <2>2
<1> QED
  BY <1>2, <1>3

\* add (extent_tree.hpp:172) leaves a tree of non-empty, disjoint nodes, locates
\* every byte of the new node where the node says, and changes the location of
\* no other byte, whatever it carves and joins.
THEOREM AddAssigns ==
    ASSUME NEW T, Tree(T), NEW v \in TreeNodes, v.b < v.e
    PROVE  /\ Tree(Add(T, v))
           /\ \A o \in Nat : LocationOf(Add(T, v), o) =
                IF Covers(v, o) THEN Location(v, o) ELSE LocationOf(T, o)
<1>1. PICK s : s = [nodes |-> Carved(T, v) \cup {v}, it |-> v]
  OBVIOUS
<1>2. PICK t : t = CoalesceWithPrev(s)
  OBVIOUS
<1>3. PICK u : u = CoalesceWithNext(t)
  OBVIOUS
<1>4. Add(T, v) = u.nodes
  BY <1>1, <1>2, <1>3, InsertedIs DEF Add, DoInsert, Carved
<1>5. Tree(s.nodes) /\ s.it \in s.nodes
  BY <1>1, InsertedTree
<1>6. Locating(t, s)
  BY <1>2, <1>5, PrevKeeps
<1>7. Locating(u, t)
  BY <1>3, <1>6, NextKeeps DEF Locating
<1>8. ASSUME NEW o \in Nat
      PROVE  LocationOf(u.nodes, o) = IF Covers(v, o) THEN Location(v, o) ELSE LocationOf(T, o)
  <2>1. LocationOf(u.nodes, o) = LocationOf(s.nodes, o)
    BY <1>6, <1>7 DEF Locating
  <2>2. LocationOf(s.nodes, o) = LocationOf(Carved(T, v) \cup {v}, o)
    BY <1>1
  <2> QED
    BY <2>1, <2>2, InsertedLocations
<1> QED
  BY <1>4, <1>7, <1>8 DEF Locating

\* Both keep a tree in which no two nodes could be one; remove of an empty extent
\* alone may not.
THEOREM TreesStayCoalesced ==
    ASSUME NEW T, Tree(T), Coalesced(T)
    PROVE  /\ \A v \in TreeNodes : v.b < v.e => Coalesced(Add(T, v))
           /\ \A v : IsExtent(v) /\ v.b < v.e => Coalesced(Remove(T, v))
<1>1. ASSUME NEW v \in TreeNodes, v.b < v.e PROVE Coalesced(Add(T, v))
  <2>1. PICK s : s = [nodes |-> Carved(T, v) \cup {v}, it |-> v]
    OBVIOUS
  <2>2. PICK t : t = CoalesceWithPrev(s)
    OBVIOUS
  <2>3. Add(T, v) = CoalesceWithNext(t).nodes
    BY <1>1, <2>1, <2>2, InsertedIs DEF Add, DoInsert, Carved
  <2>4. Tree(s.nodes) /\ s.it \in s.nodes
    BY <1>1, <2>1, InsertedTree
  <2>5. \A m, k \in s.nodes : FollowedBy(m, k) => m = s.it \/ k = s.it
    <3>1. IsExtent(v)
      BY <1>1 DEF IsExtent, TreeNodes
    <3>2. Coalesced(Carved(T, v))
      BY <1>1, <3>1, CarvedCoalesced
    <3> QED
      BY <2>1, <3>2 DEF Coalesced
  <2>6. Tree(t.nodes) /\ t.it \in t.nodes
    BY <2>2, <2>4, PrevKeeps DEF Locating
  <2>7. \A m, k \in t.nodes : FollowedBy(m, k) => m = t.it
    BY <2>2, <2>4, <2>5, PrevCoalesces
  <2> QED
    BY <2>3, <2>6, <2>7, NextCoalesces
<1>2. ASSUME NEW v, IsExtent(v), v.b < v.e PROVE Coalesced(Remove(T, v))
  BY <1>2, CarvedCoalesced DEF Remove, Carved
<1> QED
  BY <1>1, <1>2

-----------------------------------------------------------------------------
(* Inserting at any iterator.  The iterator that merge carries along may be *)
(* behind nodes that share bytes with the new one; what do_insert does then *)
(* is to cut too few nodes.                                                *)

LEMMA HoleIs ==
    ASSUME NEW T, NEW o
    PROVE  LocationOf(T, o) = Hole <=> ~ \E m \in T : Covers(m, o)
  BY DEF LocationOf, Location, Hole

\* What the loop leaves is what it does not visit, and the parts of the others.
LEMMA LooselyCarved ==
    ASSUME NEW T, Tree(T), NEW it, NEW v, IsExtent(v)
    PROVE  \E H \in SUBSET T : /\ Tree(H)
                               /\ Carve(T, it, v) = (T \ H) \cup Carved(H, v)
<1>1. PICK H : H = Hit(T, it, v)
  OBVIOUS
<1>2. H \subseteq T /\ \A m \in H : Overlaps(m, v)
  BY <1>1 DEF Hit
<1>3. Tree(H)
  BY <1>2 DEF Tree, NonEmpty, Disjoint
<1>4. Sharing(H, v) = H
  BY <1>2 DEF Sharing
<1>5. Carved(H, v) = UNION {Front(m, v) \cup Rear(m, v) : m \in H}
  BY <1>3, <1>4, CarvedIs
<1>6. Carve(T, it, v) = (T \ H) \cup UNION {Front(m, v) \cup Rear(m, v) : m \in H}
  BY <1>1 DEF Carve
<1> QED
  BY <1>2, <1>3, <1>5, <1>6

LEMMA RestTree ==
    ASSUME NEW T, Tree(T), NEW H \in SUBSET T, Tree(H), NEW v, IsExtent(v)
    PROVE  Tree((T \ H) \cup Carved(H, v))
<1>1. Tree(Carved(H, v))
  BY CarvedTree
<1>2. ASSUME NEW p \in T \ H, NEW q \in Carved(H, v)
      PROVE  ~ Overlaps(p, q) /\ ~ Overlaps(q, p)
  <2>1. PICK m \in H : PartOf(q, m)
    BY CarvedParts
  <2>2. p \in TreeNodes /\ m \in TreeNodes /\ p.b < p.e
    BY DEF Tree, NonEmpty
  <2>3. ~ Overlaps(p, m) /\ ~ Overlaps(m, p)
    BY DEF Tree, Disjoint
  <2>4. PartOf(p, p)
    BY <2>2 DEF PartOf, TreeNodes
  <2> QED
    BY <2>1, <2>2, <2>3, <2>4, PartsApart
<1>3. (T \ H) \cup Carved(H, v) \subseteq TreeNodes
  BY <1>1 DEF Tree
<1>4. NonEmpty((T \ H) \cup Carved(H, v))
  BY <1>1 DEF Tree, NonEmpty
<1>5. Disjoint((T \ H) \cup Carved(H, v))
  BY <1>1, <1>2 DEF Tree, Disjoint
<1> QED
  BY <1>3, <1>4, <1>5 DEF Tree

LEMMA RestLocations ==
    ASSUME NEW T, Tree(T), NEW H \in SUBSET T, Tree(H), NEW v, IsExtent(v), NEW o \in Nat
    PROVE  \/ LocationOf((T \ H) \cup Carved(H, v), o) = LocationOf(T, o)
           \/ /\ v.b <= o /\ o < v.e
              /\ LocationOf((T \ H) \cup Carved(H, v), o) = Hole
<1>1. PICK C : C = (T \ H) \cup Carved(H, v)
  OBVIOUS
<1>2. Tree(C)
  BY <1>1, RestTree
<1>3. CASE ~ \E m \in C : Covers(m, o)
  <2>1. LocationOf(C, o) = Hole
    BY <1>3, HoleIs
  <2>2. CASE v.b <= o /\ o < v.e
    BY <1>1, <2>1, <2>2
  <2>3. CASE ~ (v.b <= o /\ o < v.e)
    <3>1. ~ \E m \in T : Covers(m, o)
      <4> SUFFICES ASSUME NEW m \in T, Covers(m, o) PROVE FALSE
        OBVIOUS
      <4>1. m \in H
        BY <1>1, <1>3
      <4>2. \E p \in Carved(H, v) : Covers(p, o)
        BY <2>3, <4>1, PartLeft
      <4> QED
        BY <1>1, <1>3, <4>2
    <3> QED
      BY <1>1, <2>1, <3>1, HoleIs
  <2> QED
    BY <2>2, <2>3
<1>4. CASE \E m \in C : Covers(m, o)
  <2>1. PICK p \in C : Covers(p, o)
    BY <1>4
  <2>2. LocationOf(C, o) = Location(p, o)
    BY <1>2, <2>1, LocationIs
  <2>3. CASE p \in T \ H
    BY <1>1, <2>1, <2>2, <2>3, LocationIs
  <2>4. CASE p \in Carved(H, v)
    <3>1. PICK m \in H : PartOf(p, m)
      BY <2>4, CarvedParts
    <3>2. m \in TreeNodes
      BY DEF Tree
    <3>3. Covers(m, o) /\ Location(p, o) = Location(m, o)
      BY <2>1, <3>1, <3>2, PartLocates
    <3>4. LocationOf(T, o) = Location(m, o)
      BY <3>3, LocationIs
    <3> QED
      BY <1>1, <2>2, <3>3, <3>4
  <2> QED
    BY <1>1, <2>1, <2>3, <2>4
<1> QED
  BY <1>3, <1>4

\* A byte of S is where T has it, or where v has it if it is a byte of v; some
\* bytes of v may have got lost.
Moves(S, T, v) ==
    \A o \in Nat :
        \/ LocationOf(S, o) = LocationOf(T, o)
        \/ Covers(v, o) /\ LocationOf(S, o) \in {Hole, Location(v, o)}

\* If a node shares a byte with v the set takes v for that node and inserts nothing.
LEMMA SetInsertMoves ==
    ASSUME NEW T, Tree(T), NEW v \in TreeNodes, v.b < v.e
    PROVE  /\ Tree(SetInsert(T, v).nodes)
           /\ SetInsert(T, v).it \in SetInsert(T, v).nodes
           /\ Moves(SetInsert(T, v).nodes, T, v)
<1>1. PICK S : S = {m \in T : ~ Precedes(m, v) /\ ~ Precedes(v, m)}
  OBVIOUS
<1>2. CASE S = {}
  <2>1. SetInsert(T, v) = [nodes |-> T \cup {v}, it |-> v]
    BY <1>1, <1>2 DEF SetInsert
  <2>2. ASSUME NEW m \in T PROVE ~ Overlaps(m, v) /\ ~ Overlaps(v, m)
    <3>1. m \in TreeNodes
      BY DEF Tree
    <3> QED
      BY <1>1, <1>2, <3>1 DEF Precedes, Overlaps, TreeNodes
  <2>3. PICK W : W = T \cup {v}
    OBVIOUS
  <2>4. Tree(W)
    BY <2>2, <2>3 DEF Tree, NonEmpty, Disjoint
  <2>5. ASSUME NEW o \in Nat
        PROVE  \/ LocationOf(W, o) = LocationOf(T, o)
               \/ Covers(v, o) /\ LocationOf(W, o) = Location(v, o)
    <3>1. CASE Covers(v, o)
      BY <2>3, <2>4, <3>1, LocationIs
    <3>2. CASE ~ Covers(v, o) /\ \E m \in T : Covers(m, o)
      BY <2>3, <2>4, <3>2, LocationIs
    <3>3. CASE ~ Covers(v, o) /\ ~ \E m \in T : Covers(m, o)
      <4>1. ~ \E m \in W : Covers(m, o)
        BY <2>3, <3>3
      <4> QED
        BY <3>3, <4>1, HoleIs
    <3> QED
      BY <3>1, <3>2, <3>3
  <2> QED
    BY <2>1, <2>3, <2>4, <2>5 DEF Moves
<1>3. CASE S # {}
  <2>1. SetInsert(T, v) = [nodes |-> T, it |-> First(S)]
    BY <1>1, <1>3 DEF SetInsert
  <2>2. First(S) \in T
    BY <1>1, <1>3, FirstIs DEF Tree
  <2> QED
    BY <2>1, <2>2 DEF Moves
<1> QED
  BY <1>2, <1>3

LEMMA DoInsertMoves ==
    ASSUME NEW T, Tree(T), NEW it, NEW v \in TreeNodes, v.b < v.e
    PROVE  Tree(DoInsert(T, it, v).nodes) /\ Moves(DoInsert(T, it, v).nodes, T, v)
<1>1. PICK C : C = Carve(T, it, v)
  OBVIOUS
<1>2. PICK s : s = SetInsert(C, v)
  OBVIOUS
<1>3. PICK t : t = CoalesceWithPrev(s)
  OBVIOUS
<1>4. PICK u : u = CoalesceWithNext(t)
  OBVIOUS
<1>5. DoInsert(T, it, v) = u
  BY <1>1, <1>2, <1>3, <1>4 DEF DoInsert
<1>6. IsExtent(v)
  BY DEF IsExtent, TreeNodes
<1>7. PICK H \in SUBSET T : Tree(H) /\ C = (T \ H) \cup Carved(H, v)
  BY <1>1, <1>6, LooselyCarved
<1>8. Tree(C)
  BY <1>6, <1>7, RestTree
<1>9. Tree(s.nodes) /\ s.it \in s.nodes /\ Moves(s.nodes, C, v)
  BY <1>2, <1>8, SetInsertMoves
<1>10. Locating(t, s)
  BY <1>3, <1>9, PrevKeeps
<1>11. Locating(u, t)
  BY <1>4, <1>10, NextKeeps DEF Locating
<1>12. ASSUME NEW o \in Nat
       PROVE  \/ LocationOf(u.nodes, o) = LocationOf(T, o)
              \/ Covers(v, o) /\ LocationOf(u.nodes, o) \in {Hole, Location(v, o)}
  <2>1. LocationOf(u.nodes, o) = LocationOf(s.nodes, o)
    BY <1>10, <1>11 DEF Locating
  <2>2. \/ LocationOf(C, o) = LocationOf(T, o)
        \/ Covers(v, o) /\ LocationOf(C, o) = Hole
    BY <1>6, <1>7, RestLocations DEF Covers
  <2>3. \/ LocationOf(s.nodes, o) = LocationOf(C, o)
        \/ Covers(v, o) /\ LocationOf(s.nodes, o) \in {Hole, Location(v, o)}
    BY <1>9 DEF Moves
  <2> QED
    BY <2>1, <2>2, <2>3
<1> QED
  BY <1>5, <1>11, <1>12 DEF Locating, Moves

-----------------------------------------------------------------------------
(* The loop of merge.                                                      *)

\* f holds the states of the loop through U, from s0, after up to N passes.
PassesFrom(f, U, s0, N) ==
    f = [n \in 0 .. N |-> IF n = 0 THEN s0 ELSE MergeStep(U, f[n - 1])]

LEMMA PassesStep ==
    ASSUME NEW f, NEW U, NEW s0, NEW N \in Nat, PassesFrom(f, U, s0, N)
    PROVE  /\ f[0] = s0
           /\ \A n \in 0 .. N : n # 0 => f[n] = MergeStep(U, f[n - 1])
<1>1. ASSUME NEW n \in 0 .. N
      PROVE  f[n] = IF n = 0 THEN s0 ELSE MergeStep(U, f[n - 1])
  BY DEF PassesFrom
<1>2. 0 \in 0 .. N
  OBVIOUS
<1>3. f[0] = s0
  BY <1>1, <1>2
<1>4. ASSUME NEW n \in 0 .. N, n # 0 PROVE f[n] = MergeStep(U, f[n - 1])
  BY <1>1, <1>4
<1> QED
  BY <1>3, <1>4

\* One more pass than f.
LEMMA PassesMore ==
    ASSUME NEW f, NEW U, NEW s0, NEW k \in Nat, k # 0, PassesFrom(f, U, s0, k - 1)
    PROVE  \E g : PassesFrom(g, U, s0, k)
<1>1. PICK g : g = [n \in 0 .. k |-> IF n = 0 THEN s0 ELSE MergeStep(U, f[n - 1])]
  OBVIOUS
<1>2. ASSUME NEW n \in 0 .. k
      PROVE  g[n] = IF n = 0 THEN s0 ELSE MergeStep(U, f[n - 1])
  BY <1>1
<1>3. k - 1 \in Nat
  OBVIOUS
<1>4. ASSUME NEW n \in 0 .. k, n # 0 PROVE g[n - 1] = f[n - 1]
  <2>1. PICK j : j = n - 1
    OBVIOUS
  <2>2. j \in 0 .. k - 1 /\ j \in 0 .. k
    BY <1>4, <2>1
  <2>3. f[j] = IF j = 0 THEN s0 ELSE MergeStep(U, f[j - 1])
    BY <1>3, <2>2, PassesStep
  <2>4. g[j] = IF j = 0 THEN s0 ELSE MergeStep(U, f[j - 1])
    BY <1>2, <2>2
  <2> QED
    BY <2>1, <2>3, <2>4
<1>5. ASSUME NEW n \in 0 .. k
      PROVE  (IF n = 0 THEN s0 ELSE MergeStep(U, f[n - 1]))
             = (IF n = 0 THEN s0 ELSE MergeStep(U, g[n - 1]))
  BY <1>4
<1>6. g = [n \in 0 .. k |-> IF n = 0 THEN s0 ELSE MergeStep(U, g[n - 1])]
  BY <1>1, <1>5, Zenon
<1> QED
  BY <1>6 DEF PassesFrom

\* The states of the loop exist, one for each number of passes.
LEMMA PassesExist ==
    ASSUME NEW s0, NEW U, NEW N \in Nat
    PROVE  \E f : PassesFrom(f, U, s0, N)
<1> DEFINE Short == {k \in Nat : ~ \E f : PassesFrom(f, U, s0, k)}
<1> SUFFICES ASSUME Short # {} PROVE FALSE
  OBVIOUS
<1>0. Short \in SUBSET Nat
  OBVIOUS
<1>a. ASSUME NEW k \in Short PROVE ~ \E f : PassesFrom(f, U, s0, k)
  OBVIOUS
<1>b. ASSUME NEW k \in Nat, k \notin Short PROVE \E f : PassesFrom(f, U, s0, k)
  BY <1>b
<1> HIDE DEF Short
<1>1. PICK k \in Short : \A m \in Short : k <= m
  BY <1>0, SmallestExists
<1>2. k \in Nat
  BY <1>0, <1>1
<1>3. CASE k = 0
  <2>1. PICK f : f = [n \in 0 .. 0 |-> s0]
    OBVIOUS
  <2>2. ASSUME NEW n \in 0 .. 0
        PROVE  s0 = (IF n = 0 THEN s0 ELSE MergeStep(U, f[n - 1]))
    OBVIOUS
  <2>3. f = [n \in 0 .. 0 |-> IF n = 0 THEN s0 ELSE MergeStep(U, f[n - 1])]
    BY <2>1, <2>2, Zenon
  <2>4. PassesFrom(f, U, s0, k)
    BY <1>3, <2>3 DEF PassesFrom
  <2> QED
    BY <1>a, <1>1, <2>4
<1>4. CASE k # 0
  <2>1. k - 1 \in Nat /\ ~ (k <= k - 1)
    BY <1>2, <1>4
  <2>2. k - 1 \notin Short
    BY <1>1, <2>1
  <2>3. PICK f : PassesFrom(f, U, s0, k - 1)
    BY <1>b, <2>1, <2>2
  <2>4. \E g : PassesFrom(g, U, s0, k)
    BY <1>2, <1>4, <2>3, PassesMore
  <2> QED
    BY <1>a, <1>1, <2>4
<1> QED
  BY <1>3, <1>4

LEMMA PassesAre ==
    ASSUME NEW T, NEW U, NEW it, Cardinality(U) \in Nat
    PROVE  PassesFrom(Passes(T, U, it), U, [nodes |-> T, it |-> it, in |-> First(U)],
                      Cardinality(U))
<1>1. PICK s0 : s0 = [nodes |-> T, it |-> it, in |-> First(U)]
  OBVIOUS
<1>2. Passes(T, U, it) = CHOOSE f : PassesFrom(f, U, s0, Cardinality(U))
  BY <1>1 DEF Passes, PassesFrom
<1>3. \E f : PassesFrom(f, U, s0, Cardinality(U))
  BY PassesExist
<1> QED
  BY <1>1, <1>2, <1>3

\* Where a byte is after some passes: where T or U has it, or nowhere any more
\* if U has it.
OutOf(S, T, U) ==
    /\ Tree(S)
    /\ \A o \in Nat :
          \/ LocationOf(S, o) = LocationOf(T, o)
          \/ LocationOf(U, o) # Hole /\ LocationOf(S, o) \in {Hole, LocationOf(U, o)}

LEMMA PassMerges ==
    ASSUME NEW T, NEW U, Tree(U), NEW s, OutOf(s.nodes, T, U), s.in \in U \cup {End}
    PROVE  OutOf(MergeStep(U, s).nodes, T, U) /\ MergeStep(U, s).in \in U \cup {End}
<1>1. CASE s.in = End
  BY <1>1 DEF MergeStep
<1>2. CASE s.in # End
  <2>1. PICK v : v = s.in
    OBVIOUS
  <2>2. v \in U /\ v \in TreeNodes /\ v.b < v.e
    BY <1>2, <2>1 DEF Tree, NonEmpty
  <2>3. PICK S : S = DoInsert(s.nodes, s.it, v).nodes
    OBVIOUS
  <2>4. Tree(S) /\ Moves(S, s.nodes, v)
    BY <2>2, <2>3, DoInsertMoves DEF OutOf
  <2>5. MergeStep(U, s).nodes = S
    BY <1>2, <2>1, <2>3 DEF MergeStep
  <2>6. MergeStep(U, s).in = First({m \in U : m.b > v.b})
    BY <1>2, <2>1 DEF MergeStep
  <2>7. First({m \in U : m.b > v.b}) \in U \cup {End}
    <3>1. CASE {m \in U : m.b > v.b} = {}
      BY <3>1 DEF First
    <3>2. CASE {m \in U : m.b > v.b} # {}
      BY <3>2, FirstIs DEF Tree
    <3> QED
      BY <3>1, <3>2
  <2>8. ASSUME NEW o \in Nat
        PROVE  \/ LocationOf(S, o) = LocationOf(T, o)
               \/ LocationOf(U, o) # Hole /\ LocationOf(S, o) \in {Hole, LocationOf(U, o)}
    <3>1. \/ LocationOf(S, o) = LocationOf(s.nodes, o)
          \/ Covers(v, o) /\ LocationOf(S, o) \in {Hole, Location(v, o)}
      BY <2>4 DEF Moves
    <3>2. \/ LocationOf(s.nodes, o) = LocationOf(T, o)
          \/ LocationOf(U, o) # Hole /\ LocationOf(s.nodes, o) \in {Hole, LocationOf(U, o)}
      BY DEF OutOf
    <3>3. Covers(v, o) => LocationOf(U, o) = Location(v, o) /\ LocationOf(U, o) # Hole
      BY <2>2, LocationIs, HoleIs
    <3> QED
      BY <3>1, <3>2, <3>3
  <2> QED
    BY <2>4, <2>5, <2>6, <2>7, <2>8 DEF OutOf
<1> QED
  BY <1>1, <1>2

LEMMA PassesMerge ==
    ASSUME NEW T, Tree(T), NEW U, Tree(U), NEW it, Cardinality(U) \in Nat
    PROVE  OutOf(Passes(T, U, it)[Cardinality(U)].nodes, T, U)
<1>1. PICK N \in Nat : N = Cardinality(U)
  OBVIOUS
<1>2. PICK P : P = Passes(T, U, it)
  OBVIOUS
<1>3. PICK s0 : s0 = [nodes |-> T, it |-> it, in |-> First(U)]
  OBVIOUS
<1>4. PassesFrom(P, U, s0, N)
  BY <1>1, <1>2, <1>3, PassesAre
<1>5. P[0] = s0
  BY <1>4, PassesStep
<1>6. ASSUME NEW n \in 0 .. N, n # 0 PROVE P[n] = MergeStep(U, P[n - 1])
  BY <1>4, <1>6, PassesStep
<1> DEFINE Good(s) == OutOf(s.nodes, T, U) /\ s.in \in U \cup {End}
           Bad == {n \in 0 .. N : ~ Good(P[n])}
<1>7. Good(s0)
  <2>1. First(U) \in U \cup {End}
    <3>1. CASE U = {}
      BY <3>1 DEF First
    <3>2. CASE U # {}
      BY <3>2, FirstIs DEF Tree
    <3> QED
      BY <3>1, <3>2
  <2>2. OutOf(T, T, U)
    BY DEF OutOf
  <2>3. s0.nodes = T /\ s0.in = First(U)
    BY <1>3
  <2> QED
    BY <2>1, <2>2, <2>3
<1>8. ASSUME NEW s, Good(s) PROVE Good(MergeStep(U, s))
  BY <1>8, PassMerges
<1>9. Good(P[N]) => OutOf(P[N].nodes, T, U)
  OBVIOUS
<1> HIDE DEF Good
<1>10. Bad \in SUBSET Nat
  OBVIOUS
<1>11. ASSUME NEW n \in Bad PROVE n \in 0 .. N /\ ~ Good(P[n])
  OBVIOUS
<1>12. ASSUME NEW n \in 0 .. N, n \notin Bad PROVE Good(P[n])
  BY <1>12
<1> HIDE DEF Bad
<1>13. Bad = {}
  <2> SUFFICES ASSUME Bad # {} PROVE FALSE
    OBVIOUS
  <2>1. PICK n \in Bad : \A m \in Bad : n <= m
    BY <1>10, SmallestExists
  <2>2. n \in 0 .. N /\ ~ Good(P[n])
    BY <1>11, <2>1
  <2>3. n # 0
    BY <1>5, <1>7, <2>2
  <2>4. n - 1 \in 0 .. N /\ ~ (n <= n - 1)
    BY <2>2, <2>3
  <2>5. n - 1 \notin Bad
    BY <2>1, <2>4
  <2>6. Good(P[n - 1])
    BY <1>12, <2>4, <2>5
  <2>7. P[n] = MergeStep(U, P[n - 1])
    BY <1>6, <2>2, <2>3
  <2>8. Good(P[n])
    BY <1>8, <2>6, <2>7
  <2> QED
    BY <2>2, <2>8
<1>14. N \in 0 .. N /\ N \notin Bad
  BY <1>13
<1>15. Good(P[N])
  BY <1>12, <1>14
<1> QED
  BY <1>1, <1>2, <1>9, <1>15

\* merge (extent_tree.hpp:155), wherever its iterator has got to, leaves a tree of
\* non-empty, disjoint nodes, and a byte where one of the two trees had it; only a
\* byte of the merged tree can be lost, no other byte moves.
THEOREM MergeInvents ==
    ASSUME NEW T, Tree(T), NEW U, Tree(U), IsFiniteSet(U)
    PROVE  /\ Tree(Merge(T, U))
           /\ \A o \in Nat :
                 \/ LocationOf(Merge(T, U), o) = LocationOf(T, o)
                 \/ /\ LocationOf(U, o) # Hole
                    /\ LocationOf(Merge(T, U), o) \in {LocationOf(U, o), Hole}
<1>1. CASE U = {}
  BY <1>1 DEF Merge
<1>2. CASE U # {}
  <2>1. Cardinality(U) \in Nat
    BY FS_CardinalityType
  <2>2. OutOf(Merge(T, U), T, U)
    BY <1>2, <2>1, PassesMerge DEF Merge
  <2> QED
    BY <2>2 DEF OutOf
<1> QED
  BY <1>1, <1>2

-----------------------------------------------------------------------------
(* What merge does to the shape of the tree, and when it assigns every     *)
(* byte of the other one.                                                  *)

\* What holds at first and from each number to the next holds at the end.
LEMMA FromEachToNext ==
    ASSUME NEW N \in Nat, NEW Good \in SUBSET (0 .. N), 0 \in Good,
           \A n \in 0 .. N : n # 0 /\ n - 1 \in Good => n \in Good
    PROVE  N \in Good
<1> DEFINE Bad == {n \in 0 .. N : n \notin Good}
<1>1. Bad \in SUBSET Nat /\ \A n : n \in Bad <=> n \in 0 .. N /\ n \notin Good
  OBVIOUS
<1> HIDE DEF Bad
<1>2. Bad = {}
  <2> SUFFICES ASSUME Bad # {} PROVE FALSE
    OBVIOUS
  <2>1. PICK n \in Bad : \A m \in Bad : n <= m
    BY <1>1, SmallestExists
  <2>2. n \in 0 .. N /\ n \notin Good /\ n # 0
    BY <1>1, <2>1
  <2>3. n - 1 \in 0 .. N /\ ~ (n <= n - 1)
    BY <2>2
  <2>4. n - 1 \in Good
    BY <1>1, <2>1, <2>3
  <2> QED
    BY <2>2, <2>4
<1> QED
  BY <1>1, <1>2

\* Cutting a tree in which no two nodes could be one leaves such a tree,
\* whichever nodes are visited.
LEMMA LooselyCoalesced ==
    ASSUME NEW T, Tree(T), Coalesced(T), NEW it, NEW v, IsExtent(v), v.b < v.e
    PROVE  Coalesced(Carve(T, it, v))
<1> SUFFICES ASSUME NEW p \in Carve(T, it, v), NEW q \in Carve(T, it, v), FollowedBy(p, q)
             PROVE  FALSE
  BY DEF Coalesced
<1>1. ASSUME NEW x \in Carve(T, it, v)
      PROVE  \E m \in T :
                /\ m \in TreeNodes /\ PartOf(x, m)
                /\ \/ x = m
                   \/ x.e = v.b /\ x.b = m.b /\ Overlaps(m, v)
                   \/ x.b = v.e /\ x.e = m.e /\ Overlaps(m, v)
  <2>1. CASE x \in T
    <3>1. x \in TreeNodes /\ x.b < x.e
      BY <2>1 DEF Tree, NonEmpty
    <3>2. PartOf(x, x)
      BY <3>1 DEF PartOf, TreeNodes
    <3> QED
      BY <2>1, <3>1, <3>2
  <2>2. CASE x \notin T
    <3>1. PICK m \in Hit(T, it, v) : x \in Front(m, v) \cup Rear(m, v)
      BY <2>2 DEF Carve
    <3>2. m \in T /\ Overlaps(m, v) /\ m \in TreeNodes
      BY <3>1 DEF Hit, Tree
    <3>3. CASE x \in Front(m, v)
      <4>1. PartOf(x, m) /\ x.e = v.b
        BY <3>2, <3>3, FrontIs
      <4>2. x.b = m.b
        BY <3>2, <3>3 DEF Front, TreeNodes
      <4> QED
        BY <3>2, <4>1, <4>2
    <3>4. CASE x \in Rear(m, v)
      <4>1. PartOf(x, m) /\ x.b = v.e
        BY <3>2, <3>4, RearIs
      <4>2. x.e = m.e
        BY <3>2, <3>4 DEF Rear, TreeNodes
      <4> QED
        BY <3>2, <4>1, <4>2
    <3> QED
      BY <3>1, <3>3, <3>4
  <2> QED
    BY <2>1, <2>2
<1>2. PICK m \in T : /\ m \in TreeNodes /\ PartOf(p, m)
                     /\ \/ p = m
                        \/ p.e = v.b /\ p.b = m.b /\ Overlaps(m, v)
                        \/ p.b = v.e /\ p.e = m.e /\ Overlaps(m, v)
  BY <1>1
<1>3. PICK k \in T : /\ k \in TreeNodes /\ PartOf(q, k)
                     /\ \/ q = k
                        \/ q.e = v.b /\ q.b = k.b /\ Overlaps(k, v)
                        \/ q.b = v.e /\ q.e = k.e /\ Overlaps(k, v)
  BY <1>1
<1>4. p \in TreeNodes /\ q \in TreeNodes /\ p.b < p.e /\ q.b < q.e /\ p.e = q.b
  BY <1>2, <1>3 DEF PartOf, FollowedBy
<1>5. m.b < m.e /\ k.b < k.e /\ (m = k \/ ~ Overlaps(m, k))
  BY DEF Tree, NonEmpty, Disjoint
<1>6. /\ m.b \in Nat /\ m.e \in Nat /\ k.b \in Nat /\ k.e \in Nat /\ v.b \in Nat /\ v.e \in Nat
      /\ p.b \in Nat /\ p.e \in Nat /\ q.b \in Nat /\ q.e \in Nat
  BY <1>2, <1>3, <1>4 DEF TreeNodes, IsExtent
<1>7. /\ m.b <= p.b /\ p.e <= m.e /\ k.b <= q.b /\ q.e <= k.e
  BY <1>2, <1>3 DEF PartOf
<1>8. m # k
  <2> SUFFICES ASSUME m = k PROVE FALSE
    OBVIOUS
  <2>1. p.e < m.e /\ k.b < q.b
    BY <1>4, <1>6, <1>7
  <2>2. p # m /\ q # k /\ p.e # m.e /\ q.b # k.b
    BY <1>6, <2>1
  <2>3. p.e = v.b /\ q.b = v.e
    BY <1>2, <1>3, <2>2
  <2>4. PICK x, y : x = v.b /\ y = v.e
    OBVIOUS
  <2>5. x \in Nat /\ y \in Nat /\ x < y
    BY <1>6, <2>4
  <2>6. x = y
    BY <1>4, <2>3, <2>4
  <2> QED
    BY <2>5, <2>6
<1>9. m.e <= k.b \/ k.e <= m.b
  BY <1>5, <1>6, <1>8 DEF Overlaps
<1>10. m.e <= k.b
  BY <1>4, <1>6, <1>7, <1>9
<1>11. p.e = m.e /\ q.b = k.b
  BY <1>4, <1>6, <1>7, <1>10
<1>12. FollowedBy(m, k)
  <2>1. p.ptr + (p.e - p.b) = q.ptr /\ p.client = q.client
    BY DEF FollowedBy, Size
  <2>2. p.ptr + m.b = m.ptr + p.b /\ q.ptr + k.b = k.ptr + q.b /\ p.client = m.client /\ q.client = k.client
    BY <1>2, <1>3 DEF PartOf
  <2>3. p.ptr \in Int /\ m.ptr \in Int /\ q.ptr \in Int /\ k.ptr \in Int
    BY <1>2, <1>3, <1>4 DEF TreeNodes
  <2>4. k.ptr = q.ptr
    BY <1>6, <1>11, <2>2, <2>3
  <2>5. \A x, y, z, w, n, r \in Int : x + y = z + w /\ x + (n - w) = r => z + (n - y) = r
    OBVIOUS
  <2>6. p.ptr + (m.e - p.b) = q.ptr
    BY <1>11, <2>1
  <2>7. m.ptr + (m.e - m.b) = q.ptr
    BY <1>6, <2>2, <2>3, <2>5, <2>6
  <2> QED
    BY <1>4, <1>11, <2>1, <2>2, <2>4, <2>7 DEF FollowedBy, Size
<1> QED
  BY <1>12 DEF Coalesced

LEMMA DoInsertCoalesces ==
    ASSUME NEW T, Tree(T), Coalesced(T), NEW it, NEW v \in TreeNodes, v.b < v.e
    PROVE  Coalesced(DoInsert(T, it, v).nodes)
<1>1. PICK C : C = Carve(T, it, v)
  OBVIOUS
<1>2. PICK s : s = SetInsert(C, v)
  OBVIOUS
<1>3. PICK t : t = CoalesceWithPrev(s)
  OBVIOUS
<1>4. IsExtent(v)
  BY DEF IsExtent, TreeNodes
<1>5. PICK H \in SUBSET T : Tree(H) /\ C = (T \ H) \cup Carved(H, v)
  BY <1>1, <1>4, LooselyCarved
<1>6. Tree(C) /\ Coalesced(C)
  <2>1. Tree(C)
    BY <1>4, <1>5, RestTree
  <2>2. Coalesced(C)
    BY <1>1, <1>4, LooselyCoalesced
  <2> QED
    BY <2>1, <2>2
<1>7. Tree(s.nodes) /\ s.it \in s.nodes
  BY <1>2, <1>6, SetInsertMoves
<1>8. \A m, k \in s.nodes : FollowedBy(m, k) => m = s.it \/ k = s.it
  <2>1. s.nodes = C \/ (s.nodes = C \cup {v} /\ s.it = v)
    BY <1>2 DEF SetInsert
  <2> QED
    BY <1>6, <2>1 DEF Coalesced
<1>9. Tree(t.nodes) /\ t.it \in t.nodes
  BY <1>3, <1>7, PrevKeeps DEF Locating
<1>10. \A m, k \in t.nodes : FollowedBy(m, k) => m = t.it
  BY <1>3, <1>7, <1>8, PrevCoalesces
<1>11. DoInsert(T, it, v).nodes = CoalesceWithNext(t).nodes
  BY <1>1, <1>2, <1>3 DEF DoInsert
<1> QED
  BY <1>9, <1>10, <1>11, NextCoalesces

\* merge keeps a tree in which no two nodes could be one (extent_tree.hpp:155),
\* however it cuts them.
THEOREM MergeStaysCoalesced ==
    ASSUME NEW T, Tree(T), Coalesced(T), NEW U, Tree(U), IsFiniteSet(U)
    PROVE  Coalesced(Merge(T, U))
<1>1. CASE U = {}
  BY <1>1 DEF Merge
<1>2. CASE U # {}
  <2>1. PICK N, P, it : /\ N = Cardinality(U) /\ it = LowerBound(T, First(U))
                        /\ P = Passes(T, U, it)
    OBVIOUS
  <2>2. N \in Nat
    BY <2>1, FS_CardinalityType
  <2>3. PICK s0 : s0 = [nodes |-> T, it |-> it, in |-> First(U)]
    OBVIOUS
  <2>4. P[0] = s0 /\ \A n \in 0 .. N : n # 0 => P[n] = MergeStep(U, P[n - 1])
    BY <2>1, <2>2, <2>3, PassesAre, PassesStep
  <2> DEFINE Fine(s) == OutOf(s.nodes, T, U) /\ s.in \in U \cup {End} /\ Coalesced(s.nodes)
             Good == {n \in 0 .. N : Fine(P[n])}
  <2>5. Fine(s0)
    <3>1. First(U) \in U
      BY <1>2, FirstIs DEF Tree
    <3>2. s0.nodes = T /\ s0.in = First(U)
      BY <2>3
    <3> QED
      BY <3>1, <3>2 DEF OutOf
  <2>6. ASSUME NEW s, Fine(s) PROVE Fine(MergeStep(U, s))
    <3>1. OutOf(MergeStep(U, s).nodes, T, U) /\ MergeStep(U, s).in \in U \cup {End}
      BY <2>6, PassMerges
    <3>2. CASE s.in = End
      BY <2>6, <3>2 DEF MergeStep
    <3>3. CASE s.in # End
      <4>1. s.in \in TreeNodes /\ s.in.b < s.in.e
        BY <2>6, <3>3 DEF Tree, NonEmpty
      <4>2. Coalesced(DoInsert(s.nodes, s.it, s.in).nodes)
        BY <2>6, <4>1, DoInsertCoalesces DEF OutOf
      <4>3. MergeStep(U, s).nodes = DoInsert(s.nodes, s.it, s.in).nodes
        BY <3>3 DEF MergeStep
      <4> QED
        BY <3>1, <4>2, <4>3
    <3> QED
      BY <3>2, <3>3
  <2>7. \A s : Fine(s) => Coalesced(s.nodes)
    OBVIOUS
  <2> HIDE DEF Fine
  <2>8. Good \in SUBSET (0 .. N) /\ \A n : n \in Good <=> n \in 0 .. N /\ Fine(P[n])
    OBVIOUS
  <2> HIDE DEF Good
  <2>9. 0 \in Good
    BY <2>2, <2>4, <2>5, <2>8
  <2>10. \A n \in 0 .. N : n # 0 /\ n - 1 \in Good => n \in Good
    BY <2>4, <2>6, <2>8
  <2>11. N \in Good
    BY <2>2, <2>8, <2>9, <2>10, FromEachToNext
  <2>12. Coalesced(P[N].nodes)
    BY <2>7, <2>8, <2>11
  <2> QED
    BY <1>2, <2>1, <2>12 DEF Merge
<1> QED
  BY <1>1, <1>2

-----------------------------------------------------------------------------
(* Unless a node of the merged tree is continued by the other one, or      *)
(* missed, the iterator that is carried along is as good as a look-up.     *)

\* A node of U ends inside a node of T that goes on where it stops, in the ring.
ContinuedBy(T, U) ==
    \E v \in U, m \in T : /\ v.client = m.client /\ v.ptr - v.b = m.ptr - m.b
                          /\ m.b <= v.e /\ v.e < m.e

\* T has bytes between two nodes of U, and bytes of the second.
MissedBy(T, U) ==
    \E u, v \in U, m, k \in T : u.e < m.e /\ m.e <= v.b /\ Overlaps(k, v)

\* Where the iterator visits all nodes it should, and the new node continues in
\* no node after it, do_insert adds the node, and returns one that ends with it.
LEMMA InsertedEnds ==
    ASSUME NEW S, Tree(S), NEW u \in TreeNodes, u.b < u.e, NEW it,
           Hit(S, it, u) = Sharing(S, u),
           \A n \in Carved(S, u) : ~ FollowedBy(u, n),
           NEW R, R = DoInsert(S, it, u)
    PROVE  /\ R.nodes = Add(S, u) /\ Tree(R.nodes)
           /\ R.it \in R.nodes /\ R.it.e = u.e /\ R.it.b <= u.b
           /\ \A m \in R.nodes : m = R.it \/ m \in Carved(S, u)
<1>1. PICK C : C = Carved(S, u)
  OBVIOUS
<1>2. IsExtent(u)
  BY DEF IsExtent, TreeNodes
<1>3. Carve(S, it, u) = C
  BY <1>1, <1>2, HitIs DEF Carved, Carve
<1>4. PICK s : s = [nodes |-> C \cup {u}, it |-> u]
  OBVIOUS
<1>5. PICK t : t = CoalesceWithPrev(s)
  OBVIOUS
<1>6. SetInsert(C, u) = s
  BY <1>1, <1>4, InsertedIs
<1>7. R = CoalesceWithNext(t)
  BY <1>3, <1>5, <1>6 DEF DoInsert
<1>8. R.nodes = Add(S, u)
  BY <1>1, <1>5, <1>6, <1>7 DEF Add, DoInsert, Carved
<1>9. Tree(s.nodes) /\ s.it \in s.nodes /\ s.it = u /\ s.nodes = C \cup {u}
  BY <1>1, <1>4, InsertedTree
<1>10. Locating(t, s)
  BY <1>5, <1>9, PrevKeeps
<1>11. /\ t.it.e = u.e /\ t.it.b <= u.b
       /\ \A n : FollowedBy(t.it, n) => FollowedBy(u, n)
       /\ \A m \in t.nodes : m = t.it \/ m \in C
  <2> DEFINE B == {m \in s.nodes : m.b < s.it.b}
             prev == Back(B)
  <2>1. CASE prev # End /\ FollowedBy(prev, s.it)
    <3>1. B # {}
      BY <2>1 DEF Back
    <3>2. B \subseteq TreeNodes /\ s.it.b \in Nat
      BY <1>9 DEF Tree, TreeNodes
    <3>3. prev \in B
      BY <3>1, <3>2, BackIs
    <3>4. PICK m : m = prev
      OBVIOUS
    <3>5. m \in TreeNodes /\ m.b < u.b /\ FollowedBy(m, u) /\ m \in s.nodes
      BY <1>9, <2>1, <3>2, <3>3, <3>4
    <3>6. PICK both : both = [m EXCEPT !.e = u.e]
      OBVIOUS
    <3>7. t = Join(s, m, u)
      BY <1>5, <1>9, <2>1, <3>4 DEF CoalesceWithPrev
    <3>8. t.it = both /\ t.nodes = (s.nodes \ {m, u}) \cup {both}
      BY <3>6, <3>7 DEF Join
    <3>9. both.b = m.b /\ both.e = u.e /\ both.ptr = m.ptr /\ both.client = m.client
      BY <3>5, <3>6 DEF TreeNodes
    <3>10. m.e = u.b /\ m.client = u.client /\ m.ptr + (m.e - m.b) = u.ptr
      BY <3>5 DEF FollowedBy, Size
    <3>11. both.ptr + (both.e - both.b) = u.ptr + (u.e - u.b)
      <4>1. /\ m.ptr \in Int /\ m.b \in Int /\ m.e \in Int
            /\ u.ptr \in Int /\ u.b \in Int /\ u.e \in Int
        BY <3>5 DEF TreeNodes
      <4>2. \A p, b, y, z \in Int : p + (z - b) = (p + (y - b)) + (z - y)
        OBVIOUS
      <4>3. m.ptr + (u.e - m.b) = (m.ptr + (u.b - m.b)) + (u.e - u.b)
        BY <4>1, <4>2
      <4> QED
        BY <3>9, <3>10, <4>3
    <3>12. ASSUME NEW n, FollowedBy(both, n) PROVE FollowedBy(u, n)
      BY <3>9, <3>10, <3>11, <3>12 DEF FollowedBy, Size
    <3>13. \A n \in t.nodes : n = t.it \/ n \in C
      BY <1>9, <3>8
    <3>14. both.b <= u.b
      BY <3>5, <3>9 DEF TreeNodes
    <3> QED
      BY <3>8, <3>9, <3>12, <3>13, <3>14
  <2>2. CASE ~ (prev # End /\ FollowedBy(prev, s.it))
    <3>1. t = s
      BY <1>5, <2>2 DEF CoalesceWithPrev
    <3>2. u.b <= u.b
      BY DEF TreeNodes
    <3> QED
      BY <1>9, <3>1, <3>2
  <2> QED
    BY <2>1, <2>2
<1>12. R = t
  <2> DEFINE B == {m \in t.nodes : m.b > t.it.b}
             next == First(B)
  <2>1. next # End /\ FollowedBy(t.it, next) => FALSE
    <3> SUFFICES ASSUME next # End, FollowedBy(t.it, next) PROVE FALSE
      OBVIOUS
    <3>1. B # {}
      BY DEF First
    <3>2. B \subseteq TreeNodes
      BY <1>10 DEF Locating, Tree
    <3>3. next \in B
      BY <3>1, <3>2, FirstIs
    <3>4. t.it \in TreeNodes
      BY <1>10 DEF Locating, Tree
    <3>5. next \in t.nodes /\ next # t.it
      BY <3>2, <3>3, <3>4 DEF TreeNodes
    <3> QED
      BY <1>1, <1>11, <3>5
  <2> QED
    BY <1>7, <2>1 DEF CoalesceWithNext
<1> QED
  BY <1>1, <1>8, <1>10, <1>11, <1>12 DEF Locating

\* m is what is left of a node of T behind some byte.
RearIn(m, T) ==
    \E t \in T : /\ t.e = m.e /\ t.client = m.client /\ t.b <= m.b
                 /\ t.ptr - t.b = m.ptr - m.b

\* The nodes of U that were merged when in is the next one.
Before(U, in) == IF in = End THEN U ELSE {m \in U : m.b < in.b}

\* The state of the loop: what is merged is assigned, what is ahead is as it
\* was, and the iterator will visit the nodes it should.
Exact(s, T, U) ==
    /\ Tree(s.nodes)
    /\ s.in \in U \cup {End}
    /\ \A o \in Nat : LocationOf(s.nodes, o) =
                      IF \E m \in Before(U, s.in) : Covers(m, o)
                      THEN LocationOf(U, o) ELSE LocationOf(T, o)
    /\ s.in # End => /\ Hit(s.nodes, s.it, s.in) = Sharing(s.nodes, s.in)
                     /\ \A m \in s.nodes : m.e > s.in.b => RearIn(m, T)

LEMMA ExactStep ==
    ASSUME NEW T, Tree(T), NEW U, Tree(U), ~ ContinuedBy(T, U), ~ MissedBy(T, U),
           NEW s, Exact(s, T, U), s.in # End
    PROVE  /\ Exact(MergeStep(U, s), T, U)
           /\ s.in \in U
           /\ Before(U, MergeStep(U, s).in) = Before(U, s.in) \cup {s.in}
<1>1. PICK S, u, it, R : S = s.nodes /\ u = s.in /\ it = s.it /\ R = DoInsert(S, it, u)
  OBVIOUS
<1>2. /\ Tree(S) /\ u \in U /\ u # End
      /\ Hit(S, it, u) = Sharing(S, u)
      /\ \A m \in S : m.e > u.b => RearIn(m, T)
  BY <1>1 DEF Exact
<1>3. u \in TreeNodes /\ u.b < u.e /\ IsExtent(u)
  BY <1>2 DEF Tree, NonEmpty, IsExtent, TreeNodes
<1>4. PICK z : z = MergeStep(U, s)
  OBVIOUS
<1>5. PICK V, v : V = {m \in U : m.b > u.b} /\ v = First(V)
  OBVIOUS
<1>6. z.nodes = R.nodes /\ z.it = Advance(R, u) /\ z.in = v
  BY <1>1, <1>2, <1>4, <1>5 DEF MergeStep
<1>7. V \subseteq TreeNodes /\ (V = {} => v = End) /\ (V # {} => v \in V /\ \A k \in V : v.b <= k.b)
  BY <1>5, FirstIs DEF Tree, First
<1>8. Before(U, v) = Before(U, u) \cup {u}
  <2>1. Before(U, u) = {m \in U : m.b < u.b}
    BY <1>2 DEF Before
  <2>2. \A m \in U : m \in TreeNodes /\ (m.b = u.b => m = u)
    BY <1>2, OneNodePerBegin DEF Tree
  <2>3. \A m \in U : m.b < u.b \/ m = u \/ m \in V
    BY <1>3, <1>5, <2>2 DEF TreeNodes
  <2>4. CASE V = {}
    <3>1. Before(U, v) = U
      BY <1>7, <2>4 DEF Before
    <3> QED
      BY <1>2, <2>1, <2>3, <2>4, <3>1
  <2>5. CASE V # {}
    <3>1. v \in V /\ v # End
      BY <1>7, <2>5, EndIsNoNode
    <3>2. Before(U, v) = {m \in U : m.b < v.b}
      BY <3>1 DEF Before
    <3>3. u.b < v.b /\ v.b \in Nat /\ u.b \in Nat
      BY <1>3, <1>5, <1>7, <3>1 DEF TreeNodes
    <3>4. \A m \in U : m.b < v.b => m \notin V
      BY <1>7, <2>2, <3>1, <3>3 DEF TreeNodes
    <3>5. \A m \in U : m.b < v.b <=> m.b < u.b \/ m = u
      BY <2>2, <2>3, <3>3, <3>4 DEF TreeNodes
    <3> QED
      BY <1>2, <2>1, <3>2, <3>5
  <2> QED
    BY <2>4, <2>5
\* What is behind u in the new tree is what is left of nodes of T.
<1>9. ASSUME NEW n \in Carved(S, u), n.b >= u.e PROVE RearIn(n, T)
  <2>1. PICK m \in S : /\ PartOf(n, m)
                       /\ n = m \/ n \in Front(m, u) \/ n \in Rear(m, u)
    BY <1>2, <1>3, CarvedParts
  <2>2. m \in TreeNodes /\ n \in TreeNodes /\ n.b < n.e
    BY <1>2, <2>1 DEF Tree, PartOf
  <2>3. /\ n.b >= m.b /\ n.e <= m.e /\ n.client = m.client
        /\ n.ptr + m.b = m.ptr + n.b
    BY <2>1 DEF PartOf
  <2>4. n.e = m.e
    <3>1. CASE n = m
      BY <3>1
    <3>2. CASE n \in Front(m, u)
      <4>1. n.e = u.b
        BY <2>2, <3>2 DEF Front, TreeNodes
      <4> QED
        BY <1>3, <1>9, <2>2, <4>1 DEF TreeNodes
    <3>3. CASE n \in Rear(m, u)
      BY <2>2, <3>3 DEF Rear, TreeNodes
    <3> QED
      BY <2>1, <3>1, <3>2, <3>3
  <2>5. m.e > u.b
    BY <1>3, <1>9, <2>2, <2>4 DEF TreeNodes
  <2>6. PICK t \in T : t.e = m.e /\ t.client = m.client /\ t.b <= m.b /\ t.ptr - t.b = m.ptr - m.b
    BY <1>2, <2>5 DEF RearIn
  <2>7. t \in TreeNodes
    BY DEF Tree
  <2>8. t.b <= n.b
    BY <2>2, <2>3, <2>6, <2>7 DEF TreeNodes
  <2>9. t.ptr - t.b = n.ptr - n.b
    <3>1. m.ptr \in Int /\ m.b \in Int /\ n.ptr \in Int /\ n.b \in Int
      BY <2>2 DEF TreeNodes
    <3>2. m.ptr - m.b = n.ptr - n.b
      BY <2>3, <3>1
    <3> QED
      BY <2>6, <3>2
  <2>10. t.e = n.e /\ t.client = n.client
    BY <2>3, <2>4, <2>6
  <2> QED
    BY <2>8, <2>9, <2>10 DEF RearIn
<1>10. \A n \in Carved(S, u) : n \in TreeNodes /\ n.b < n.e /\ Beside(n, u)
  BY <1>2, <1>3, CarvedParts DEF PartOf
<1>11. ASSUME NEW n \in Carved(S, u) PROVE ~ FollowedBy(u, n)
  <2> SUFFICES ASSUME FollowedBy(u, n) PROVE FALSE
    OBVIOUS
  <2>1. u.e = n.b /\ u.client = n.client /\ u.ptr + (u.e - u.b) = n.ptr
    BY DEF FollowedBy, Size
  <2>2. n \in TreeNodes /\ n.b < n.e /\ n.b >= u.e
    BY <1>3, <1>10, <2>1 DEF TreeNodes
  <2>3. PICK t \in T : t.e = n.e /\ t.client = n.client /\ t.b <= n.b /\ t.ptr - t.b = n.ptr - n.b
    BY <1>9, <2>2 DEF RearIn
  <2>4. u.ptr - u.b = t.ptr - t.b
    <3>1. u.ptr \in Int /\ u.b \in Int /\ u.e \in Int /\ n.ptr \in Int /\ n.b \in Int
      BY <1>3, <2>2 DEF TreeNodes
    <3>2. u.ptr - u.b = n.ptr - n.b
      BY <2>1, <3>1
    <3> QED
      BY <2>3, <3>2
  <2>5. t.b <= u.e /\ u.e < t.e
    BY <2>1, <2>2, <2>3
  <2> QED
    BY <1>2, <2>1, <2>3, <2>4, <2>5 DEF ContinuedBy
<1>12. /\ R.nodes = Add(S, u) /\ Tree(R.nodes)
       /\ R.it \in R.nodes /\ R.it.e = u.e /\ R.it.b <= u.b
       /\ \A m \in R.nodes : m = R.it \/ m \in Carved(S, u)
  BY <1>1, <1>2, <1>3, <1>11, InsertedEnds
<1>13. \A m \in R.nodes : m \in TreeNodes /\ m.b < m.e /\ (m.e <= u.e \/ m.b >= u.e)
  <2>1. \A m \in R.nodes : m \in TreeNodes /\ m.b < m.e
    BY <1>12 DEF Tree, NonEmpty
  <2>2. ASSUME NEW m \in R.nodes PROVE m.e <= u.e \/ m.b >= u.e
    <3>1. CASE m = R.it
      BY <1>3, <1>12, <3>1 DEF TreeNodes
    <3>2. CASE m \in Carved(S, u)
      BY <1>3, <1>10, <2>1, <3>2 DEF Beside, TreeNodes
    <3> QED
      BY <1>12, <3>1, <3>2
  <2> QED
    BY <2>1, <2>2
<1>14. ASSUME NEW m \in R.nodes, m.b >= u.e PROVE RearIn(m, T)
  <2>1. m # R.it
    BY <1>3, <1>12, <1>13, <1>14 DEF TreeNodes
  <2> QED
    BY <1>9, <1>12, <1>14, <2>1
<1>15. ASSUME NEW o \in Nat
       PROVE  LocationOf(R.nodes, o) = IF \E m \in Before(U, v) : Covers(m, o)
                                       THEN LocationOf(U, o) ELSE LocationOf(T, o)
  <2>1. LocationOf(R.nodes, o) = IF Covers(u, o) THEN Location(u, o) ELSE LocationOf(S, o)
    BY <1>2, <1>3, <1>12, AddAssigns
  <2>2. Covers(u, o) => LocationOf(U, o) = Location(u, o)
    BY <1>2, LocationIs
  <2>3. LocationOf(S, o) = IF \E m \in Before(U, u) : Covers(m, o)
                           THEN LocationOf(U, o) ELSE LocationOf(T, o)
    BY <1>1 DEF Exact
  <2>4. (\E m \in Before(U, v) : Covers(m, o)) <=> Covers(u, o) \/ \E m \in Before(U, u) : Covers(m, o)
    BY <1>8
  <2> QED
    BY <2>1, <2>2, <2>3, <2>4
<1>16. ASSUME v # End
       PROVE  /\ Hit(R.nodes, z.it, v) = Sharing(R.nodes, v)
              /\ \A m \in R.nodes : m.e > v.b => RearIn(m, T)
  <2>1. v \in U /\ v.b > u.b /\ v \in TreeNodes /\ v.b < v.e
    BY <1>5, <1>7, <1>16 DEF Tree, NonEmpty
  <2>2. u.e <= v.b
    <3>1. ~ Overlaps(u, v)
      BY <1>2, <1>3, <2>1 DEF Tree, Disjoint, TreeNodes
    <3> QED
      BY <1>3, <2>1, <3>1 DEF Overlaps, TreeNodes
  <2>3. PICK B : B = {m \in R.nodes : m.b >= u.e}
    OBVIOUS
  <2>4. z.it = First(B)
    <3>1. R.it # End
      BY <1>12, EndIsNoNode DEF Tree
    <3>2. Advance(R, u) = First({m \in R.nodes : m.b >= R.it.b /\ Precedes(u, m)})
      BY <3>1 DEF Advance
    <3>3. R.it.b \in Nat /\ u.b \in Nat /\ u.e \in Nat
      BY <1>3, <1>12, <1>13 DEF TreeNodes
    <3>4. ASSUME NEW m \in R.nodes PROVE m.b >= R.it.b /\ Precedes(u, m) <=> m.b >= u.e
      <4>1. m.b \in Nat
        BY <1>13 DEF TreeNodes
      <4> QED
        BY <1>3, <1>12, <3>3, <4>1 DEF Precedes
    <3>5. {m \in R.nodes : m.b >= R.it.b /\ Precedes(u, m)} = B
      BY <2>3, <3>4
    <3> QED
      BY <1>6, <3>2, <3>5
  <2>5. \A m \in R.nodes : m.e > v.b => m \in B
    BY <1>3, <1>13, <2>1, <2>2, <2>3 DEF TreeNodes
  <2>6. Sharing(R.nodes, v) \subseteq B
    <3>1. \A m \in R.nodes : Overlaps(m, v) => m.e > v.b
      BY <1>13, <2>1 DEF Overlaps, TreeNodes
    <3> QED
      BY <2>5, <3>1 DEF Sharing
  <2>7. CASE B = {}
    <3>1. z.it = End
      BY <2>4, <2>7 DEF First
    <3> QED
      BY <2>5, <2>6, <2>7, <3>1 DEF Hit
  <2>8. CASE B # {}
    <3>1. B \subseteq TreeNodes
      BY <1>13, <2>3
    <3>2. PICK j : j = z.it
      OBVIOUS
    <3>3. j \in B /\ \A k \in B : j.b <= k.b
      BY <2>4, <2>8, <3>1, <3>2, FirstIs
    <3>4. j # End
      BY <3>1, <3>3, EndIsNoNode
    <3>5. CASE Overlaps(j, v)
      <4>1. Hit(R.nodes, j, v) = {m \in R.nodes : m.b >= j.b /\ Overlaps(m, v)}
        BY <3>4, <3>5 DEF Hit
      <4>2. \A m \in Sharing(R.nodes, v) : m.b >= j.b
        BY <2>6, <3>1, <3>3 DEF TreeNodes
      <4>3. Hit(R.nodes, j, v) = Sharing(R.nodes, v)
        BY <4>1, <4>2 DEF Sharing
      <4> QED
        BY <1>14, <2>3, <2>5, <3>2, <4>3
    <3>6. CASE ~ Overlaps(j, v)
      <4>1. Hit(R.nodes, j, v) = {}
        BY <3>6 DEF Hit
      <4>2. Sharing(R.nodes, v) = {}
        <5> SUFFICES ASSUME NEW k \in Sharing(R.nodes, v) PROVE FALSE
          OBVIOUS
        <5>1. k \in B /\ Overlaps(k, v) /\ k \in TreeNodes /\ j \in TreeNodes /\ j.b <= k.b
          BY <2>6, <3>1, <3>3 DEF Sharing
        <5>2. j.b < j.e /\ u.e <= j.b
          BY <1>3, <1>13, <2>3, <3>3, <5>1 DEF TreeNodes
        <5>3. j.e <= v.b
          BY <2>1, <3>6, <5>1, <5>2 DEF Overlaps, TreeNodes
        <5>4. PICK m \in T : m.e = j.e
          BY <1>14, <2>3, <3>3 DEF RearIn
        <5>5. u.e < m.e /\ m.e <= v.b
          BY <1>3, <5>1, <5>2, <5>3, <5>4 DEF TreeNodes
        <5>6. PICK t \in T : t.e = k.e /\ t.b <= k.b
          BY <1>14, <2>3, <5>1 DEF RearIn
        <5>7. t \in TreeNodes
          BY DEF Tree
        <5>8. Overlaps(t, v)
          BY <2>1, <5>1, <5>6, <5>7 DEF Overlaps, TreeNodes
        <5> QED
          BY <1>2, <2>1, <5>5, <5>8 DEF MissedBy
      <4> QED
        BY <1>14, <2>3, <2>5, <3>2, <4>1, <4>2
    <3> QED
      BY <3>5, <3>6
  <2> QED
    BY <2>7, <2>8
<1>17. v \in U \cup {End}
  BY <1>5, <1>7
<1>18. Exact(z, T, U)
  BY <1>6, <1>12, <1>15, <1>16, <1>17 DEF Exact
<1> QED
  BY <1>1, <1>2, <1>4, <1>6, <1>8, <1>18

\* At first the iterator was looked up.
LEMMA ExactAtFirst ==
    ASSUME NEW T, Tree(T), NEW U, Tree(U), U # {},
           NEW s, s = [nodes |-> T, it |-> LowerBound(T, First(U)), in |-> First(U)]
    PROVE  Exact(s, T, U) /\ s.in # End /\ Before(U, s.in) = {}
<1>1. PICK u : u = First(U)
  OBVIOUS
<1>2. u \in U /\ (\A k \in U : u.b <= k.b) /\ U \subseteq TreeNodes
  BY <1>1, FirstIs DEF Tree
<1>3. u # End /\ IsExtent(u)
  <2>1. u \in TreeNodes /\ u.b < u.e
    BY <1>2 DEF Tree, NonEmpty
  <2> QED
    BY <2>1, EndIsNoNode DEF IsExtent, TreeNodes
<1>4. s.nodes = T /\ s.it = LowerBound(T, u) /\ s.in = u
  BY <1>1
<1>5. Hit(s.nodes, s.it, s.in) = Sharing(s.nodes, s.in)
  BY <1>3, <1>4, HitIs
<1>6. Before(U, u) = {}
  BY <1>2, <1>3 DEF Before, TreeNodes
<1>7. \A m \in T : RearIn(m, T)
  <2>1. \A m \in T : m.b <= m.b
    BY DEF Tree, TreeNodes
  <2> QED
    BY <2>1 DEF RearIn
<1> QED
  BY <1>2, <1>3, <1>4, <1>5, <1>6, <1>7 DEF Exact

\* merge (extent_tree.hpp:155) locates every byte of the merged tree where that
\* tree does and moves no other, if none of its nodes is continued or missed.
THEOREM MergeOverlays ==
    ASSUME NEW T, Tree(T), NEW U, Tree(U), IsFiniteSet(U),
           ~ ContinuedBy(T, U), ~ MissedBy(T, U)
    PROVE  \A o \in Nat : LocationOf(Merge(T, U), o) =
              IF LocationOf(U, o) # Hole THEN LocationOf(U, o) ELSE LocationOf(T, o)
<1>1. CASE U = {}
  <2>1. \A o \in Nat : LocationOf(U, o) = Hole
    BY <1>1, HoleIs
  <2> QED
    BY <1>1, <2>1 DEF Merge
<1>2. CASE U # {}
  <2>1. PICK N, P, it : /\ N = Cardinality(U) /\ it = LowerBound(T, First(U))
                        /\ P = Passes(T, U, it)
    OBVIOUS
  <2>2. N \in Nat
    BY <2>1, FS_CardinalityType
  <2>3. PICK s0 : s0 = [nodes |-> T, it |-> it, in |-> First(U)]
    OBVIOUS
  <2>4. P[0] = s0 /\ \A n \in 0 .. N : n # 0 => P[n] = MergeStep(U, P[n - 1])
    BY <2>1, <2>2, <2>3, PassesAre, PassesStep
  <2> DEFINE Fine(s, n) == Exact(s, T, U) /\ (s.in # End => Cardinality(Before(U, s.in)) = n)
             Good == {n \in 0 .. N : Fine(P[n], n)}
  <2>5. Fine(s0, 0)
    <3>1. Exact(s0, T, U) /\ Before(U, s0.in) = {}
      BY <1>2, <2>1, <2>3, ExactAtFirst
    <3>2. Cardinality({}) = 0
      BY FS_EmptySet
    <3> QED
      BY <3>1, <3>2
  <2>6. ASSUME NEW s, NEW n \in Nat, Fine(s, n) PROVE Fine(MergeStep(U, s), n + 1)
    <3>1. CASE s.in = End
      <4>1. MergeStep(U, s) = s
        BY <3>1 DEF MergeStep
      <4> QED
        BY <2>6, <3>1, <4>1
    <3>2. CASE s.in # End
      <4>1. PICK B, u : B = Before(U, s.in) /\ u = s.in
        OBVIOUS
      <4>2. /\ Exact(MergeStep(U, s), T, U) /\ u \in U
            /\ Before(U, MergeStep(U, s).in) = B \cup {u}
        BY <2>6, <3>2, <4>1, ExactStep
      <4>3. B \subseteq U /\ u \notin B
        <5>1. B = {m \in U : m.b < u.b}
          BY <3>2, <4>1 DEF Before
        <5>2. u.b \in Nat
          BY <4>2 DEF Tree, TreeNodes
        <5> QED
          BY <5>1, <5>2
      <4>4. IsFiniteSet(B)
        BY <4>3, FS_Subset
      <4>5. Cardinality(B \cup {u}) = Cardinality(B) + 1
        BY <4>3, <4>4, FS_AddElement
      <4>6. Cardinality(B) = n
        BY <2>6, <3>2, <4>1
      <4> QED
        BY <4>2, <4>5, <4>6
    <3> QED
      BY <3>1, <3>2
  <2>7. ASSUME NEW s, Fine(s, N)
        PROVE  Exact(s, T, U) /\ s.in = End
    <3>1. Exact(s, T, U)
      BY <2>7
    <3>2. s.in = End
      <4> SUFFICES ASSUME s.in # End PROVE FALSE
        OBVIOUS
      <4>1. PICK B, u : B = Before(U, u) /\ u = s.in
        OBVIOUS
      <4>2. u \in U /\ B = {m \in U : m.b < u.b} /\ u.b \in Nat
        BY <3>1, <4>1 DEF Exact, Before, Tree, TreeNodes
      <4>3. B \subseteq U \ {u}
        BY <4>2
      <4>4. IsFiniteSet(U \ {u}) /\ Cardinality(U \ {u}) = N - 1
        BY <2>1, <4>2, FS_RemoveElement
      <4>5. Cardinality(B) <= N - 1
        BY <4>3, <4>4, FS_Subset
      <4>6. Cardinality(B) = N
        BY <2>7, <4>1
      <4> QED
        BY <2>2, <4>5, <4>6
    <3> QED
      BY <3>1, <3>2
  <2> HIDE DEF Fine
  <2>8. Good \in SUBSET (0 .. N) /\ \A n : n \in Good <=> n \in 0 .. N /\ Fine(P[n], n)
    OBVIOUS
  <2> HIDE DEF Good
  <2>9. 0 \in Good
    BY <2>2, <2>4, <2>5, <2>8
  <2>10. ASSUME NEW n \in 0 .. N, n # 0, n - 1 \in Good PROVE n \in Good
    <3>1. PICK k : k = n - 1
      OBVIOUS
    <3>2. k \in Nat /\ k + 1 = n /\ Fine(P[k], k)
      BY <2>8, <2>10, <3>1
    <3>3. Fine(MergeStep(U, P[k]), k + 1)
      BY <2>6, <3>2
    <3> QED
      BY <2>4, <2>8, <2>10, <3>1, <3>2, <3>3
  <2>11. N \in Good
    BY <2>2, <2>8, <2>9, <2>10, FromEachToNext
  <2>12. Exact(P[N], T, U) /\ P[N].in = End
    BY <2>7, <2>8, <2>11
  <2>13. Merge(T, U) = P[N].nodes
    BY <1>2, <2>1 DEF Merge
  <2>14. \A o \in Nat : (\E m \in U : Covers(m, o)) <=> LocationOf(U, o) # Hole
    BY HoleIs
  <2> QED
    BY <2>12, <2>13, <2>14 DEF Exact, Before
<1> QED
  BY <1>1, <1>2

-----------------------------------------------------------------------------
(* The index under every sequence of calls.  The inductive invariant is    *)
(* that both trees are trees in which no two nodes could be one and that   *)
(* know nothing beyond the end of the file.                                *)

Inside(T) == \A o \in Nat : o >= IndexSize => LocationOf(T, o) = Hole

IndexTree(T) == Tree(T) /\ Coalesced(T) /\ Inside(T)

IndexInv == IndexTree(tree) /\ IndexTree(delta)

LEMMA IndexFacts ==
    /\ IndexSize \in Nat
    /\ \A v \in AddCalls \cup DeltaCalls : v \in TreeNodes /\ v.b < v.e /\ v.e <= IndexSize
    /\ \A v \in RemoveCalls : IsExtent(v) /\ v.b < v.e
<1>1. IndexSize \in Nat
  BY IndexAssumption
<1>2. ASSUME NEW v \in AddCalls \cup DeltaCalls
      PROVE  v \in TreeNodes /\ v.b < v.e /\ v.e <= IndexSize
  <2>1. v \in Nodes /\ v.b < v.e
    BY IndexAssumption
  <2> QED
    BY <1>1, <2>1 DEF Nodes, TreeNodes
<1>3. ASSUME NEW v \in RemoveCalls PROVE IsExtent(v) /\ v.b < v.e
  BY <1>1, IndexAssumption DEF IsExtent, IndexOffsets
<1> QED
  BY <1>1, <1>2, <1>3

\* The nodes of such a tree are in the file, and so not more than it has bytes.
LEMMA IndexTreeNodes ==
    ASSUME NEW T, IndexTree(T)
    PROVE  T \subseteq Nodes /\ IsFiniteSet(T)
<1>1. ASSUME NEW m \in T PROVE m \in Nodes
  <2>1. m \in TreeNodes /\ m.b < m.e /\ IndexSize \in Nat
    BY IndexFacts DEF IndexTree, Tree, NonEmpty
  <2>2. m.e <= IndexSize
    <3> SUFFICES ASSUME ~ m.e <= IndexSize PROVE FALSE
      OBVIOUS
    <3>1. PICK o : o = m.e - 1
      OBVIOUS
    <3>2. o \in Nat /\ o >= IndexSize /\ Covers(m, o)
      BY <2>1, <3>1 DEF Covers, TreeNodes
    <3>3. LocationOf(T, o) # Hole
      BY <3>2, HoleIs
    <3> QED
      BY <3>2, <3>3 DEF IndexTree, Inside
  <2> QED
    BY <2>1, <2>2 DEF TreeNodes, Nodes
<1>2. PICK f : f = [m \in T |-> m.b]
  OBVIOUS
<1>3. f \in [T -> 0 .. IndexSize] /\ \A m, k \in T : f[m] = f[k] => m = k
  <2>1. \A m \in T : m.b \in 0 .. IndexSize
    BY <1>1 DEF Nodes
  <2>2. \A m, k \in T : m.b = k.b => m = k
    BY OneNodePerBegin DEF IndexTree
  <2> QED
    BY <1>2, <2>1, <2>2
<1>4. f \in Injection(T, 0 .. IndexSize)
  <2>1. DOMAIN f = T
    BY <1>3
  <2>2. IsInjective(f)
    BY <1>3, <2>1 DEF IsInjective
  <2> QED
    BY <1>3, <2>2 DEF Injection
<1>5. IsFiniteSet(0 .. IndexSize)
  BY IndexFacts, FS_Interval
<1>6. IsFiniteSet(T)
  BY <1>4, <1>5, FS_Injection
<1> QED
  BY <1>1, <1>6

LEMMA AddIndexed ==
    ASSUME NEW T, IndexTree(T), NEW v \in AddCalls \cup DeltaCalls
    PROVE  /\ IndexTree(Add(T, v))
           /\ \A o \in Nat : LocationOf(Add(T, v), o) =
                IF v.b <= o /\ o < v.e THEN <<v.client, v.ptr + (o - v.b)>> ELSE LocationOf(T, o)
<1>1. v \in TreeNodes /\ v.b < v.e /\ v.e <= IndexSize /\ IndexSize \in Nat
  BY IndexFacts
<1>2. /\ Tree(Add(T, v))
      /\ \A o \in Nat : LocationOf(Add(T, v), o) =
           IF Covers(v, o) THEN Location(v, o) ELSE LocationOf(T, o)
  BY <1>1, AddAssigns DEF IndexTree
<1>3. Coalesced(Add(T, v))
  BY <1>1, TreesStayCoalesced DEF IndexTree
<1>4. \A o \in Nat : o >= IndexSize => ~ Covers(v, o)
  BY <1>1 DEF Covers, TreeNodes
<1>5. Inside(Add(T, v))
  BY <1>2, <1>4 DEF IndexTree, Inside
<1> QED
  BY <1>2, <1>3, <1>5 DEF IndexTree, Covers, Location

LEMMA RemoveIndexed ==
    ASSUME NEW T, IndexTree(T), NEW v \in RemoveCalls
    PROVE  /\ IndexTree(Remove(T, v))
           /\ \A o \in Nat : LocationOf(Remove(T, v), o) =
                IF v.b <= o /\ o < v.e THEN Hole ELSE LocationOf(T, o)
<1>1. IsExtent(v) /\ v.b < v.e
  BY IndexFacts
<1>2. /\ Tree(Remove(T, v))
      /\ \A o \in Nat : LocationOf(Remove(T, v), o) =
           IF v.b <= o /\ o < v.e THEN Hole ELSE LocationOf(T, o)
  BY <1>1, RemoveErases DEF IndexTree
<1>3. Coalesced(Remove(T, v))
  BY <1>1, TreesStayCoalesced DEF IndexTree
<1>4. Inside(Remove(T, v))
  BY <1>2 DEF IndexTree, Inside
<1> QED
  BY <1>2, <1>3, <1>4 DEF IndexTree

LEMMA MergeIndexed ==
    ASSUME NEW T, IndexTree(T), NEW U, IndexTree(U)
    PROVE  IndexTree(Merge(T, U))
<1>1. IsFiniteSet(U) /\ Tree(U) /\ Tree(T) /\ Coalesced(T)
  BY IndexTreeNodes DEF IndexTree
<1>2. /\ Tree(Merge(T, U))
      /\ \A o \in Nat :
            \/ LocationOf(Merge(T, U), o) = LocationOf(T, o)
            \/ LocationOf(U, o) # Hole /\ LocationOf(Merge(T, U), o) \in {LocationOf(U, o), Hole}
  BY <1>1, MergeInvents
<1>3. Coalesced(Merge(T, U))
  BY <1>1, MergeStaysCoalesced
<1>4. Inside(Merge(T, U))
  BY <1>2 DEF IndexTree, Inside
<1> QED
  BY <1>2, <1>3, <1>4 DEF IndexTree

LEMMA EmptyIndexed == IndexTree({}) /\ \A o : LocationOf({}, o) = Hole
  BY DEF IndexTree, Tree, NonEmpty, Disjoint, Coalesced, Inside, LocationOf

LEMMA IndexInvariant == IndexSpec => []IndexInv
<1>1. IndexInit => IndexInv
  BY EmptyIndexed DEF IndexInit, IndexInv
<1>2. IndexInv /\ [IndexNext]_indexVars => IndexInv'
  <2> SUFFICES ASSUME IndexInv, [IndexNext]_indexVars PROVE IndexInv'
    OBVIOUS
  <2>1. IndexTree(tree) /\ IndexTree(delta)
    BY DEF IndexInv
  <2> SUFFICES IndexTree(tree') /\ IndexTree(delta')
    BY DEF IndexInv, IndexTree, Inside
  <2>2. ASSUME NEW v \in AddCalls, AddToTree(v) PROVE IndexTree(tree') /\ IndexTree(delta')
    BY <2>1, <2>2, AddIndexed DEF AddToTree
  <2>3. ASSUME NEW v \in DeltaCalls, AddToDelta(v) PROVE IndexTree(tree') /\ IndexTree(delta')
    BY <2>1, <2>3, AddIndexed DEF AddToDelta
  <2>4. ASSUME NEW v \in RemoveCalls, RemoveFromTree(v) PROVE IndexTree(tree') /\ IndexTree(delta')
    BY <2>1, <2>4, RemoveIndexed DEF RemoveFromTree
  <2>5. ASSUME MergeDelta PROVE IndexTree(tree') /\ IndexTree(delta')
    BY <2>1, <2>5, MergeIndexed DEF MergeDelta
  <2>6. ASSUME ClearDelta PROVE IndexTree(tree') /\ IndexTree(delta')
    BY <2>1, <2>6, EmptyIndexed DEF ClearDelta
  <2>7. CASE UNCHANGED indexVars
    BY <2>1, <2>7 DEF indexVars
  <2> QED
    BY <2>2, <2>3, <2>4, <2>5, <2>6, <2>7 DEF IndexNext
<1> QED
  BY <1>1, <1>2, PTL DEF IndexSpec

\* Whatever was added, removed and merged, in files of any size: nodes are in the
\* file, not empty and disjoint, no two could be one, and find returns the
\* first of those that share a byte (extent_tree.hpp:143, 155-279).
THEOREM TreesAlwaysWellFormed == IndexSpec => []TreesWellFormed
<1>1. IndexInv => TreesWellFormed
  <2> SUFFICES ASSUME IndexInv PROVE TreesWellFormed
    OBVIOUS
  <2>1. ASSUME NEW T \in {tree, delta}
        PROVE  T \subseteq Nodes /\ NonEmpty(T) /\ Disjoint(T) /\ Coalesced(T)
    <3>1. IndexTree(T)
      BY DEF IndexInv
    <3> QED
      BY <3>1, IndexTreeNodes DEF IndexTree, Tree
  <2>2. ASSUME NEW v \in RemoveCalls
        PROVE  Find(tree, v) = First({m \in tree : Overlaps(m, v)})
    BY IndexFacts, FindReturnsFirst DEF IndexInv, IndexTree
  <2> QED
    BY <2>1, <2>2 DEF TreesWellFormed, FindIsFirst
<1> QED
  BY <1>1, IndexInvariant, PTL

\* add, remove and clear are the operations of the map from bytes to locations
\* (extent_tree.hpp:138, 171-279).
THEOREM OperationsAlwaysImplementMap == IndexSpec => OperationsImplementMap
<1> DEFINE Implements ==
      /\ \A v \in AddCalls : AddToTree(v) => Map!Assign(v.b, v.e, v.ptr, v.client)
      /\ \A v \in DeltaCalls : AddToDelta(v) => Map!AssignDelta(v.b, v.e, v.ptr, v.client)
      /\ \A v \in RemoveCalls : RemoveFromTree(v) => Map!Remove(v.b, v.e)
      /\ ClearDelta => Map!Clear
<1>1. IndexInv => Implements
  <2> SUFFICES ASSUME IndexInv PROVE Implements
    OBVIOUS
  <2>1. IndexTree(tree) /\ IndexTree(delta) /\ IndexOffsets \subseteq Nat
    BY DEF IndexInv, IndexOffsets
  <2>2. ASSUME NEW v \in AddCalls, AddToTree(v)
        PROVE  Map!Assign(v.b, v.e, v.ptr, v.client)
    <3>1. tree' = Add(tree, v) /\ delta' = delta
      BY <2>2 DEF AddToTree
    <3>2. \A o \in IndexOffsets : LocationOf(tree', o) =
             IF v.b <= o /\ o < v.e THEN <<v.client, v.ptr + (o - v.b)>> ELSE LocationOf(tree, o)
      BY <2>1, <3>1, AddIndexed
    <3>3. MapOf(tree') = Map!Assigned(MapOf(tree), v.b, v.e, v.ptr, v.client)
      BY <3>2 DEF MapOf, Map!Assigned
    <3> QED
      BY <3>1, <3>3 DEF Map!Assign, MapOf
  <2>3. ASSUME NEW v \in DeltaCalls, AddToDelta(v)
        PROVE  Map!AssignDelta(v.b, v.e, v.ptr, v.client)
    <3>1. delta' = Add(delta, v) /\ tree' = tree
      BY <2>3 DEF AddToDelta
    <3>2. \A o \in IndexOffsets : LocationOf(delta', o) =
             IF v.b <= o /\ o < v.e THEN <<v.client, v.ptr + (o - v.b)>> ELSE LocationOf(delta, o)
      BY <2>1, <3>1, AddIndexed
    <3>3. MapOf(delta') = Map!Assigned(MapOf(delta), v.b, v.e, v.ptr, v.client)
      BY <3>2 DEF MapOf, Map!Assigned
    <3> QED
      BY <3>1, <3>3 DEF Map!AssignDelta, MapOf
  <2>4. ASSUME NEW v \in RemoveCalls, RemoveFromTree(v) PROVE Map!Remove(v.b, v.e)
    <3>1. tree' = Remove(tree, v) /\ delta' = delta
      BY <2>4 DEF RemoveFromTree
    <3>2. \A o \in IndexOffsets : LocationOf(tree', o) =
             IF v.b <= o /\ o < v.e THEN Hole ELSE LocationOf(tree, o)
      BY <2>1, <3>1, RemoveIndexed
    <3>3. MapOf(tree') = Map!Cut(MapOf(tree), v.b, v.e)
      BY <3>2 DEF MapOf, Map!Cut
    <3> QED
      BY <3>1, <3>3 DEF Map!Remove, MapOf
  <2>5. ASSUME ClearDelta PROVE Map!Clear
    <3>1. delta' = {} /\ tree' = tree
      BY <2>5 DEF ClearDelta
    <3>2. MapOf(delta') = [o \in IndexOffsets |-> Hole]
      BY <3>1, EmptyIndexed DEF MapOf
    <3> QED
      BY <3>1, <3>2 DEF Map!Clear, MapOf
  <2> QED
    BY <2>2, <2>3, <2>4, <2>5
<1>2. IndexInv /\ [IndexNext]_indexVars => [Implements]_indexVars
  BY <1>1
<1> QED
  BY <1>2, IndexInvariant, PTL DEF IndexSpec, OperationsImplementMap

\* merge assigns what the merged tree has, unless one of its nodes is continued or
\* missed, and never gives a byte a location that neither tree had for it
\* (extent_tree.hpp:155-169).
THEOREM MergeAlwaysAssigns == IndexSpec => MergeAssigns
<1> DEFINE Assigns ==
      MergeDelta =>
          /\ ~ Continued /\ ~ Missed => Map!Merge
          /\ \A o \in IndexOffsets :
                \/ LocationOf(tree', o) = LocationOf(tree, o)
                \/ /\ LocationOf(delta, o) # Hole
                   /\ LocationOf(tree', o) \in {LocationOf(delta, o), Hole}
<1>1. IndexInv => Assigns
  <2> SUFFICES ASSUME IndexInv, MergeDelta
               PROVE  /\ ~ Continued /\ ~ Missed => Map!Merge
                      /\ \A o \in IndexOffsets :
                            \/ LocationOf(tree', o) = LocationOf(tree, o)
                            \/ /\ LocationOf(delta, o) # Hole
                               /\ LocationOf(tree', o) \in {LocationOf(delta, o), Hole}
    OBVIOUS
  <2>1. /\ Tree(tree) /\ Tree(delta) /\ IsFiniteSet(delta)
        /\ IndexOffsets \subseteq Nat
        /\ tree' = Merge(tree, delta) /\ delta' = delta
    BY IndexTreeNodes DEF IndexInv, IndexTree, IndexOffsets, MergeDelta
  <2>2. \A o \in IndexOffsets :
           \/ LocationOf(tree', o) = LocationOf(tree, o)
           \/ /\ LocationOf(delta, o) # Hole
              /\ LocationOf(tree', o) \in {LocationOf(delta, o), Hole}
    BY <2>1, MergeInvents
  <2>3. ASSUME ~ Continued, ~ Missed PROVE Map!Merge
    <3>1. ~ ContinuedBy(tree, delta) /\ ~ MissedBy(tree, delta)
      BY <2>3 DEF Continued, Missed, ContinuedBy, MissedBy
    <3>2. \A o \in IndexOffsets : LocationOf(tree', o) =
             IF LocationOf(delta, o) # Hole THEN LocationOf(delta, o) ELSE LocationOf(tree, o)
      BY <2>1, <3>1, MergeOverlays
    <3>3. MapOf(tree') = Map!Overlay(MapOf(tree), MapOf(delta))
      BY <3>2 DEF MapOf, Map!Overlay
    <3> QED
      BY <2>1, <3>3 DEF Map!Merge, MapOf
  <2> QED
    BY <2>2, <2>3
<1>2. IndexInv /\ [IndexNext]_indexVars => [Assigns]_indexVars
  BY <1>1
<1> QED
  BY <1>2, IndexInvariant, PTL DEF IndexSpec, MergeAssigns

=============================================================================
