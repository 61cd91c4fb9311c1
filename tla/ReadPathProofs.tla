---------------------------- MODULE ReadPathProofs ----------------------------
(***************************************************************************)
(* For every pair of trees, every size of the backing file and every       *)
(* request: what the walks of a read leave out is what no tree knows, and  *)
(* a read that returns has put every byte into its place, although Gets    *)
(* land in the buffer while the walks go on.                               *)
(***************************************************************************)
EXTENDS ReadPath, ExtentTreeProofs

-----------------------------------------------------------------------------
(* Lists of extents.                                                       *)

\* Lists of extents that are apart: none of them ends where another begins.
Extents(L) == \A x \in L : x.b \in Nat /\ x.e \in 0 .. MaxOffset /\ x.b <= x.e

Apart(L) == \A x, y \in L : x = y \/ x.e < y.b \/ y.e < x.b

List(L) == Extents(L) /\ Apart(L) /\ IsFiniteSet(L)

In(L, o) == \E x \in L : Within(x, o)

LEMMA FirstOf ==
    ASSUME NEW L, L # {}, \A x \in L : x.b \in Nat
    PROVE  First(L) \in L /\ \A x \in L : First(L).b <= x.b
<1> DEFINE S == {x.b : x \in L}
<1>1. S \in SUBSET Nat /\ S # {}
  OBVIOUS
<1>2. PICK n \in S : \A k \in S : n <= k
  BY <1>1, SmallestExists
<1>3. PICK x \in L : x.b = n
  OBVIOUS
<1>4. \A y \in L : x.b <= y.b
  BY <1>2, <1>3
<1> QED
  BY <1>4 DEF First

LEMMA LastEnd ==
    ASSUME NEW L, L # {}, Extents(L)
    PROVE  \E x \in L : \A y \in L : y.e <= x.e
<1> DEFINE S == {MaxOffset - x.e : x \in L}
<1>1. S \in SUBSET Nat /\ S # {}
  BY ReadPathAssumption DEF Extents
<1>2. PICK n \in S : \A k \in S : n <= k
  BY <1>1, SmallestExists
<1>3. PICK x \in L : MaxOffset - x.e = n
  OBVIOUS
<1>4. ASSUME NEW y \in L PROVE y.e <= x.e
  <2>1. n <= MaxOffset - y.e
    BY <1>2
  <2> QED
    BY <1>3, <2>1, ReadPathAssumption DEF Extents
<1> QED
  BY <1>4

LEMMA UnionIs ==
    ASSUME NEW xs, xs # {}, Extents(xs), NEW u, u = UnionOf(xs)
    PROVE  /\ \A x \in xs : u.b <= x.b /\ x.e <= u.e
           /\ \E x \in xs : u.b = x.b
           /\ \E x \in xs : u.e = x.e
<1>1. u.b = CHOOSE b \in {x.b : x \in xs} : \A x \in xs : b <= x.b
  BY DEF UnionOf, Extent
<1>2. u.e = CHOOSE e \in {x.e : x \in xs} : \A x \in xs : x.e <= e
  BY DEF UnionOf, Extent
<1>3. \E b \in {x.b : x \in xs} : \A x \in xs : b <= x.b
  <2>1. \A x \in xs : x.b \in Nat
    BY DEF Extents
  <2>2. First(xs) \in xs /\ \A x \in xs : First(xs).b <= x.b
    BY <2>1, FirstOf
  <2> QED
    BY <2>2
<1>4. \E e \in {x.e : x \in xs} : \A x \in xs : x.e <= e
  BY LastEnd
<1>5. u.b \in {x.b : x \in xs} /\ \A x \in xs : u.b <= x.b
  BY <1>1, <1>3
<1>6. u.e \in {x.e : x \in xs} /\ \A x \in xs : x.e <= u.e
  BY <1>2, <1>4
<1> QED
  BY <1>5, <1>6

\* add (extent_list.hpp:27-45) adds the bytes of the extent and no others, and
\* leaves a list of extents that are apart.
LEMMA AddExtentIs ==
    ASSUME NEW L, List(L), NEW x, Extents({x}), NEW N, N = AddExtent(L, x)
    PROVE  /\ List(N)
           /\ \A o \in Nat : In(N, o) <=> In(L, o) \/ Within(x, o)
<1> DEFINE touching == Touching(L, x)
           all      == touching \cup {x}
<1>1. PICK u : u = UnionOf(all)
  OBVIOUS
<1>2. N = (L \ touching) \cup {u}
  BY <1>1 DEF AddExtent
<1>3. Extents(all) /\ all # {}
  BY DEF Touching, List, Extents
<1>4. /\ \A y \in all : u.b <= y.b /\ y.e <= u.e
      /\ \E y \in all : u.b = y.b
      /\ \E y \in all : u.e = y.e
  <2> HIDE DEF all
  <2> QED
    BY <1>1, <1>3, UnionIs
<1>5. PICK p \in all : u.b = p.b
  BY <1>4
<1>6. PICK q \in all : u.e = q.e
  BY <1>4
<1>7. \A y \in all : /\ y.b \in Nat /\ y.e \in 0 .. MaxOffset /\ y.b <= y.e
                     /\ y.b <= x.e /\ x.b <= y.e
                     /\ y = x \/ y \in L
  <2>1. x.b \in Nat /\ x.e \in 0 .. MaxOffset /\ x.b <= x.e
    BY DEF Extents
  <2>2. ASSUME NEW y \in touching
        PROVE  /\ y.b \in Nat /\ y.e \in 0 .. MaxOffset /\ y.b <= y.e
               /\ y.b <= x.e /\ x.b <= y.e /\ y \in L
    BY <2>1, ReadPathAssumption DEF Touching, List, Extents
  <2> QED
    BY <2>1, <2>2
<1>8. u.b \in Nat /\ u.e \in 0 .. MaxOffset /\ u.b <= x.b /\ x.b <= x.e /\ x.e <= u.e
  BY <1>4, <1>5, <1>6, <1>7
<1>9. Extents(N)
  BY <1>2, <1>8, ReadPathAssumption DEF List, Extents
<1>10. ASSUME NEW z \in L \ touching PROVE z.e < u.b \/ u.e < z.b
  <2>1. z.b \in Nat /\ z.e \in 0 .. MaxOffset /\ z.b <= z.e
    BY DEF List, Extents
  <2>2. x.e < z.b \/ z.e < x.b
    BY DEF Touching
  <2>3. \A y \in all : y = x \/ y.e < z.b \/ z.e < y.b
    BY <1>7, <1>10 DEF List, Apart
  <2>4. CASE x.e < z.b
    <3>1. q.e < z.b
      BY <1>7, <2>1, <2>3, <2>4, <1>8, ReadPathAssumption
    <3> QED
      BY <1>6, <3>1
  <2>5. CASE z.e < x.b
    <3>1. z.e < p.b
      BY <1>7, <2>1, <2>3, <2>5, <1>8, ReadPathAssumption
    <3> QED
      BY <1>5, <3>1
  <2> QED
    BY <2>2, <2>4, <2>5
<1>11. Apart(N)
  BY <1>2, <1>10 DEF List, Apart
<1>12. IsFiniteSet(N)
  <2>1. IsFiniteSet(L \ touching)
    BY FS_Difference DEF List
  <2> QED
    BY <1>2, <2>1, FS_AddElement
<1>13. ASSUME NEW o \in Nat PROVE In(N, o) <=> In(L, o) \/ Within(x, o)
  <2>1. ASSUME NEW y \in all, Within(y, o) PROVE Within(u, o)
    BY <1>4, <1>7, <1>8, <2>1, ReadPathAssumption DEF Within
  <2>2. ASSUME Within(u, o) PROVE \E y \in all : Within(y, o)
    <3>1. CASE o < x.b
      BY <1>5, <1>7, <2>2, <3>1 DEF Within
    <3>2. CASE x.b <= o /\ o < x.e
      BY <3>2 DEF Within
    <3>3. CASE x.e <= o
      BY <1>6, <1>7, <2>2, <3>3 DEF Within
    <3> QED
      BY <1>7, <1>8, <3>1, <3>2, <3>3
  <2>3. \A y \in all : y = x \/ y \in L
    BY <1>7
  <2>4. In(N, o) <=> (\E y \in L \ touching : Within(y, o)) \/ Within(u, o)
    BY <1>2 DEF In
  <2>5. In(L, o) <=> (\E y \in L \ touching : Within(y, o)) \/ (\E y \in touching : Within(y, o))
    BY DEF In, Touching
  <2> QED
    BY <2>1, <2>2, <2>4, <2>5
<1> QED
  BY <1>9, <1>11, <1>12, <1>13 DEF List

-----------------------------------------------------------------------------
(* The loops along lists.                                                  *)

\* A turn of one of the three loops; x is what the inverse is taken in.
Turn(kind, x, s) ==
    IF kind = "add" THEN AddStep(s)
    ELSE IF kind = "inverse" THEN InverseStep(s, x)
    ELSE IntersectionStep(s)

\* f has the states of the loop, from s0 on, up to the Nth turn.
Loop(f, kind, x, s0, N) ==
    f = [n \in 0 .. N |-> IF n = 0 THEN s0 ELSE Turn(kind, x, f[n - 1])]

LEMMA LoopTurns ==
    ASSUME NEW f, NEW kind, NEW x, NEW s0, NEW N \in Nat, Loop(f, kind, x, s0, N)
    PROVE  /\ f[0] = s0
           /\ \A n \in 0 .. N : n # 0 => f[n] = Turn(kind, x, f[n - 1])
<1>1. ASSUME NEW n \in 0 .. N
      PROVE  f[n] = IF n = 0 THEN s0 ELSE Turn(kind, x, f[n - 1])
  BY DEF Loop
<1>2. 0 \in 0 .. N
  OBVIOUS
<1>3. f[0] = s0
  BY <1>1, <1>2
<1>4. ASSUME NEW n \in 0 .. N, n # 0 PROVE f[n] = Turn(kind, x, f[n - 1])
  BY <1>1, <1>4
<1> QED
  BY <1>3, <1>4

LEMMA LoopMore ==
    ASSUME NEW f, NEW kind, NEW x, NEW s0, NEW k \in Nat, k # 0, Loop(f, kind, x, s0, k - 1)
    PROVE  \E g : Loop(g, kind, x, s0, k)
<1>1. PICK g : g = [n \in 0 .. k |-> IF n = 0 THEN s0 ELSE Turn(kind, x, f[n - 1])]
  OBVIOUS
<1>2. ASSUME NEW n \in 0 .. k
      PROVE  g[n] = IF n = 0 THEN s0 ELSE Turn(kind, x, f[n - 1])
  BY <1>1
<1>3. k - 1 \in Nat
  OBVIOUS
<1>4. ASSUME NEW n \in 0 .. k, n # 0 PROVE g[n - 1] = f[n - 1]
  <2>1. PICK j : j = n - 1
    OBVIOUS
  <2>2. j \in 0 .. k - 1 /\ j \in 0 .. k
    BY <1>4, <2>1
  <2>3. f[j] = IF j = 0 THEN s0 ELSE Turn(kind, x, f[j - 1])
    BY <1>3, <2>2, LoopTurns
  <2>4. g[j] = IF j = 0 THEN s0 ELSE Turn(kind, x, f[j - 1])
    BY <1>2, <2>2
  <2> QED
    BY <2>1, <2>3, <2>4
<1>5. ASSUME NEW n \in 0 .. k
      PROVE  (IF n = 0 THEN s0 ELSE Turn(kind, x, f[n - 1]))
             = (IF n = 0 THEN s0 ELSE Turn(kind, x, g[n - 1]))
  BY <1>4
<1>6. g = [n \in 0 .. k |-> IF n = 0 THEN s0 ELSE Turn(kind, x, g[n - 1])]
  BY <1>1, <1>5, Zenon
<1> QED
  BY <1>6 DEF Loop

\* What holds at first and passes from each number to the next.
LEMMA UpTo ==
    ASSUME NEW N \in Nat, NEW G, 0 \in G,
           \A n \in 0 .. N : n # 0 /\ n - 1 \in G => n \in G
    PROVE  \A n \in 0 .. N : n \in G
<1> DEFINE Bad == {n \in 0 .. N : n \notin G}
<1> SUFFICES ASSUME Bad # {} PROVE FALSE
  OBVIOUS
<1>1. Bad \in SUBSET Nat
  OBVIOUS
<1>2. \A n : n \in Bad <=> n \in 0 .. N /\ n \notin G
  OBVIOUS
<1> HIDE DEF Bad
<1>3. PICK n \in Bad : \A m \in Bad : n <= m
  BY <1>1, SmallestExists
<1>4. n \in 0 .. N /\ n # 0
  BY <1>2, <1>3
<1>5. n - 1 \in 0 .. N /\ ~ (n <= n - 1)
  BY <1>4
<1>6. n - 1 \in G
  BY <1>2, <1>3, <1>5
<1> QED
  BY <1>2, <1>3, <1>4, <1>6

LEMMA LoopExists ==
    ASSUME NEW kind, NEW x, NEW s0, NEW N \in Nat
    PROVE  \E f : Loop(f, kind, x, s0, N)
<1> DEFINE G == {k \in Nat : \E f : Loop(f, kind, x, s0, k)}
<1>1. 0 \in G
  <2>1. PICK f : f = [n \in 0 .. 0 |-> s0]
    OBVIOUS
  <2>2. ASSUME NEW n \in 0 .. 0
        PROVE  s0 = (IF n = 0 THEN s0 ELSE Turn(kind, x, f[n - 1]))
    OBVIOUS
  <2>3. f = [n \in 0 .. 0 |-> IF n = 0 THEN s0 ELSE Turn(kind, x, f[n - 1])]
    BY <2>1, <2>2, Zenon
  <2>4. Loop(f, kind, x, s0, 0)
    BY <2>3 DEF Loop
  <2> QED
    BY <2>4
<1>2. ASSUME NEW n \in 0 .. N, n # 0, n - 1 \in G PROVE n \in G
  <2>1. PICK f : Loop(f, kind, x, s0, n - 1)
    BY <1>2
  <2>2. \E g : Loop(g, kind, x, s0, n)
    BY <1>2, <2>1, LoopMore
  <2> QED
    BY <2>2
<1>3. N \in G => \E f : Loop(f, kind, x, s0, N)
  OBVIOUS
<1> HIDE DEF G
<1>4. N \in 0 .. N
  OBVIOUS
<1> QED
  BY <1>1, <1>2, <1>3, <1>4, UpTo

-----------------------------------------------------------------------------
(* Adding extents one after the other.                                     *)

LEMMA AddLoop ==
    ASSUME NEW xs, NEW L, NEW N \in Nat, N = Cardinality(xs)
    PROVE  \E f : /\ AddAll(L, xs) = f[N].list
                  /\ Loop(f, "add", 0, [list |-> L, left |-> xs], N)
<1>1. PICK s0 : s0 = [list |-> L, left |-> xs]
  OBVIOUS
<1> DEFINE Adds(g) == g = [n \in 0 .. N |-> IF n = 0 THEN s0 ELSE AddStep(g[n - 1])]
<1>2. \A g : Loop(g, "add", 0, s0, N) <=> Adds(g)
  BY DEF Loop, Turn
<1>3. PICK f : f = CHOOSE g : Adds(g)
  OBVIOUS
<1>4. AddAll(L, xs) = f[N].list
  BY <1>1, <1>3 DEF AddAll
<1> HIDE DEF Adds
<1>5. Loop(f, "add", 0, s0, N)
  BY <1>2, <1>3, LoopExists
<1> QED
  BY <1>1, <1>4, <1>5

\* What is in the list and what is still to be added, after n extents.
Adding(s, xs, n) ==
    /\ List(s.list)
    /\ s.left \subseteq xs /\ IsFiniteSet(s.left) /\ Cardinality(s.left) = Cardinality(xs) - n
    /\ \A o \in Nat : In(s.list, o) \/ In(s.left, o) <=> In(xs, o)

LEMMA AddTurn ==
    ASSUME NEW xs, Extents(xs), NEW N \in Nat, N = Cardinality(xs),
           NEW n \in 0 .. N, n # 0, NEW s, Adding(s, xs, n - 1), NEW t, t = AddStep(s)
    PROVE  Adding(t, xs, n)
<1>1. PICK x : x = First(s.left)
  OBVIOUS
<1>2. x \in s.left /\ s.left # {}
  <2>1. s.left # {}
    BY FS_EmptySet DEF Adding
  <2>2. \A y \in s.left : y.b \in Nat
    BY DEF Adding, Extents
  <2> QED
    BY <1>1, <2>1, <2>2, FirstOf
<1>3. t = [list |-> AddExtent(s.list, x), left |-> s.left \ {x}]
  BY <1>1, <1>2 DEF AddStep
<1>4. t.list = AddExtent(s.list, x) /\ t.left = s.left \ {x}
  BY <1>3
<1>5. List(t.list) /\ \A o \in Nat : In(t.list, o) <=> In(s.list, o) \/ Within(x, o)
  <2>1. Extents({x})
    BY <1>2 DEF Adding, Extents
  <2>2. List(s.list)
    BY DEF Adding
  <2> QED
    BY <1>4, <2>1, <2>2, AddExtentIs
<1>6. IsFiniteSet(t.left) /\ Cardinality(t.left) = N - n
  <2>1. IsFiniteSet(s.left) /\ Cardinality(s.left) = N - (n - 1)
    BY DEF Adding
  <2>2. IsFiniteSet(t.left) /\ Cardinality(t.left) = Cardinality(s.left) - 1
    BY <1>2, <1>4, <2>1, FS_RemoveElement
  <2> QED
    BY <2>1, <2>2
<1>7. \A o \in Nat : In(s.left, o) <=> In(t.left, o) \/ Within(x, o)
  BY <1>2, <1>4 DEF In
<1>8. \A o \in Nat : In(t.list, o) \/ In(t.left, o) <=> In(xs, o)
  BY <1>5, <1>7 DEF Adding
<1>9. t.left \subseteq xs
  BY <1>4 DEF Adding
<1> QED
  BY <1>5, <1>6, <1>8, <1>9 DEF Adding

\* Adding extents one after the other adds all their bytes.
LEMMA AddAllIs ==
    ASSUME NEW xs, Extents(xs), IsFiniteSet(xs), NEW A, A = AddAll({}, xs)
    PROVE  /\ List(A)
           /\ \A o \in Nat : In(A, o) <=> In(xs, o)
<1>1. PICK N \in Nat : N = Cardinality(xs)
  BY FS_CardinalityType
<1>2. PICK s0 : s0 = [list |-> {}, left |-> xs]
  OBVIOUS
<1>3. PICK f : A = f[N].list /\ Loop(f, "add", 0, s0, N)
  BY <1>1, <1>2, AddLoop
<1>4. f[0] = s0 /\ \A n \in 0 .. N : n # 0 => f[n] = Turn("add", 0, f[n - 1])
  BY <1>3, LoopTurns
<1>5. Adding(f[0], xs, 0)
  <2>1. List({}) /\ \A o \in Nat : ~ In({}, o)
    BY FS_EmptySet DEF List, Extents, Apart, In
  <2>2. s0.list = {} /\ s0.left = xs
    BY <1>2
  <2> QED
    BY <1>1, <1>4, <2>1, <2>2 DEF Adding
<1>6. ASSUME NEW n \in 0 .. N, n # 0, Adding(f[n - 1], xs, n - 1) PROVE Adding(f[n], xs, n)
  <2>1. f[n] = AddStep(f[n - 1])
    BY <1>4, <1>6 DEF Turn
  <2> QED
    BY <1>1, <1>6, <2>1, AddTurn
<1>7. Adding(f[N], xs, N)
  <2> DEFINE G == {n \in 0 .. N : Adding(f[n], xs, n)}
  <2>1. 0 \in G
    BY <1>5
  <2>2. ASSUME NEW n \in 0 .. N, n # 0, n - 1 \in G PROVE n \in G
    BY <1>6, <2>2
  <2>3. N \in G => Adding(f[N], xs, N)
    OBVIOUS
  <2> HIDE DEF G
  <2>4. N \in 0 .. N
    OBVIOUS
  <2> QED
    BY <2>1, <2>2, <2>3, <2>4, UpTo
<1>8. f[N].left = {}
  <2>1. IsFiniteSet(f[N].left) /\ Cardinality(f[N].left) = 0
    BY <1>1, <1>7 DEF Adding
  <2> QED
    BY <2>1, FS_EmptySet
<1>9. \A o \in Nat : ~ In(f[N].left, o)
  BY <1>8 DEF In
<1> QED
  BY <1>3, <1>7, <1>9 DEF Adding

-----------------------------------------------------------------------------
(* What a list leaves of an extent.                                        *)

\* Extents with bytes, all within x, no byte in two of them.
HoleList(H, x) ==
    /\ Extents(H) /\ NonEmpty(H) /\ Disjoint(H) /\ IsFiniteSet(H)
    /\ \A h \in H : x.b <= h.b /\ h.e <= x.e

LEMMA InverseLoop ==
    ASSUME NEW L, NEW x, NEW N \in Nat, N = Cardinality(L)
    PROVE  \E f : /\ InverseIn(L, x) =
                        f[N].holes \cup IF f[N].b < x.e THEN {Extent(f[N].b, x.e)} ELSE {}
                  /\ Loop(f, "inverse", x, [b |-> x.b, holes |-> {}, left |-> L], N)
<1>1. PICK s0 : s0 = [b |-> x.b, holes |-> {}, left |-> L]
  OBVIOUS
<1> DEFINE Inverses(g) == g = [n \in 0 .. N |-> IF n = 0 THEN s0 ELSE InverseStep(g[n - 1], x)]
<1>2. \A g : Loop(g, "inverse", x, s0, N) <=> Inverses(g)
  BY DEF Loop, Turn
<1>3. PICK f : f = CHOOSE g : Inverses(g)
  OBVIOUS
<1>4. InverseIn(L, x) = f[N].holes \cup IF f[N].b < x.e THEN {Extent(f[N].b, x.e)} ELSE {}
  BY <1>1, <1>3 DEF InverseIn
<1> HIDE DEF Inverses
<1>5. Loop(f, "inverse", x, s0, N)
  BY <1>2, <1>3, LoopExists
<1> QED
  BY <1>1, <1>4, <1>5

\* After n extents: what is before b has been told apart, and what is left of
\* the list begins after it.
Inverting(s, L, x, n) ==
    /\ s.b \in 0 .. MaxOffset /\ x.b <= s.b
    /\ HoleList(s.holes, x)
    /\ \A h \in s.holes : h.e <= s.b
    /\ s.left \subseteq L /\ IsFiniteSet(s.left)
    /\ \A z \in L \ s.left : z.e <= s.b
    /\ \A y \in s.left : s.b = x.b \/ s.b < y.b
    /\ \A o \in Nat : x.b <= o /\ o < s.b /\ o < x.e => (In(s.holes, o) <=> ~ In(L, o))
    /\ s.left = {} \/ s.b >= x.e \/ Cardinality(s.left) = Cardinality(L) - n

LEMMA MoreHoles ==
    ASSUME NEW x, x.b \in Nat, x.e \in 0 .. MaxOffset, NEW H, HoleList(H, x),
           NEW b \in Nat, NEW e \in Nat, x.b <= b, b < e, e <= x.e,
           \A h \in H : h.e <= b
    PROVE  /\ HoleList(H \cup {Extent(b, e)}, x)
           /\ \A o \in Nat : In(H \cup {Extent(b, e)}, o) <=> In(H, o) \/ (b <= o /\ o < e)
<1>1. PICK g : g = Extent(b, e)
  OBVIOUS
<1>2. g.b = b /\ g.e = e
  BY <1>1 DEF Extent
<1>3. e \in 0 .. MaxOffset
  BY ReadPathAssumption
<1>4. Extents(H \cup {g})
  BY <1>2, <1>3 DEF HoleList, Extents
<1>5. NonEmpty(H \cup {g})
  BY <1>2 DEF HoleList, NonEmpty
<1>6. Disjoint(H \cup {g})
  <2>1. ASSUME NEW h \in H PROVE ~ Overlaps(h, g) /\ ~ Overlaps(g, h)
    BY <1>2 , ReadPathAssumption DEF HoleList, Extents, Overlaps
  <2> QED
    BY <2>1 DEF HoleList, Disjoint
<1>7. IsFiniteSet(H \cup {g})
  BY FS_AddElement DEF HoleList
<1>8. \A h \in H \cup {g} : x.b <= h.b /\ h.e <= x.e
  BY <1>2 DEF HoleList
<1>9. \A o \in Nat : In(H \cup {g}, o) <=> In(H, o) \/ (b <= o /\ o < e)
  BY <1>2 DEF In, Within
<1> QED
  BY <1>1, <1>4, <1>5, <1>6, <1>7, <1>8, <1>9 DEF HoleList

LEMMA InverseTurn ==
    ASSUME NEW L, List(L), NEW x, x.b \in Nat, x.e \in 0 .. MaxOffset, x.b <= x.e,
           NEW N \in Nat, N = Cardinality(L), NEW n \in 0 .. N, n # 0,
           NEW s, Inverting(s, L, x, n - 1), NEW t, t = InverseStep(s, x)
    PROVE  Inverting(t, L, x, n)
<1>1. CASE s.left = {} \/ s.b >= x.e
  <2>1. t = s
    BY <1>1 DEF InverseStep
  <2> QED
    BY <1>1, <2>1 DEF Inverting
<1>2. CASE s.left # {} /\ ~ s.b >= x.e
  <2>1. PICK y : y = First(s.left)
    OBVIOUS
  <2>2. y \in s.left /\ y \in L /\ \A w \in s.left : y.b <= w.b
    <3>1. \A w \in s.left : w.b \in Nat
      BY DEF Inverting, List, Extents
    <3> QED
      BY <1>2, <2>1, <3>1, FirstOf DEF Inverting
  <2>3. y.b \in Nat /\ y.e \in 0 .. MaxOffset /\ y.b <= y.e
    BY <2>2 DEF List, Extents
  <2>4. s.b \in 0 .. MaxOffset /\ x.b <= s.b /\ s.b < x.e
    BY <1>2, ReadPathAssumption DEF Inverting
  <2>5. PICK e : e = IF y.b < x.e THEN y.b ELSE x.e
    OBVIOUS
  <2>6. /\ t.b = IF s.b < y.e THEN y.e ELSE s.b
        /\ t.holes = s.holes \cup IF s.b < y.b THEN {Extent(s.b, e)} ELSE {}
        /\ t.left = s.left \ {y}
    BY <1>2, <2>1, <2>5 DEF InverseStep
  <2>7. t.b \in 0 .. MaxOffset /\ s.b <= t.b /\ y.e <= t.b
    BY <2>3, <2>4, <2>6, ReadPathAssumption
  <2>8. /\ HoleList(t.holes, x)
        /\ \A o \in Nat : In(t.holes, o) <=> In(s.holes, o) \/ (s.b < y.b /\ s.b <= o /\ o < e)
    <3>1. CASE s.b < y.b
      <4>1. e \in Nat /\ s.b < e /\ e <= x.e /\ s.b \in Nat
        BY <2>3, <2>4, <2>5, <3>1, ReadPathAssumption
      <4>2. t.holes = s.holes \cup {Extent(s.b, e)}
        BY <2>6, <3>1
      <4>3. HoleList(s.holes, x) /\ \A h \in s.holes : h.e <= s.b
        BY DEF Inverting
      <4>4. PICK R, b : R = s.holes /\ b = s.b
        OBVIOUS
      <4>5. /\ HoleList(R, x) /\ \A h \in R : h.e <= b
            /\ b \in Nat /\ x.b <= b /\ b < e
        BY <2>4, <4>1, <4>3, <4>4
      <4>6. /\ HoleList(R \cup {Extent(b, e)}, x)
            /\ \A o \in Nat : In(R \cup {Extent(b, e)}, o) <=> In(R, o) \/ (b <= o /\ o < e)
        BY <4>1, <4>5, MoreHoles
      <4>7. /\ HoleList(t.holes, x)
            /\ \A o \in Nat : In(t.holes, o) <=> In(s.holes, o) \/ (s.b <= o /\ o < e)
        BY <4>2, <4>4, <4>6
      <4> QED
        BY <3>1, <4>7
    <3>2. CASE ~ s.b < y.b
      <4>1. t.holes = s.holes
        BY <2>6, <3>2
      <4> QED
        BY <3>2, <4>1 DEF Inverting
    <3> QED
      BY <3>1, <3>2
  <2>9. \A h \in t.holes : h.e <= t.b
    <3>1. ASSUME NEW h \in s.holes PROVE h.e <= t.b
      <4>1. h.e <= s.b /\ h.e \in Nat
        BY DEF Inverting, HoleList, Extents
      <4> QED
        BY <2>4, <2>7, <4>1
    <3>2. s.b < y.b => e <= t.b
      BY <2>3, <2>4, <2>5, <2>7, ReadPathAssumption
    <3>3. Extent(s.b, e).e = e
      BY DEF Extent
    <3> QED
      BY <2>6, <3>1, <3>2, <3>3
  <2>10. t.left \subseteq L /\ IsFiniteSet(t.left) /\ Cardinality(t.left) = Cardinality(s.left) - 1
    <3>1. s.left \subseteq L /\ IsFiniteSet(s.left)
      BY DEF Inverting
    <3>2. PICK R : R = s.left
      OBVIOUS
    <3>3. IsFiniteSet(R \ {y}) /\ Cardinality(R \ {y}) = Cardinality(R) - 1
      BY <2>2, <3>1, <3>2, FS_RemoveElement
    <3>4. t.left = R \ {y}
      BY <2>6, <3>2
    <3> QED
      BY <3>1, <3>2, <3>3, <3>4
  <2>11. Cardinality(t.left) = Cardinality(L) - n
    <3>1. Cardinality(s.left) = N - (n - 1)
      BY <1>2 DEF Inverting
    <3> QED
      BY <2>10, <3>1
  <2>12. ASSUME NEW z \in L \ t.left PROVE z.e <= t.b
    <3>1. CASE z = y
      BY <2>7, <3>1
    <3>2. CASE z # y
      <4>1. z.e <= s.b /\ z.e \in Nat
        BY <2>6, <2>12, <3>2 DEF Inverting, List, Extents
      <4> QED
        BY <2>4, <2>7, <4>1
    <3> QED
      BY <3>1, <3>2
  <2>13. ASSUME NEW w \in t.left
         PROVE  y.e < w.b /\ (t.b = x.b \/ t.b < w.b)
    <3>1. w \in s.left /\ w \in L /\ w # y
      BY <2>6, <2>13 DEF Inverting
    <3>2. w.b \in Nat /\ w.e \in 0 .. MaxOffset /\ w.b <= w.e
      BY <3>1 DEF List, Extents
    <3>3. y.e < w.b
      <4>1. y.e < w.b \/ w.e < y.b
        BY <2>2, <3>1 DEF List, Apart
      <4> QED
        BY <2>2, <2>3, <3>1, <3>2, <4>1, ReadPathAssumption
    <3>4. s.b = x.b \/ s.b < w.b
      BY <3>1 DEF Inverting
    <3> QED
      BY <2>6, <3>3, <3>4
  <2>14. ASSUME NEW o \in Nat, x.b <= o, o < t.b, o < x.e
         PROVE  In(t.holes, o) <=> ~ In(L, o)
    <3>1. CASE o < s.b
      <4>1. In(s.holes, o) <=> ~ In(L, o)
        BY <2>14, <3>1 DEF Inverting
      <4>2. ~ s.b <= o
        BY <2>4, <3>1
      <4> QED
        BY <2>8, <4>1, <4>2
    <3>2. CASE s.b <= o
      <4>1. o < y.e
        BY <2>3, <2>4, <2>6, <2>14, <3>2
      <4>2. ~ In(s.holes, o)
        <5>1. ASSUME NEW h \in s.holes PROVE ~ Within(h, o)
          <6>1. h.e <= s.b /\ h.e \in Nat
            BY DEF Inverting, HoleList, Extents
          <6> QED
            BY <2>4, <3>2, <6>1 DEF Within
        <5> QED
          BY <5>1 DEF In
      <4>3. In(t.holes, o) <=> o < y.b
        <5>1. In(t.holes, o) <=> s.b < y.b /\ s.b <= o /\ o < e
          BY <2>8, <4>2
        <5>2. o < e <=> o < y.b
          BY <2>3, <2>5, <2>14
        <5>3. o < y.b => s.b < y.b
          BY <2>3, <2>4, <3>2
        <5> QED
          BY <3>2, <5>1, <5>2, <5>3
      <4>4. In(L, o) <=> Within(y, o)
        <5>1. ASSUME NEW z \in L, z # y PROVE ~ Within(z, o)
          <6>1. z.b \in Nat /\ z.e \in 0 .. MaxOffset
            BY DEF List, Extents
          <6>2. CASE z \in s.left
            <7>1. y.e < z.b
              BY <2>6, <2>13, <5>1, <6>2
            <7> QED
              BY <2>3, <4>1, <6>1, <7>1 DEF Within
          <6>3. CASE z \notin s.left
            <7>1. z.e <= s.b
              BY <6>3 DEF Inverting
            <7> QED
              BY <2>4, <3>2, <6>1, <7>1 DEF Within
          <6> QED
            BY <6>2, <6>3
        <5> QED
          BY <2>2, <5>1 DEF In
      <4>5. Within(y, o) <=> ~ o < y.b
        BY <2>3, <4>1 DEF Within
      <4> QED
        BY <4>3, <4>4, <4>5
    <3> QED
      BY <2>4, <3>1, <3>2
  <2>15. x.b <= t.b
    BY <2>4, <2>7
  <2> QED
    BY <2>7, <2>8, <2>9, <2>10, <2>11, <2>12, <2>13, <2>14, <2>15 DEF Inverting
<1> QED
  BY <1>1, <1>2

\* inverse (extent_list.hpp:47-67) gives the bytes of an extent that the list
\* does not have.
LEMMA InverseIs ==
    ASSUME NEW L, List(L), NEW x, x.b \in Nat, x.e \in 0 .. MaxOffset, x.b <= x.e,
           NEW H, H = InverseIn(L, x)
    PROVE  /\ HoleList(H, x)
           /\ \A o \in Nat : In(H, o) <=> Within(x, o) /\ ~ In(L, o)
<1>1. PICK N \in Nat : N = Cardinality(L)
  BY FS_CardinalityType DEF List
<1>2. PICK s0 : s0 = [b |-> x.b, holes |-> {}, left |-> L]
  OBVIOUS
<1>3. PICK f : /\ H = f[N].holes \cup IF f[N].b < x.e THEN {Extent(f[N].b, x.e)} ELSE {}
               /\ Loop(f, "inverse", x, s0, N)
  BY <1>1, <1>2, InverseLoop
<1>4. f[0] = s0 /\ \A n \in 0 .. N : n # 0 => f[n] = Turn("inverse", x, f[n - 1])
  <2>1. f[0] = s0
    BY <1>3, LoopTurns
  <2>2. \A n \in 0 .. N : n # 0 => f[n] = Turn("inverse", x, f[n - 1])
    BY <1>3, LoopTurns
  <2> QED
    BY <2>1, <2>2
<1>5. Inverting(f[0], L, x, 0)
  <2>1. HoleList({}, x)
    BY FS_EmptySet DEF HoleList, Extents, NonEmpty, Disjoint
  <2>2. s0.b = x.b /\ s0.holes = {} /\ s0.left = L
    BY <1>2
  <2>3. x.b \in 0 .. MaxOffset
    BY ReadPathAssumption
  <2>4. IsFiniteSet(L)
    BY DEF List
  <2> QED
    BY <1>1, <1>4, <2>1, <2>2, <2>3, <2>4 DEF Inverting
<1>6. ASSUME NEW n \in 0 .. N, n # 0, Inverting(f[n - 1], L, x, n - 1)
      PROVE  Inverting(f[n], L, x, n)
  <2>1. f[n] = InverseStep(f[n - 1], x)
    BY <1>4, <1>6 DEF Turn
  <2> QED
    BY <1>1, <1>6, <2>1, InverseTurn
<1>7. Inverting(f[N], L, x, N)
  <2> DEFINE G == {n \in 0 .. N : Inverting(f[n], L, x, n)}
  <2>1. 0 \in G
    BY <1>5
  <2>2. ASSUME NEW n \in 0 .. N, n # 0, n - 1 \in G PROVE n \in G
    BY <1>6, <2>2
  <2>3. N \in G => Inverting(f[N], L, x, N)
    OBVIOUS
  <2> HIDE DEF G
  <2>4. N \in 0 .. N
    OBVIOUS
  <2> QED
    BY <2>1, <2>2, <2>3, <2>4, UpTo
<1>8. PICK s : s = f[N]
  OBVIOUS
<1>9. s.left = {} \/ s.b >= x.e
  <2>1. IsFiniteSet(s.left) /\ (s.left = {} \/ s.b >= x.e \/ Cardinality(s.left) = 0)
    BY <1>1, <1>7, <1>8 DEF Inverting
  <2> QED
    BY <2>1, FS_EmptySet
<1>10. /\ s.b \in 0 .. MaxOffset /\ x.b <= s.b /\ HoleList(s.holes, x)
       /\ \A h \in s.holes : h.e <= s.b
       /\ \A o \in Nat : x.b <= o /\ o < s.b /\ o < x.e => (In(s.holes, o) <=> ~ In(L, o))
  BY <1>7, <1>8 DEF Inverting
<1>11. \A o \in Nat : In(s.holes, o) => Within(x, o) /\ o < s.b
  BY <1>10, ReadPathAssumption DEF In, Within, HoleList, Extents
<1>12. CASE s.b < x.e
  <2>1. H = s.holes \cup {Extent(s.b, x.e)}
    BY <1>3, <1>8, <1>12
  <2>2. s.b \in Nat /\ x.e \in Nat /\ x.e <= x.e
    BY <1>10, ReadPathAssumption
  <2>3. /\ HoleList(H, x)
        /\ \A o \in Nat : In(H, o) <=> In(s.holes, o) \/ (s.b <= o /\ o < x.e)
    <3>1. PICK R, b, e : R = s.holes /\ b = s.b /\ e = x.e
      OBVIOUS
    <3>2. /\ HoleList(R, x) /\ \A h \in R : h.e <= b
          /\ b \in Nat /\ e \in Nat /\ x.b <= b /\ b < e /\ e <= x.e
      BY <1>10, <1>12, <2>2, <3>1
    <3>3. /\ HoleList(R \cup {Extent(b, e)}, x)
          /\ \A o \in Nat : In(R \cup {Extent(b, e)}, o) <=> In(R, o) \/ (b <= o /\ o < e)
      BY <3>2, MoreHoles
    <3> QED
      BY <2>1, <3>1, <3>3
  <2>4. s.left = {}
    BY <1>9, <1>12, <2>2
  <2>5. ASSUME NEW o \in Nat, s.b <= o PROVE ~ In(L, o)
    <3>1. \A z \in L : z.e <= s.b /\ z.e \in Nat
      BY <1>7, <1>8, <2>4 DEF Inverting, List, Extents
    <3> QED
      BY <2>2, <2>5, <3>1 DEF In, Within
  <2>6. ASSUME NEW o \in Nat PROVE In(H, o) <=> Within(x, o) /\ ~ In(L, o)
    <3>1. CASE o < s.b
      BY <1>10, <1>11, <2>2, <2>3, <3>1 DEF Within
    <3>2. CASE ~ o < s.b
      BY <1>10, <2>2, <2>3, <2>5, <1>11, <3>2 DEF Within
    <3> QED
      BY <3>1, <3>2
  <2> QED
    BY <2>3, <2>6
<1>13. CASE ~ s.b < x.e
  <2>1. H = s.holes
    BY <1>3, <1>8, <1>13
  <2>2. ASSUME NEW o \in Nat PROVE In(H, o) <=> Within(x, o) /\ ~ In(L, o)
    <3>1. Within(x, o) => x.b <= o /\ o < s.b /\ o < x.e
      BY <1>10, <1>13, ReadPathAssumption DEF Within
    <3> QED
      BY <1>10, <1>11, <2>1, <3>1
  <2> QED
    BY <1>10, <2>1, <2>2
<1> QED
  BY <1>12, <1>13

-----------------------------------------------------------------------------
(* The walk along two lists.                                               *)

LEMMA IntersectionLoop ==
    ASSUME NEW L, NEW R, NEW N \in Nat, N = Cardinality(L) + Cardinality(R)
    PROVE  \E f : /\ IntersectionOf(L, R) = f[N].result
                  /\ Loop(f, "intersection", 0, [l |-> L, r |-> R, result |-> {}], N)
<1>1. PICK s0 : s0 = [l |-> L, r |-> R, result |-> {}]
  OBVIOUS
<1> DEFINE Walks(g) == g = [n \in 0 .. N |-> IF n = 0 THEN s0 ELSE IntersectionStep(g[n - 1])]
<1>2. \A g : Loop(g, "intersection", 0, s0, N) <=> Walks(g)
  BY DEF Loop, Turn
<1>3. PICK f : f = CHOOSE g : Walks(g)
  OBVIOUS
<1>4. IntersectionOf(L, R) = f[N].result
  BY <1>1, <1>3 DEF IntersectionOf
<1> HIDE DEF Walks
<1>5. Loop(f, "intersection", 0, s0, N)
  BY <1>2, <1>3, LoopExists
<1> QED
  BY <1>1, <1>4, <1>5

\* With no more than n turns to come: the common bytes are in the result, or
\* still ahead in both.
Walking(s, L, R, n) ==
    /\ s.l \subseteq L /\ IsFiniteSet(s.l) /\ s.r \subseteq R /\ IsFiniteSet(s.r)
    /\ s.l = {} \/ s.r = {} \/ Cardinality(s.l) + Cardinality(s.r) <= n
    /\ \A p \in s.result : \E x \in L, y \in R : p = Intersection(x, y)
    /\ \A o \in Nat : In(s.result, o) \/ (In(s.l, o) /\ In(s.r, o)) <=> In(L, o) /\ In(R, o)

LEMMA IntersectionHas ==
    ASSUME NEW x, x.b \in Nat, x.e \in Nat, NEW y, y.b \in Nat, y.e \in Nat
    PROVE  /\ Intersection(x, y).b \in Nat /\ Intersection(x, y).e \in Nat
           /\ x.b <= Intersection(x, y).b /\ y.b <= Intersection(x, y).b
           /\ Intersection(x, y).e <= x.e /\ Intersection(x, y).e <= y.e
           /\ \A o \in Nat : Within(Intersection(x, y), o) <=> Within(x, o) /\ Within(y, o)
<1>1. PICK p : p = Intersection(x, y)
  OBVIOUS
<1>2. p.b = (IF x.b < y.b THEN y.b ELSE x.b) /\ p.e = (IF x.e < y.e THEN x.e ELSE y.e)
  BY <1>1 DEF Intersection, Extent
<1>3. p.b \in Nat /\ p.e \in Nat /\ x.b <= p.b /\ y.b <= p.b /\ p.e <= x.e /\ p.e <= y.e
  BY <1>2
<1>4. \A o \in Nat : Within(p, o) <=> Within(x, o) /\ Within(y, o)
  BY <1>2 DEF Within
<1> QED
  BY <1>1, <1>3, <1>4

\* Cardinality of a set of which an element may have been left behind.
LEMMA LeftBehind ==
    ASSUME NEW S, IsFiniteSet(S), NEW x \in S, NEW b \in BOOLEAN,
           NEW T, T = IF b THEN S \ {x} ELSE S
    PROVE  /\ T \subseteq S /\ IsFiniteSet(T) /\ Cardinality(T) \in Nat /\ Cardinality(S) \in Nat
           /\ Cardinality(T) = IF b THEN Cardinality(S) - 1 ELSE Cardinality(S)
  BY FS_RemoveElement, FS_CardinalityType

LEMMA WalkTurn ==
    ASSUME NEW L, List(L), NEW R, List(R), NEW N \in Nat, NEW n \in 0 .. N, n # 0,
           NEW s, Walking(s, L, R, N - (n - 1)), NEW t, t = IntersectionStep(s)
    PROVE  Walking(t, L, R, N - n)
<1>1. CASE s.l = {} \/ s.r = {}
  <2>1. t = s
    BY <1>1 DEF IntersectionStep
  <2> QED
    BY <1>1, <2>1 DEF Walking
<1>2. CASE s.l # {} /\ s.r # {}
  <2>1. PICK x, y : x = First(s.l) /\ y = First(s.r)
    OBVIOUS
  <2>2. PICK l, r : l = s.l /\ r = s.r
    OBVIOUS
  <2>3. l \subseteq L /\ IsFiniteSet(l) /\ r \subseteq R /\ IsFiniteSet(r) /\ l # {} /\ r # {}
    BY <1>2, <2>2 DEF Walking
  <2>4. /\ x \in l /\ x \in L /\ \A w \in l : x.b <= w.b
        /\ y \in r /\ y \in R /\ \A w \in r : y.b <= w.b
    <3>1. (\A w \in l : w.b \in Nat) /\ (\A w \in r : w.b \in Nat)
      BY <2>3 DEF List, Extents
    <3>2. x = First(l) /\ y = First(r)
      BY <2>1, <2>2
    <3>3. x \in l /\ \A w \in l : x.b <= w.b
      BY <2>3, <3>1, <3>2, FirstOf
    <3>4. y \in r /\ \A w \in r : y.b <= w.b
      BY <2>3, <3>1, <3>2, FirstOf
    <3> QED
      BY <2>3, <3>3, <3>4
  <2>5. /\ x.b \in Nat /\ x.e \in Nat /\ x.b <= x.e
        /\ y.b \in Nat /\ y.e \in Nat /\ y.b <= y.e
    BY <2>4, ReadPathAssumption DEF List, Extents
  <2>6. PICK p : p = Intersection(x, y)
    OBVIOUS
  <2>7. /\ t.l = IF x.e <= y.e THEN l \ {x} ELSE l
        /\ t.r = IF y.e <= x.e THEN r \ {y} ELSE r
        /\ t.result = IF x.e <= y.b \/ y.e <= x.b THEN s.result ELSE s.result \cup {p}
    BY <1>2, <2>1, <2>2, <2>6 DEF IntersectionStep
  <2>8. PICK tl, tr : tl = t.l /\ tr = t.r
    OBVIOUS
  <2>9. /\ tl \subseteq l /\ IsFiniteSet(tl) /\ Cardinality(tl) \in Nat /\ Cardinality(l) \in Nat
        /\ Cardinality(tl) = IF x.e <= y.e THEN Cardinality(l) - 1 ELSE Cardinality(l)
    <3>1. PICK b \in BOOLEAN : b <=> x.e <= y.e
      OBVIOUS
    <3>2. tl = IF b THEN l \ {x} ELSE l
      BY <2>7, <2>8, <3>1
    <3>3. /\ tl \subseteq l /\ IsFiniteSet(tl) /\ Cardinality(tl) \in Nat /\ Cardinality(l) \in Nat
          /\ Cardinality(tl) = IF b THEN Cardinality(l) - 1 ELSE Cardinality(l)
      BY <2>3, <2>4, <3>2, LeftBehind
    <3> QED
      BY <3>1, <3>3
  <2>10. /\ tr \subseteq r /\ IsFiniteSet(tr) /\ Cardinality(tr) \in Nat /\ Cardinality(r) \in Nat
         /\ Cardinality(tr) = IF y.e <= x.e THEN Cardinality(r) - 1 ELSE Cardinality(r)
    <3>1. PICK b \in BOOLEAN : b <=> y.e <= x.e
      OBVIOUS
    <3>2. tr = IF b THEN r \ {y} ELSE r
      BY <2>7, <2>8, <3>1
    <3>3. /\ tr \subseteq r /\ IsFiniteSet(tr) /\ Cardinality(tr) \in Nat /\ Cardinality(r) \in Nat
          /\ Cardinality(tr) = IF b THEN Cardinality(r) - 1 ELSE Cardinality(r)
      BY <2>3, <2>4, <3>2, LeftBehind
    <3> QED
      BY <3>1, <3>3
  <2>11. Cardinality(tl) + Cardinality(tr) <= N - n
    <3>1. Cardinality(l) + Cardinality(r) <= N - (n - 1)
      <4>1. s.l = {} \/ s.r = {} \/ Cardinality(s.l) + Cardinality(s.r) <= N - (n - 1)
        BY DEF Walking
      <4> QED
        BY <1>2, <2>2, <4>1
    <3>2. x.e <= y.e \/ y.e <= x.e
      BY <2>5
    <3> QED
      BY <2>9, <2>10, <3>1, <3>2
  <2>12. \A q \in t.result : \E z \in L, w \in R : q = Intersection(z, w)
    BY <2>4, <2>6, <2>7 DEF Walking
  <2>13. \A o \in Nat : In(t.result, o) <=> In(s.result, o) \/ (Within(x, o) /\ Within(y, o))
    <3>1. \A o \in Nat : Within(p, o) <=> Within(x, o) /\ Within(y, o)
      BY <2>5, <2>6, IntersectionHas
    <3>2. CASE x.e <= y.b \/ y.e <= x.b
      <4>1. \A o \in Nat : ~ (Within(x, o) /\ Within(y, o))
        BY <2>5, <3>2 DEF Within
      <4> QED
        BY <2>7, <3>2, <4>1
    <3>3. CASE ~ (x.e <= y.b \/ y.e <= x.b)
      <4>1. t.result = s.result \cup {p}
        BY <2>7, <3>3
      <4> QED
        BY <3>1, <4>1 DEF In
    <3> QED
      BY <3>2, <3>3
  \* The one that is left behind has no byte in common with the rest of the other list.
  <2>14. ASSUME NEW o \in Nat
         PROVE  In(l, o) /\ In(r, o) <=> (In(tl, o) /\ In(tr, o)) \/ (Within(x, o) /\ Within(y, o))
    <3>1. ASSUME NEW w \in r, w # y, x.e <= y.e PROVE ~ (Within(x, o) /\ Within(w, o))
      <4>1. w.b \in Nat /\ w.e \in Nat /\ w.b <= w.e /\ y.b <= w.b
        BY <2>3, <2>4, <3>1, ReadPathAssumption DEF List, Extents
      <4>2. y.e < w.b \/ w.e < y.b
        BY <2>3, <2>4, <3>1 DEF List, Apart
      <4> QED
        BY <2>5, <3>1, <4>1, <4>2 DEF Within
    <3>2. ASSUME NEW w \in l, w # x, y.e <= x.e PROVE ~ (Within(y, o) /\ Within(w, o))
      <4>1. w.b \in Nat /\ w.e \in Nat /\ w.b <= w.e /\ x.b <= w.b
        BY <2>3, <2>4, <3>2, ReadPathAssumption DEF List, Extents
      <4>2. x.e < w.b \/ w.e < x.b
        BY <2>3, <2>4, <3>2 DEF List, Apart
      <4> QED
        BY <2>5, <3>2, <4>1, <4>2 DEF Within
    <3>3. ASSUME In(l, o), In(r, o), ~ (Within(x, o) /\ Within(y, o))
          PROVE  In(tl, o) /\ In(tr, o)
      <4>1. PICK z \in l, w \in r : Within(z, o) /\ Within(w, o)
        BY <3>3 DEF In
      <4>2. z \in tl
        BY <2>4, <2>7, <2>8, <3>1, <3>3, <4>1
      <4>3. w \in tr
        BY <2>4, <2>7, <2>8, <3>2, <3>3, <4>1
      <4> QED
        BY <4>1, <4>2, <4>3 DEF In
    <3>4. (In(tl, o) => In(l, o)) /\ (In(tr, o) => In(r, o))
      BY <2>9, <2>10 DEF In
    <3>5. Within(x, o) /\ Within(y, o) => In(l, o) /\ In(r, o)
      BY <2>4 DEF In
    <3> QED
      BY <3>3, <3>4, <3>5
  <2>15. \A o \in Nat : In(t.result, o) \/ (In(tl, o) /\ In(tr, o)) <=> In(L, o) /\ In(R, o)
    <3>1. \A o \in Nat : In(s.result, o) \/ (In(l, o) /\ In(r, o)) <=> In(L, o) /\ In(R, o)
      BY <2>2 DEF Walking
    <3> QED
      BY <2>13, <2>14, <3>1
  <2>16. tl \subseteq L /\ tr \subseteq R
    BY <2>3, <2>9, <2>10
  <2>17. /\ t.l \subseteq L /\ IsFiniteSet(t.l) /\ t.r \subseteq R /\ IsFiniteSet(t.r)
         /\ Cardinality(t.l) + Cardinality(t.r) <= N - n
    BY <2>8, <2>9, <2>10, <2>11, <2>16
  <2>18. \A o \in Nat : In(t.result, o) \/ (In(t.l, o) /\ In(t.r, o)) <=> In(L, o) /\ In(R, o)
    BY <2>8, <2>15
  <2> QED
    BY <2>12, <2>17, <2>18 DEF Walking
<1> QED
  BY <1>1, <1>2

\* intersection (extent_list.hpp:100-136) gives the bytes that both lists have,
\* none of them twice.
LEMMA IntersectionIs ==
    ASSUME NEW L, List(L), NEW R, List(R), NEW B, B = IntersectionOf(L, R)
    PROVE  /\ \A o \in Nat : In(B, o) <=> In(L, o) /\ In(R, o)
           /\ \A p, q \in B : p # q => ~ Overlaps(p, q)
<1>1. IsFiniteSet(L) /\ IsFiniteSet(R) /\ Cardinality(L) \in Nat /\ Cardinality(R) \in Nat
  BY FS_CardinalityType DEF List
<1>2. PICK N \in Nat : N = Cardinality(L) + Cardinality(R)
  BY <1>1
<1>3. PICK s0 : s0 = [l |-> L, r |-> R, result |-> {}]
  OBVIOUS
<1>4. PICK f : B = f[N].result /\ Loop(f, "intersection", 0, s0, N)
  BY <1>2, <1>3, IntersectionLoop
<1>5. f[0] = s0 /\ \A n \in 0 .. N : n # 0 => f[n] = Turn("intersection", 0, f[n - 1])
  BY <1>4, LoopTurns
<1>6. Walking(f[0], L, R, N - 0)
  <2>1. s0.l = L /\ s0.r = R /\ s0.result = {}
    BY <1>3
  <2>2. \A o \in Nat : ~ In({}, o)
    BY DEF In
  <2> QED
    BY <1>1, <1>2, <1>5, <2>1, <2>2 DEF Walking
<1>7. ASSUME NEW n \in 0 .. N, n # 0, Walking(f[n - 1], L, R, N - (n - 1))
      PROVE  Walking(f[n], L, R, N - n)
  <2>1. f[n] = IntersectionStep(f[n - 1])
    BY <1>5, <1>7 DEF Turn
  <2> QED
    BY <1>7, <2>1, WalkTurn
<1>8. Walking(f[N], L, R, N - N)
  <2> DEFINE G == {n \in 0 .. N : Walking(f[n], L, R, N - n)}
  <2>1. 0 \in G
    BY <1>6
  <2>2. ASSUME NEW n \in 0 .. N, n # 0, n - 1 \in G PROVE n \in G
    BY <1>7, <2>2
  <2>3. N \in G => Walking(f[N], L, R, N - N)
    OBVIOUS
  <2> HIDE DEF G
  <2>4. N \in 0 .. N
    OBVIOUS
  <2> QED
    BY <2>1, <2>2, <2>3, <2>4, UpTo
<1>9. PICK l, r : l = f[N].l /\ r = f[N].r
  OBVIOUS
<1>10. l = {} \/ r = {}
  <2>1. /\ IsFiniteSet(l) /\ IsFiniteSet(r)
        /\ l = {} \/ r = {} \/ Cardinality(l) + Cardinality(r) <= 0
    BY <1>1, <1>2, <1>8, <1>9 DEF Walking
  <2>2. Cardinality(l) \in Nat /\ Cardinality(r) \in Nat
    BY <2>1, FS_CardinalityType
  <2>3. l = {} \/ r = {} \/ Cardinality(l) = 0
    BY <2>1, <2>2
  <2> QED
    BY <2>1, <2>3, FS_EmptySet
<1>11. \A o \in Nat : In(B, o) <=> In(L, o) /\ In(R, o)
  <2>1. \A o \in Nat : In(B, o) \/ (In(l, o) /\ In(r, o)) <=> In(L, o) /\ In(R, o)
    BY <1>4, <1>8, <1>9 DEF Walking
  <2>2. \A o \in Nat : ~ (In(l, o) /\ In(r, o))
    BY <1>10 DEF In
  <2> QED
    BY <2>1, <2>2
<1>12. ASSUME NEW p \in B, NEW q \in B, p # q PROVE ~ Overlaps(p, q)
  <2>1. PICK x \in L, y \in R : p = Intersection(x, y)
    BY <1>4, <1>8 DEF Walking
  <2>2. PICK z \in L, w \in R : q = Intersection(z, w)
    BY <1>4, <1>8 DEF Walking
  <2>3. /\ x.b \in Nat /\ x.e \in Nat /\ y.b \in Nat /\ y.e \in Nat
        /\ z.b \in Nat /\ z.e \in Nat /\ w.b \in Nat /\ w.e \in Nat
    BY <2>1, <2>2, ReadPathAssumption DEF List, Extents
  <2>4. /\ p.b \in Nat /\ p.e \in Nat /\ q.b \in Nat /\ q.e \in Nat
        /\ x.b <= p.b /\ y.b <= p.b /\ p.e <= x.e /\ p.e <= y.e
        /\ z.b <= q.b /\ w.b <= q.b /\ q.e <= z.e /\ q.e <= w.e
    BY <2>1, <2>2, <2>3, IntersectionHas
  <2>5. x # z \/ y # w
    BY <1>12, <2>1, <2>2
  <2>6. x.e < z.b \/ z.e < x.b \/ y.e < w.b \/ w.e < y.b
    BY <2>1, <2>2, <2>5 DEF List, Apart
  <2> QED
    BY <2>3, <2>4, <2>6 DEF Overlaps
<1> QED
  BY <1>11, <1>12

-----------------------------------------------------------------------------
(* The inductive invariant.                                                *)

\* The Get of a byte, and whether the pair of a hole and a node is still ahead.
Wanted(o) == [ofs |-> o, loc |-> Found(o)]

Todo(h, m) == hole_it # End /\ global_it # End /\ hole_it.b <= h.b /\ global_it.b <= m.b

\* Of a hole that the file phase has left behind.
Filled(x) ==
    \A o \in InRequest : Within(x, o) /\ Found(o) = Hole =>
        /\ x.e <= fsize => buf[o] = FileByte
        /\ fsize <= o /\ o < TreesEnd => buf[o] = Zero

Types ==
    /\ local \in LocalTrees /\ global \in GlobalTrees
    /\ fsize \in 0 .. MaxOffset
    /\ req.b \in 0 .. MaxOffset /\ req.e \in 0 .. MaxOffset /\ req.b <= req.e
    /\ pc \in {"local", "remote", "file", "flush", "done", "threw", "crashed"}
    /\ buf = [o \in Offsets |-> buf[o]]
    /\ List(el)

AtFirst == pc = "local" => el = {} /\ gets = {} /\ buf = [o \in Offsets |-> Unset]

\* What was found is what some tree knows, and it is in the buffer or comes.
Fetching ==
    /\ \A o \in Offsets : In(el, o) =>
          /\ Within(req, o) /\ Found(o) # Hole
          /\ buf[o] = Ring(Found(o)) \/ Wanted(o) \in gets
    /\ \A g \in gets : \E o \in Offsets : g = Wanted(o) /\ In(el, o) /\ buf[o] = Unset

AllFound ==
    pc \notin {"local", "remote"} => \A o \in InRequest : Found(o) # Hole => In(el, o)

\* In the loop over the holes and the global tree.
InRemote ==
    pc = "remote" =>
        /\ HoleList(hole_el, req)
        /\ \A o \in Offsets : In(hole_el, o) <=> Within(req, o) /\ LocationOf(local, o) = Hole
        /\ \A o \in InRequest : LocationOf(local, o) # Hole => In(el, o)
        /\ hole_it \in hole_el \cup {End} /\ global_it \in global \cup {End}
        /\ \A h \in hole_el, m \in global : \A o \in Offsets :
              Within(h, o) /\ Covers(m, o) => (In(el, o) <=> ~ Todo(h, m))
        /\ \A o \in InRequest : ~ In(el, o) => buf[o] = Unset
        /\ eof = TreesEnd

\* In the loop over the holes and the file.
InFile ==
    pc = "file" =>
        /\ HoleList(hole_el, req)
        /\ \A o \in Offsets : In(hole_el, o) <=> Within(req, o) /\ Found(o) = Hole
        /\ hole_it \in hole_el \cup {End}
        /\ \A x \in hole_el : hole_it = End \/ x.b < hole_it.b => Filled(x)
        /\ eof = TreesEnd

AtLast ==
    /\ pc \in {"flush", "done"} =>
          /\ \A x \in hole_el : Filled(x)
          /\ fsize <= TreesEnd /\ req.b <= TreesEnd =>
                ret = (IF req.e < TreesEnd THEN req.e ELSE TreesEnd) - req.b
    /\ pc = "done" => gets = {}

IInv == Types /\ AtFirst /\ Fetching /\ AllFound /\ InRemote /\ InFile /\ AtLast

-----------------------------------------------------------------------------
(* Trees and buffers.                                                      *)

LEMMA TreesAre ==
    ASSUME NEW T \in LocalTrees \cup GlobalTrees
    PROVE  /\ Tree(T) /\ IsFiniteSet(T)
           /\ \A m \in T : m.b \in Offsets /\ m.e \in 0 .. MaxOffset /\ m.b < m.e
<1>1. /\ IsFiniteSet(T) /\ Disjoint(T) /\ NonEmpty(T)
      /\ T \subseteq [b : Offsets, e : 0 .. MaxOffset, ptr : Nat, client : Nat]
  BY ReadPathAssumption
<1>2. ASSUME NEW m \in T
      PROVE  m \in TreeNodes /\ m.b \in Offsets /\ m.e \in 0 .. MaxOffset
  <2>1. m \in [b : Offsets, e : 0 .. MaxOffset, ptr : Nat, client : Nat]
    BY <1>1
  <2> QED
    BY <2>1, ReadPathAssumption DEF TreeNodes, Offsets
<1> QED
  BY <1>1, <1>2 DEF Tree, NonEmpty

LEMMA HitAll ==
    ASSUME NEW T, Tree(T), NEW v, IsExtent(v)
    PROVE  Hit(T, Find(T, v), v) = Sharing(T, v)
<1>1. PICK it : it = Find(T, v)
  OBVIOUS
<1>2. it = First(Sharing(T, v))
  BY <1>1, FindReturnsFirst DEF Sharing
<1>3. CASE Sharing(T, v) = {}
  <2>1. it = End
    BY <1>2, <1>3 DEF First
  <2> QED
    BY <1>1, <1>3, <2>1 DEF Hit
<1>4. CASE Sharing(T, v) # {}
  <2>1. Sharing(T, v) \subseteq TreeNodes
    BY DEF Sharing, Tree
  <2>2. it \in Sharing(T, v) /\ \A k \in Sharing(T, v) : it.b <= k.b
    BY <1>2, <1>4, <2>1, FirstIs
  <2>3. it # End /\ Overlaps(it, v)
    BY <2>1, <2>2, EndIsNoNode DEF Sharing
  <2>4. ASSUME NEW m \in T, Overlaps(m, v) PROVE m.b >= it.b
    <3>1. m \in Sharing(T, v)
      BY <2>4 DEF Sharing
    <3>2. m \in TreeNodes /\ it \in TreeNodes /\ it.b <= m.b
      BY <2>1, <2>2, <3>1
    <3> QED
      BY <3>2 DEF TreeNodes
  <2>5. Hit(T, it, v) = {m \in T : m.b >= it.b /\ Overlaps(m, v)}
    BY <2>3 DEF Hit
  <2>6. Hit(T, it, v) = Sharing(T, v)
    BY <2>4, <2>5 DEF Sharing
  <2> QED
    BY <1>1, <2>6
<1> QED
  BY <1>3, <1>4

\* The last of a set of extents.
LEMMA BackOf ==
    ASSUME NEW L, L # {}, \A x \in L : x.b \in 0 .. MaxOffset
    PROVE  Back(L) \in L /\ \A x \in L : x.b <= Back(L).b
<1> DEFINE S == {MaxOffset - x.b : x \in L}
<1>1. S \in SUBSET Nat /\ S # {}
  BY ReadPathAssumption
<1>2. PICK n \in S : \A k \in S : n <= k
  BY <1>1, SmallestExists
<1>3. PICK x \in L : MaxOffset - x.b = n
  OBVIOUS
<1>4. ASSUME NEW y \in L PROVE y.b <= x.b
  <2>1. n <= MaxOffset - y.b
    BY <1>2
  <2> QED
    BY <1>3, <2>1, ReadPathAssumption
<1> QED
  BY <1>4 DEF Back

LEMMA BackEndIs ==
    ASSUME NEW T \in LocalTrees \cup GlobalTrees
    PROVE  BackEnd(T) \in 0 .. MaxOffset /\ \A m \in T : m.e <= BackEnd(T)
<1>1. /\ Tree(T)
      /\ \A m \in T : m.b \in Offsets /\ m.e \in 0 .. MaxOffset /\ m.b < m.e
  BY TreesAre
<1>2. CASE T = {}
  BY <1>2, ReadPathAssumption DEF BackEnd
<1>3. CASE T # {}
  <2>1. \A m \in T : m.b \in 0 .. MaxOffset
    BY <1>1, ReadPathAssumption DEF Offsets
  <2>2. Back(T) \in T /\ \A m \in T : m.b <= Back(T).b
    BY <1>3, <2>1, BackOf
  <2>3. BackEnd(T) = Back(T).e
    BY <1>3 DEF BackEnd
  <2>4. ASSUME NEW m \in T PROVE m.e <= Back(T).e
    <3>1. m = Back(T) \/ ~ Overlaps(m, Back(T))
      BY <1>1, <2>2 DEF Tree, Disjoint
    <3> QED
      BY <1>1, <2>2, <3>1, ReadPathAssumption DEF Overlaps, Offsets
  <2> QED
    BY <1>1, <2>2, <2>3, <2>4
<1> QED
  BY <1>2, <1>3

\* The next of a set of extents.
LEMMA NextIs ==
    ASSUME NEW T, \A x \in T : x.b \in Nat, NEW x \in T
    PROVE  /\ NextOf(T, x) \in T \cup {End}
           /\ NextOf(T, x) # End => NextOf(T, x).b > x.b
           /\ \A y \in T : y.b > x.b => NextOf(T, x) # End /\ NextOf(T, x).b <= y.b
<1> DEFINE S == {y \in T : y.b > x.b}
<1>1. NextOf(T, x) = First(S)
  BY DEF NextOf
<1>2. CASE S = {}
  BY <1>1, <1>2 DEF First
<1>3. CASE S # {}
  <2>1. First(S) \in S /\ \A y \in S : First(S).b <= y.b
    BY <1>3, FirstOf
  <2>2. First(S) # End
    <3>1. First(S).b \in Nat
      BY <2>1
    <3> QED
      BY <3>1 DEF End
  <2> QED
    BY <1>1, <2>1, <2>2
<1> QED
  BY <1>2, <1>3

\* Extents with bytes that share none begin at different places.
LEMMA OneBegin ==
    ASSUME NEW T, Disjoint(T), NonEmpty(T), \A x \in T : x.b \in Nat /\ x.e \in Nat,
           NEW x \in T, NEW y \in T
    PROVE  x = y \/ x.e <= y.b \/ y.e <= x.b
<1>1. x = y \/ ~ Overlaps(x, y)
  BY DEF Disjoint
<1>2. x.b < x.e /\ y.b < y.e
  BY DEF NonEmpty
<1> QED
  BY <1>1, <1>2 DEF Overlaps

LEMMA FillIs ==
    ASSUME NEW bytes, NEW o \in Offsets
    PROVE  /\ (\A g \in bytes : g.ofs # o) => Fill(bytes)[o] = buf[o]
           /\ (\E g \in bytes : g.ofs = o) /\ (\A g \in bytes : g.ofs = o => g = Wanted(o))
              => Fill(bytes)[o] = Ring(Found(o))
<1>1. Fill(bytes)[o] = IF \E g \in bytes : g.ofs = o
                       THEN Ring((CHOOSE g \in bytes : g.ofs = o).loc) ELSE buf[o]
  BY DEF Fill
<1>2. ASSUME \E g \in bytes : g.ofs = o, \A g \in bytes : g.ofs = o => g = Wanted(o)
      PROVE  Fill(bytes)[o] = Ring(Found(o))
  <2>1. PICK g : g = CHOOSE h \in bytes : h.ofs = o
    OBVIOUS
  <2>2. g \in bytes /\ g.ofs = o
    BY <1>2, <2>1
  <2>3. g.loc = Found(o)
    BY <1>2, <2>2 DEF Wanted
  <2> QED
    BY <1>1, <1>2, <2>1, <2>3
<1> QED
  BY <1>1, <1>2

LEMMA FillFills ==
    ASSUME NEW bytes
    PROVE  Fill(bytes) = [o \in Offsets |-> Fill(bytes)[o]]
  BY DEF Fill

\* What the trees say, in the types of the invariant.
LEMMA GivenAre ==
    ASSUME Types
    PROVE  /\ Tree(local) /\ Tree(global) /\ IsFiniteSet(local) /\ IsFiniteSet(global)
           /\ IsExtent(req)
           /\ \A m \in local \cup global :
                 m.b \in Offsets /\ m.e \in 0 .. MaxOffset /\ m.b < m.e
           /\ TreesEnd \in 0 .. MaxOffset
           /\ \A o \in Offsets : Found(o) # Hole => o < TreesEnd
           /\ \A o \in Offsets : o \in Nat /\ o < MaxOffset
<1>1. local \in LocalTrees \cup GlobalTrees /\ global \in LocalTrees \cup GlobalTrees
  BY DEF Types
<1>2. /\ Tree(local) /\ Tree(global) /\ IsFiniteSet(local) /\ IsFiniteSet(global)
      /\ \A m \in local \cup global : m.b \in Offsets /\ m.e \in 0 .. MaxOffset /\ m.b < m.e
  BY <1>1, TreesAre
<1>3. IsExtent(req)
  BY ReadPathAssumption DEF Types, IsExtent
<1>4. /\ BackEnd(local) \in 0 .. MaxOffset /\ \A m \in local : m.e <= BackEnd(local)
      /\ BackEnd(global) \in 0 .. MaxOffset /\ \A m \in global : m.e <= BackEnd(global)
  BY <1>1, BackEndIs
<1>5. TreesEnd \in 0 .. MaxOffset
  BY <1>4 DEF TreesEnd
<1>6. \A o \in Offsets : o \in Nat /\ o < MaxOffset
  BY ReadPathAssumption DEF Offsets
<1>7. ASSUME NEW o \in Offsets, Found(o) # Hole PROVE o < TreesEnd
  <2>1. PICK m \in local \cup global : Covers(m, o)
    BY <1>7, HoleIs DEF Found
  <2>2. m.e <= BackEnd(local) \/ m.e <= BackEnd(global)
    BY <1>4
  <2>3. o < m.e /\ m.e \in 0 .. MaxOffset
    BY <1>2, <2>1 DEF Covers
  <2> QED
    BY <1>4, <1>6, <2>2, <2>3, ReadPathAssumption DEF TreesEnd
<1> QED
  BY <1>2, <1>3, <1>5, <1>6, <1>7

LEMMA GivenStays ==
    ASSUME UNCHANGED given
    PROVE  /\ local' = local /\ global' = global /\ fsize' = fsize /\ req' = req
           /\ \A o : Found(o)' = Found(o) /\ Wanted(o)' = Wanted(o)
           /\ TreesEnd' = TreesEnd
           /\ InRequest' = InRequest
<1>1. local' = local /\ global' = global /\ fsize' = fsize /\ req' = req
  BY DEF given
<1> QED
  BY <1>1 DEF Found, Wanted, TreesEnd, InRequest

\* A read that returns early returns what it owes.
LEMMA AllIsRight ==
    ASSUME Types, \A o \in InRequest : Found(o) # Hole, req.b <= TreesEnd
    PROVE  Size(req) = (IF req.e < TreesEnd THEN req.e ELSE TreesEnd) - req.b
<1>1. TreesEnd \in 0 .. MaxOffset /\ \A o \in Offsets : Found(o) # Hole => o < TreesEnd
  BY GivenAre
<1>2. req.b \in 0 .. MaxOffset /\ req.e \in 0 .. MaxOffset /\ req.b <= req.e
  BY DEF Types
<1>3. req.e <= TreesEnd
  <2>1. CASE req.b = req.e
    BY <2>1
  <2>2. CASE req.b # req.e
    <3>1. PICK o : o = req.e - 1
      OBVIOUS
    <3>2. o \in InRequest /\ o \in Offsets
      BY <1>2, <2>2, <3>1, ReadPathAssumption DEF InRequest, Offsets, Within
    <3>3. o < TreesEnd
      BY <1>1, <3>2
    <3> QED
      BY <1>1, <1>2, <3>1, <3>3
  <2> QED
    BY <2>1, <2>2
<1> QED
  BY <1>1, <1>2, <1>3 DEF Size

-----------------------------------------------------------------------------
(* The initial states and the local tree.                                  *)

LEMMA InitIInv == Init => IInv
<1> SUFFICES ASSUME Init PROVE IInv
  OBVIOUS
<1>1. req.b \in 0 .. MaxOffset /\ req.e \in 0 .. MaxOffset /\ req.b <= req.e
  BY DEF Init, Extent
<1>2. List({}) /\ \A o : ~ In({}, o)
  BY FS_EmptySet DEF List, Extents, Apart, In
<1>3. Types
  BY <1>1, <1>2 DEF Init, Types
<1> QED
  BY <1>2, <1>3 DEF Init, IInv, AtFirst, Fetching, AllFound, InRemote, InFile, AtLast

\* What the local tree's nodes have of the request.
LocalBytes == UNION {BytesOf(m, Intersection(m, req)) : m \in Sharing(local, req)}
LocalFound == {Intersection(m, req) : m \in Sharing(local, req)}

LEMMA LocalIs ==
    ASSUME Types
    PROVE  /\ Extents(LocalFound) /\ IsFiniteSet(LocalFound)
           /\ \A o \in Offsets :
                 In(LocalFound, o) <=> Within(req, o) /\ LocationOf(local, o) # Hole
           /\ \A g \in LocalBytes : \E o \in Offsets :
                 g = Wanted(o) /\ Within(req, o) /\ LocationOf(local, o) # Hole
           /\ \A o \in Offsets :
                 Within(req, o) /\ LocationOf(local, o) # Hole => Wanted(o) \in LocalBytes
<1>1. /\ Tree(local) /\ IsFiniteSet(local) /\ IsExtent(req)
      /\ \A m \in local : m.b \in Offsets /\ m.e \in 0 .. MaxOffset /\ m.b < m.e
      /\ \A o \in Offsets : o \in Nat /\ o < MaxOffset
  BY GivenAre
<1>2. req.b \in 0 .. MaxOffset /\ req.e \in 0 .. MaxOffset /\ req.b <= req.e
  BY DEF Types
<1>3. ASSUME NEW m \in Sharing(local, req)
      PROVE  /\ m \in local
             /\ Intersection(m, req).b \in Nat /\ Intersection(m, req).e \in 0 .. MaxOffset
             /\ Intersection(m, req).b <= Intersection(m, req).e
             /\ \A o \in Offsets :
                   Within(Intersection(m, req), o) <=> Covers(m, o) /\ Within(req, o)
  <2>1. m \in local /\ m.b < req.e /\ req.b < m.e
    BY DEF Sharing, Overlaps
  <2>2. m.b \in Nat /\ m.e \in 0 .. MaxOffset /\ m.b < m.e
    BY <1>1, <2>1
  <2>3. PICK p : p = Intersection(m, req)
    OBVIOUS
  <2>4. p.b = (IF m.b < req.b THEN req.b ELSE m.b) /\ p.e = (IF m.e < req.e THEN m.e ELSE req.e)
    BY <2>3 DEF Intersection, Extent
  <2>5. p.b \in Nat /\ p.e \in 0 .. MaxOffset /\ p.b <= p.e
    BY <1>2, <2>1, <2>2, <2>4, ReadPathAssumption
  <2>6. \A o \in Offsets : Within(p, o) <=> Covers(m, o) /\ Within(req, o)
    BY <1>1, <1>2, <2>2, <2>4, ReadPathAssumption DEF Within, Covers
  <2> QED
    BY <2>1, <2>3, <2>5, <2>6
<1>4. Extents(LocalFound)
  BY <1>3 DEF LocalFound, Extents
<1>5. IsFiniteSet(LocalFound)
  <2>1. IsFiniteSet(Sharing(local, req))
    <3>1. Sharing(local, req) \subseteq local
      BY DEF Sharing
    <3> QED
      BY <1>1, <3>1, FS_Subset
  <2>2. PICK S : S = Sharing(local, req)
    OBVIOUS
  <2>3. PICK f : f = [m \in S |-> Intersection(m, req)]
    OBVIOUS
  <2>4. f \in Surjection(S, LocalFound)
    BY <2>2, <2>3 DEF LocalFound, Surjection
  <2> QED
    BY <2>1, <2>2, <2>4, FS_Surjection
<1>6. ASSUME NEW m \in local, NEW o \in Offsets, Covers(m, o)
      PROVE  /\ LocationOf(local, o) = Location(m, o) /\ LocationOf(local, o) # Hole
             /\ Found(o) = Location(m, o)
  <2>1. LocationOf(local, o) = Location(m, o)
    BY <1>1, <1>6, LocationIs
  <2>2. LocationOf(local, o) # Hole
    BY <1>6, HoleIs
  <2> QED
    BY <2>1, <2>2 DEF Found
<1>7. ASSUME NEW m \in local, NEW o \in Offsets, Covers(m, o), Within(req, o)
      PROVE  m \in Sharing(local, req)
  BY <1>1, <1>2, <1>7, ReadPathAssumption DEF Sharing, Overlaps, Covers, Within
<1>8. ASSUME NEW o \in Offsets, LocationOf(local, o) # Hole
      PROVE  \E m \in local : Covers(m, o)
  BY <1>8, HoleIs
<1>9. ASSUME NEW o \in Offsets
      PROVE  In(LocalFound, o) <=> Within(req, o) /\ LocationOf(local, o) # Hole
  <2>1. ASSUME In(LocalFound, o) PROVE Within(req, o) /\ LocationOf(local, o) # Hole
    <3>1. PICK m \in Sharing(local, req) : Within(Intersection(m, req), o)
      BY <2>1 DEF In, LocalFound
    <3> QED
      BY <1>3, <1>6, <3>1
  <2>2. ASSUME Within(req, o), LocationOf(local, o) # Hole PROVE In(LocalFound, o)
    <3>1. PICK m \in local : Covers(m, o)
      BY <1>8, <2>2
    <3>2. m \in Sharing(local, req)
      BY <1>7, <2>2, <3>1
    <3>3. Within(Intersection(m, req), o)
      BY <1>3, <2>2, <3>1, <3>2
    <3> QED
      BY <3>2, <3>3 DEF In, LocalFound
  <2> QED
    BY <2>1, <2>2
<1>10. ASSUME NEW g \in LocalBytes
       PROVE  \E o \in Offsets : g = Wanted(o) /\ Within(req, o) /\ LocationOf(local, o) # Hole
  <2>1. PICK m \in Sharing(local, req) : g \in BytesOf(m, Intersection(m, req))
    BY DEF LocalBytes
  <2>2. PICK o \in Offsets : /\ Within(Intersection(m, req), o)
                             /\ g = [ofs |-> o, loc |-> Location(m, o)]
    BY <2>1 DEF BytesOf
  <2>3. m \in local /\ Covers(m, o) /\ Within(req, o)
    BY <1>3, <2>2
  <2>4. Found(o) = Location(m, o) /\ LocationOf(local, o) # Hole
    BY <1>6, <2>3
  <2>5. g = Wanted(o)
    BY <2>2, <2>4 DEF Wanted
  <2> QED
    BY <2>3, <2>4, <2>5
<1>11. ASSUME NEW o \in Offsets, Within(req, o), LocationOf(local, o) # Hole
       PROVE  Wanted(o) \in LocalBytes
  <2>1. PICK m \in local : Covers(m, o)
    BY <1>8, <1>11
  <2>2. m \in Sharing(local, req)
    BY <1>7, <1>11, <2>1
  <2>3. Within(Intersection(m, req), o)
    BY <1>3, <1>11, <2>1, <2>2
  <2>4. Wanted(o) = [ofs |-> o, loc |-> Location(m, o)]
    BY <1>6, <2>1 DEF Wanted
  <2>5. Wanted(o) \in BytesOf(m, Intersection(m, req))
    BY <2>3, <2>4 DEF BytesOf
  <2> QED
    BY <2>2, <2>5 DEF LocalBytes
<1> QED
  BY <1>4, <1>5, <1>9, <1>10, <1>11

\* What holds after the local tree has been read, wherever the read goes on.
LocalRead(list, holes) ==
    /\ pc = "local"
    /\ el' = list /\ hole_el' = holes /\ gets' = {}
    /\ UNCHANGED given
    /\ List(list) /\ HoleList(holes, req)
    /\ \A o \in Offsets : In(list, o) <=> Within(req, o) /\ LocationOf(local, o) # Hole
    /\ \A o \in Offsets : In(holes, o) <=> Within(req, o) /\ LocationOf(local, o) = Hole
    /\ buf' = [o \in Offsets |-> buf'[o]]
    /\ \A o \in Offsets : buf'[o] = IF In(list, o) THEN Ring(Found(o)) ELSE Unset

LEMMA ReadLocalReads ==
    ASSUME IInv, ReadLocal
    PROVE  \E list, holes :
              /\ LocalRead(list, holes)
              /\ IF holes = {} THEN ReturnAll /\ eof' = BackEnd(local)
                 ELSE IF global # {} THEN EnterRemote(holes, BackEnd(local))
                 ELSE EnterFile(holes) /\ eof' = BackEnd(local)
<1>1. Types /\ AtFirst
  BY DEF IInv
<1>2. /\ Tree(local) /\ IsExtent(req)
      /\ \A o \in Offsets : o \in Nat /\ o < MaxOffset
  BY <1>1, GivenAre
<1>3. Hit(local, Find(local, req), req) = Sharing(local, req)
  BY <1>2, HitAll
<1>4. PICK list : list = AddAll({}, LocalFound)
  OBVIOUS
<1>5. PICK holes : holes = InverseIn(list, req)
  OBVIOUS
<1>6. /\ pc = "local" /\ el' = list /\ hole_el' = holes /\ buf' = Fill(LocalBytes)
      /\ IF holes = {} THEN ReturnAll /\ eof' = BackEnd(local)
         ELSE IF global # {} THEN EnterRemote(holes, BackEnd(local))
         ELSE EnterFile(holes) /\ eof' = BackEnd(local)
      /\ UNCHANGED <<given, gets>>
  BY <1>3, <1>4, <1>5 DEF ReadLocal, LocalFound, LocalBytes
<1>7. gets = {} /\ buf = [o \in Offsets |-> Unset]
  BY <1>1, <1>6 DEF AtFirst
<1>8. /\ Extents(LocalFound) /\ IsFiniteSet(LocalFound)
      /\ \A o \in Offsets : In(LocalFound, o) <=> Within(req, o) /\ LocationOf(local, o) # Hole
      /\ \A g \in LocalBytes : \E o \in Offsets :
            g = Wanted(o) /\ Within(req, o) /\ LocationOf(local, o) # Hole
      /\ \A o \in Offsets :
            Within(req, o) /\ LocationOf(local, o) # Hole => Wanted(o) \in LocalBytes
  BY <1>1, LocalIs
<1>9. List(list) /\ \A o \in Nat : In(list, o) <=> In(LocalFound, o)
  BY <1>4, <1>8, AddAllIs
<1>10. req.b \in Nat /\ req.e \in 0 .. MaxOffset /\ req.b <= req.e
  BY <1>1, ReadPathAssumption DEF Types
<1>11. /\ HoleList(holes, req)
       /\ \A o \in Nat : In(holes, o) <=> Within(req, o) /\ ~ In(list, o)
  BY <1>5, <1>9, <1>10, InverseIs
<1>12. \A o \in Offsets : In(list, o) <=> Within(req, o) /\ LocationOf(local, o) # Hole
  BY <1>2, <1>8, <1>9
<1>13. \A o \in Offsets : In(holes, o) <=> Within(req, o) /\ LocationOf(local, o) = Hole
  BY <1>2, <1>11, <1>12
<1>14. ASSUME NEW o \in Offsets PROVE buf'[o] = IF In(list, o) THEN Ring(Found(o)) ELSE Unset
  <2>1. \A g \in LocalBytes : g.ofs = o => g = Wanted(o) /\ In(list, o)
    BY <1>8, <1>12 DEF Wanted
  <2>2. In(list, o) => Wanted(o) \in LocalBytes /\ Wanted(o).ofs = o
    BY <1>8, <1>12 DEF Wanted
  <2>3. /\ (\A g \in LocalBytes : g.ofs # o) => Fill(LocalBytes)[o] = buf[o]
        /\ (\E g \in LocalBytes : g.ofs = o) /\ (\A g \in LocalBytes : g.ofs = o => g = Wanted(o))
           => Fill(LocalBytes)[o] = Ring(Found(o))
    BY FillIs
  <2>4. CASE In(list, o)
    <3>1. \E g \in LocalBytes : g.ofs = o
      BY <2>2, <2>4
    <3> QED
      BY <1>6, <2>1, <2>3, <2>4, <3>1
  <2>5. CASE ~ In(list, o)
    <3>1. \A g \in LocalBytes : g.ofs # o
      BY <2>1, <2>5
    <3>2. buf[o] = Unset
      BY <1>7
    <3> QED
      BY <1>6, <2>3, <2>5, <3>1, <3>2
  <2> QED
    BY <2>4, <2>5
<1>15. buf' = [o \in Offsets |-> buf'[o]]
  BY <1>6, FillFills
<1>16. LocalRead(list, holes)
  BY <1>6, <1>7, <1>9, <1>11, <1>12, <1>13, <1>14, <1>15 DEF LocalRead
<1> QED
  BY <1>6, <1>16

LEMMA LocalReadKeeps ==
    ASSUME IInv, NEW list, NEW holes, LocalRead(list, holes),
           pc' \in {"remote", "file", "flush"}
    PROVE  Types' /\ AtFirst' /\ Fetching'
<1>1. /\ local' = local /\ global' = global /\ fsize' = fsize /\ req' = req
      /\ \A o : Found(o)' = Found(o) /\ Wanted(o)' = Wanted(o)
  BY GivenStays DEF LocalRead
<1>2. /\ local \in LocalTrees /\ global \in GlobalTrees
      /\ fsize \in 0 .. MaxOffset
      /\ req.b \in 0 .. MaxOffset /\ req.e \in 0 .. MaxOffset /\ req.b <= req.e
  BY DEF IInv, Types
<1>3. List(el')
  BY DEF LocalRead
<1>4. buf' = [o \in Offsets |-> buf'[o]]
  BY DEF LocalRead
<1>5. Types'
  BY <1>1, <1>2, <1>3, <1>4 DEF Types
<1>6. AtFirst'
  BY DEF AtFirst
<1>7. ASSUME NEW o \in Offsets, In(el', o)
      PROVE  Within(req, o) /\ Found(o) # Hole /\ buf'[o] = Ring(Found(o))
  <2>1. In(list, o)
    BY <1>7 DEF LocalRead
  <2> QED
    BY <2>1 DEF LocalRead, Found
<1>8. gets' = {}
  BY DEF LocalRead
<1>9. Fetching'
  BY <1>1, <1>7, <1>8 DEF Fetching, In, Within
<1> QED
  BY <1>5, <1>6, <1>9

LEMMA Returned ==
    ASSUME Types, UNCHANGED given, pc' = "flush", hole_el' = {}, ret' = Size(req),
           \A o \in InRequest : Found(o) # Hole
    PROVE  AtLast'
<1>1. fsize' = fsize /\ req' = req /\ TreesEnd' = TreesEnd
  BY GivenStays
<1>2. req.b <= TreesEnd => ret' = (IF req.e < TreesEnd THEN req.e ELSE TreesEnd) - req.b
  BY AllIsRight
<1> QED
  BY <1>1, <1>2 DEF AtLast

LEMMA EnteringFile ==
    ASSUME UNCHANGED given, pc' = "file", NEW holes, hole_el' = holes, HoleList(holes, req),
           \A o \in Offsets : In(holes, o) <=> Within(req, o) /\ Found(o) = Hole,
           hole_it' = First(holes), eof' = TreesEnd
    PROVE  InFile'
<1>1. /\ fsize' = fsize /\ req' = req /\ TreesEnd' = TreesEnd
      /\ \A o : Found(o)' = Found(o)
  BY GivenStays
<1>2. \A x \in holes : x.b \in Nat
  BY DEF HoleList, Extents
<1>3. First(holes) \in holes \cup {End} /\ (holes # {} => \A x \in holes : First(holes).b <= x.b)
  BY <1>2, FirstOf DEF First
<1>4. ASSUME NEW x \in holes PROVE ~ (First(holes) = End \/ x.b < First(holes).b)
  <2>1. First(holes) \in holes /\ First(holes).b <= x.b
    BY <1>2, FirstOf
  <2>2. First(holes).b \in Nat /\ x.b \in Nat
    BY <1>2, <2>1
  <2> QED
    BY <2>1, <2>2 DEF End
<1>5. HoleList(hole_el', req')
  BY <1>1
<1>6. \A o \in Offsets : In(hole_el', o) <=> Within(req', o) /\ Found(o)' = Hole
  BY <1>1
<1>7. hole_it' \in hole_el' \cup {End}
  BY <1>3
<1>8. \A x \in hole_el' : ~ (hole_it' = End \/ x.b < hole_it'.b)
  BY <1>4
<1> QED
  BY <1>1, <1>5, <1>6, <1>7, <1>8 DEF InFile, HoleList, Extents, In, Within

\* The first node of the global tree that the walk along the holes begins at.
LEMMA OuterFinds ==
    ASSUME Types, NEW holes, holes # {}, HoleList(holes, req)
    PROVE  /\ Find(global, OuterExtent(holes)) \in global \cup {End}
           /\ \A h \in holes, m \in global : \A o \in Offsets :
                 Within(h, o) /\ Covers(m, o) =>
                     /\ Find(global, OuterExtent(holes)) # End
                     /\ Find(global, OuterExtent(holes)).b <= m.b
<1>1. PICK x : x = OuterExtent(holes)
  OBVIOUS
<1>2. /\ Extents(holes) /\ Disjoint(holes) /\ NonEmpty(holes)
      /\ \A h \in holes : h.b \in 0 .. MaxOffset /\ h.e \in 0 .. MaxOffset /\ h.b < h.e
  BY ReadPathAssumption DEF HoleList, Extents, NonEmpty
<1>3. First(holes) \in holes /\ \A h \in holes : First(holes).b <= h.b
  BY <1>2, FirstOf
<1>4. Back(holes) \in holes /\ \A h \in holes : h.b <= Back(holes).b
  BY <1>2, BackOf
<1>5. x.b = First(holes).b /\ x.e = Back(holes).e
  BY <1>1 DEF OuterExtent, Extent
<1>6. ASSUME NEW h \in holes PROVE x.b <= h.b /\ h.e <= x.e
  <2>1. h = Back(holes) \/ ~ Overlaps(h, Back(holes))
    BY <1>2, <1>4 DEF Disjoint
  <2> QED
    BY <1>2, <1>3, <1>4, <1>5, <2>1, ReadPathAssumption DEF Overlaps
<1>7. IsExtent(x)
  BY <1>2, <1>3, <1>4, <1>5, <1>6, ReadPathAssumption DEF IsExtent
<1>8. /\ Tree(global)
      /\ \A m \in global : m.b \in Offsets /\ m.e \in 0 .. MaxOffset /\ m.b < m.e
      /\ \A o \in Offsets : o \in Nat /\ o < MaxOffset
  BY GivenAre
<1>9. PICK S : S = Sharing(global, x)
  OBVIOUS
<1>10. Find(global, x) = First(S)
  BY <1>7, <1>8, <1>9, FindReturnsFirst DEF Sharing
<1>11. S \subseteq global /\ \A m \in S : m.b \in Nat
  BY <1>8, <1>9 DEF Sharing
<1>12. Find(global, x) \in global \cup {End}
  BY <1>10, <1>11, FirstOf DEF First
<1>13. ASSUME NEW h \in holes, NEW m \in global, NEW o \in Offsets, Within(h, o), Covers(m, o)
       PROVE  Find(global, x) # End /\ Find(global, x).b <= m.b
  <2>1. m \in S
    BY <1>2, <1>6, <1>7, <1>8, <1>9, <1>13, ReadPathAssumption
       DEF Sharing, Overlaps, Within, Covers, IsExtent
  <2>2. First(S) \in S /\ First(S).b <= m.b
    BY <1>11, <2>1, FirstOf
  <2>3. First(S).b \in Nat
    BY <1>11, <2>2
  <2> QED
    BY <1>10, <2>2, <2>3 DEF End
<1> QED
  BY <1>1, <1>12, <1>13

LEMMA ReadLocalStep == ASSUME IInv, ReadLocal PROVE IInv'
<1>1. PICK list, holes :
          /\ LocalRead(list, holes)
          /\ IF holes = {} THEN ReturnAll /\ eof' = BackEnd(local)
             ELSE IF global # {} THEN EnterRemote(holes, BackEnd(local))
             ELSE EnterFile(holes) /\ eof' = BackEnd(local)
  BY ReadLocalReads
<1>2. Types
  BY DEF IInv
<1>3. UNCHANGED given /\ el' = list /\ hole_el' = holes /\ HoleList(holes, req)
  BY <1>1 DEF LocalRead
<1>4. /\ local' = local /\ global' = global /\ fsize' = fsize /\ req' = req
      /\ \A o : Found(o)' = Found(o) /\ Wanted(o)' = Wanted(o)
      /\ TreesEnd' = TreesEnd /\ InRequest' = InRequest
  BY <1>3, GivenStays
<1>5. /\ \A o \in Offsets : In(list, o) <=> Within(req, o) /\ LocationOf(local, o) # Hole
      /\ \A o \in Offsets : In(holes, o) <=> Within(req, o) /\ LocationOf(local, o) = Hole
  BY <1>1 DEF LocalRead
<1>6. CASE holes = {}
  <2>1. pc' = "flush" /\ ret' = Size(req)
    BY <1>1, <1>6 DEF ReturnAll
  <2>2. \A o \in InRequest : In(list, o) /\ Found(o) # Hole
    BY <1>5, <1>6 DEF InRequest, In, Found
  <2>3. AtLast'
    BY <1>2, <1>3, <1>6, <2>1, <2>2, Returned
  <2>4. AllFound'
    BY <1>3, <1>4, <2>2 DEF AllFound, In, Within
  <2>5. Types' /\ AtFirst' /\ Fetching'
    BY <1>1, <2>1, LocalReadKeeps
  <2> QED
    BY <2>1, <2>3, <2>4, <2>5 DEF IInv, InRemote, InFile
<1>7. CASE holes # {} /\ global # {}
  <2>1. /\ pc' = "remote" /\ hole_it' = First(holes)
        /\ global_it' = Find(global, OuterExtent(holes))
        /\ eof' = IF BackEnd(local) < BackEnd(global) THEN BackEnd(global) ELSE BackEnd(local)
    BY <1>1, <1>7 DEF EnterRemote
  <2>2. Types' /\ AtFirst' /\ Fetching'
    BY <1>1, <2>1, LocalReadKeeps
  <2>3. eof' = TreesEnd
    BY <2>1 DEF TreesEnd
  <2>4. /\ First(holes) \in holes /\ First(holes) # End
        /\ \A h \in holes : First(holes).b <= h.b
    <3>1. \A x \in holes : x.b \in Nat
      BY <1>3 DEF HoleList, Extents
    <3>2. First(holes) \in holes /\ \A h \in holes : First(holes).b <= h.b
      BY <1>7, <3>1, FirstOf
    <3> QED
      BY <3>1, <3>2 DEF End
  <2>5. /\ global_it' \in global \cup {End}
        /\ \A h \in holes, m \in global : \A o \in Offsets :
              Within(h, o) /\ Covers(m, o) => global_it' # End /\ global_it'.b <= m.b
    BY <1>2, <1>3, <1>7, <2>1, OuterFinds
  <2>6. \A h \in holes, m \in global : \A o \in Offsets :
            Within(h, o) /\ Covers(m, o) => Todo(h, m)' /\ ~ In(list, o)
    <3>1. ASSUME NEW h \in holes, NEW o \in Offsets, Within(h, o) PROVE ~ In(list, o)
      <4>1. In(holes, o)
        BY <3>1 DEF In
      <4> QED
        BY <1>5, <4>1
    <3> QED
      BY <2>1, <2>4, <2>5, <3>1 DEF Todo
  <2>7. \A o \in Offsets : ~ In(list, o) => buf'[o] = Unset
    BY <1>1 DEF LocalRead
  <2>8. InRemote'
    <3>1. HoleList(hole_el', req')
      BY <1>3, <1>4
    <3>2. \A o \in Offsets : In(hole_el', o) <=> Within(req', o) /\ LocationOf(local', o) = Hole
      BY <1>3, <1>4, <1>5
    <3>3. \A o \in InRequest' : LocationOf(local', o) # Hole => In(el', o)
      BY <1>3, <1>4, <1>5 DEF InRequest
    <3>4. hole_it' \in hole_el' \cup {End} /\ global_it' \in global' \cup {End}
      BY <1>3, <1>4, <2>1, <2>4, <2>5
    <3>5. \A h \in hole_el', m \in global' : \A o \in Offsets :
              Within(h, o) /\ Covers(m, o) => (In(el', o) <=> ~ Todo(h, m)')
      BY <1>3, <1>4, <2>6
    <3>6. \A o \in InRequest' : ~ In(el', o) => buf'[o] = Unset
      BY <1>3, <1>4, <2>7 DEF InRequest
    <3>7. eof' = TreesEnd'
      BY <1>4, <2>3
    <3> QED
      BY <3>1, <3>2, <3>3, <3>4, <3>5, <3>6, <3>7
         DEF InRemote, HoleList, Extents, In, Within
  <2> QED
    BY <2>1, <2>2, <2>8 DEF IInv, InFile, AllFound, AtLast
<1>8. CASE holes # {} /\ global = {}
  <2>1. pc' = "file" /\ hole_it' = First(holes) /\ eof' = BackEnd(local)
    BY <1>1, <1>8 DEF EnterFile
  <2>2. Types' /\ AtFirst' /\ Fetching'
    BY <1>1, <2>1, LocalReadKeeps
  <2>3. \A o \in Offsets : Found(o) = LocationOf(local, o)
    BY <1>8 DEF Found, LocationOf
  <2>4. eof' = TreesEnd
    <3>1. local \in LocalTrees \cup GlobalTrees
      BY <1>2 DEF Types
    <3>2. BackEnd(local) \in 0 .. MaxOffset /\ BackEnd(global) = 0
      BY <1>8, <3>1, BackEndIs DEF BackEnd
    <3> QED
      BY <2>1, <3>2, ReadPathAssumption DEF TreesEnd
  <2>5. \A o \in Offsets : In(holes, o) <=> Within(req, o) /\ Found(o) = Hole
    BY <1>5, <2>3
  <2>6. InFile'
    BY <1>3, <2>1, <2>4, <2>5, EnteringFile
  <2>7. AllFound'
    <3>1. \A o \in InRequest : Found(o) # Hole => In(list, o)
      BY <1>5, <2>3 DEF InRequest
    <3> QED
      BY <1>3, <1>4, <3>1 DEF AllFound, In, Within
  <2> QED
    BY <2>1, <2>2, <2>6, <2>7 DEF IInv, InRemote, AtLast
<1> QED
  BY <1>6, <1>7, <1>8

-----------------------------------------------------------------------------
(* The walk along the holes and the global tree.                           *)

\* The bytes that a hole and a node share.
Common(h, m, o) == Within(h, o) /\ Covers(m, o)

\* What a turn adds, whether or not the hole and the node overlap.
RemoteTurn(h, m) ==
    /\ h \in hole_el /\ m \in global
    /\ h.b \in Nat /\ h.e \in 0 .. MaxOffset /\ h.b < h.e
    /\ m.b \in Nat /\ m.e \in 0 .. MaxOffset /\ m.b < m.e
    /\ hole_it = h /\ global_it = m
    /\ pc = "remote" /\ pc' = "remote"
    /\ hole_it' = IF h.e <= m.e THEN NextOf(hole_el, h) ELSE h
    /\ global_it' = IF m.e <= h.e THEN NextOf(global, m) ELSE m
    /\ hole_el' = hole_el /\ eof' = eof /\ buf' = buf /\ ret' = ret
    /\ List(el')
    /\ \A o \in Offsets : In(el', o) <=> In(el, o) \/ Common(h, m, o)
    /\ gets' = gets \cup {Wanted(o) : o \in {i \in Offsets : Common(h, m, i)}}
    /\ \A o \in Offsets : Common(h, m, o) =>
          Within(req, o) /\ Found(o) # Hole /\ ~ In(el, o) /\ buf[o] = Unset

LEMMA RemoteTurns ==
    ASSUME IInv, Remote
    PROVE  \E h, m : RemoteTurn(h, m)
<1>1. PICK h, m : h = hole_it /\ m = global_it
  OBVIOUS
<1>2. PICK valid : valid = Intersection(h, m)
  OBVIOUS
<1>3. /\ pc = "remote" /\ h # End /\ m # End
      /\ IF Overlaps(h, m)
         THEN el' = AddExtent(el, valid) /\ gets' = gets \cup BytesOf(m, valid)
         ELSE el' = el /\ gets' = gets
      /\ hole_it' = IF h.e <= m.e THEN NextOf(hole_el, h) ELSE h
      /\ global_it' = IF m.e <= h.e THEN NextOf(global, m) ELSE m
      /\ UNCHANGED <<given, pc, hole_el, eof, buf, ret>>
  BY <1>1, <1>2 DEF Remote
<1>4. Types /\ Fetching /\ InRemote
  BY DEF IInv
<1>5. /\ HoleList(hole_el, req)
      /\ \A o \in Offsets : In(hole_el, o) <=> Within(req, o) /\ LocationOf(local, o) = Hole
      /\ h \in hole_el /\ m \in global
      /\ \A o \in Offsets : Common(h, m, o) => (In(el, o) <=> ~ Todo(h, m))
      /\ \A o \in InRequest : ~ In(el, o) => buf[o] = Unset
  BY <1>1, <1>3, <1>4 DEF InRemote, Common
<1>6. /\ Tree(global)
      /\ \A k \in local \cup global : k.b \in Offsets /\ k.e \in 0 .. MaxOffset /\ k.b < k.e
      /\ \A o \in Offsets : o \in Nat /\ o < MaxOffset
  BY <1>4, GivenAre
<1>7. /\ h.b \in Nat /\ h.e \in 0 .. MaxOffset /\ h.b < h.e
      /\ m.b \in Nat /\ m.e \in 0 .. MaxOffset /\ m.b < m.e
  BY <1>5, <1>6 DEF HoleList, Extents, NonEmpty
<1>8. List(el)
  BY <1>4 DEF Types
<1>9. \A o \in Nat : Within(valid, o) <=> Common(h, m, o)
  <2>1. h.e \in Nat /\ m.e \in Nat
    BY <1>7, ReadPathAssumption
  <2>2. \A o \in Nat : Within(valid, o) <=> Within(h, o) /\ Within(m, o)
    BY <1>2, <1>7, <2>1, IntersectionHas
  <2> QED
    BY <2>2 DEF Common, Within, Covers
<1>10. ASSUME NEW o \in Offsets, Common(h, m, o)
       PROVE  /\ Found(o) = Location(m, o) /\ Found(o) # Hole /\ Within(req, o)
              /\ ~ In(el, o) /\ buf[o] = Unset
  <2>1. In(hole_el, o)
    BY <1>5, <1>10 DEF In, Common
  <2>2. Within(req, o) /\ LocationOf(local, o) = Hole
    BY <1>5, <2>1
  <2>3. LocationOf(global, o) = Location(m, o)
    BY <1>5, <1>6, <1>10, LocationIs DEF Common
  <2>4. Location(m, o) # Hole
    BY DEF Location, Hole
  <2>5. Todo(h, m)
    BY <1>1, <1>3, <1>7 DEF Todo
  <2>6. ~ In(el, o)
    BY <1>5, <1>10, <2>5
  <2>7. buf[o] = Unset
    BY <1>5, <2>2, <2>6 DEF InRequest
  <2> QED
    BY <2>2, <2>3, <2>4, <2>6, <2>7 DEF Found
<1>11. List(el') /\ \A o \in Offsets : In(el', o) <=> In(el, o) \/ Common(h, m, o)
  <2>1. CASE Overlaps(h, m)
    <3>1. Extents({valid})
      <4>1. valid.b = (IF h.b < m.b THEN m.b ELSE h.b) /\ valid.e = (IF h.e < m.e THEN h.e ELSE m.e)
        BY <1>2 DEF Intersection, Extent
      <4> QED
        BY <1>7, <2>1, <4>1, ReadPathAssumption DEF Extents, Overlaps
    <3>2. List(el') /\ \A o \in Nat : In(el', o) <=> In(el, o) \/ Within(valid, o)
      BY <1>3, <1>8, <2>1, <3>1, AddExtentIs
    <3> QED
      BY <1>6, <1>9, <3>2
  <2>2. CASE ~ Overlaps(h, m)
    <3>1. \A o \in Offsets : ~ Common(h, m, o)
      BY <1>6, <1>7, <2>2, ReadPathAssumption DEF Common, Within, Covers, Overlaps
    <3> QED
      BY <1>3, <1>8, <2>2, <3>1
  <2> QED
    BY <2>1, <2>2
<1>12. gets' = gets \cup {Wanted(o) : o \in {i \in Offsets : Common(h, m, i)}}
  <2>1. CASE Overlaps(h, m)
    <3>1. BytesOf(m, valid) = {[ofs |-> o, loc |-> Location(m, o)] : o \in {i \in Offsets : Within(valid, i)}}
      BY DEF BytesOf
    <3>2. {i \in Offsets : Within(valid, i)} = {i \in Offsets : Common(h, m, i)}
      BY <1>6, <1>9
    <3>3. \A o \in {i \in Offsets : Common(h, m, i)} : Wanted(o) = [ofs |-> o, loc |-> Location(m, o)]
      BY <1>10 DEF Wanted
    <3>4. BytesOf(m, valid) = {Wanted(o) : o \in {i \in Offsets : Common(h, m, i)}}
      BY <3>1, <3>2, <3>3
    <3> QED
      BY <1>3, <2>1, <3>4
  <2>2. CASE ~ Overlaps(h, m)
    <3>1. \A o \in Offsets : ~ Common(h, m, o)
      BY <1>6, <1>7, <2>2, ReadPathAssumption DEF Common, Within, Covers, Overlaps
    <3> QED
      BY <1>3, <2>2, <3>1
  <2> QED
    BY <2>1, <2>2
<1>13. RemoteTurn(h, m)
  BY <1>1, <1>3, <1>5, <1>7, <1>10, <1>11, <1>12 DEF RemoteTurn
<1> QED
  BY <1>13

LEMMA RemoteTurnFetches ==
    ASSUME IInv, UNCHANGED given, NEW h, NEW m, RemoteTurn(h, m)
    PROVE  Types' /\ Fetching'
<1>1. /\ local' = local /\ global' = global /\ fsize' = fsize /\ req' = req
      /\ \A o : Found(o)' = Found(o) /\ Wanted(o)' = Wanted(o)
  BY GivenStays
<1>2. Types /\ Fetching
  BY DEF IInv
<1>3. List(el') /\ pc' = "remote" /\ buf' = buf
  BY DEF RemoteTurn
<1>4. Types'
  BY <1>1, <1>2, <1>3 DEF Types
<1>5. /\ \A o \in Offsets : In(el', o) <=> In(el, o) \/ Common(h, m, o)
      /\ gets' = gets \cup {Wanted(o) : o \in {i \in Offsets : Common(h, m, i)}}
      /\ \A o \in Offsets : Common(h, m, o) =>
            Within(req, o) /\ Found(o) # Hole /\ buf[o] = Unset
  BY DEF RemoteTurn
<1>6. ASSUME NEW o \in Offsets, In(el', o)
      PROVE  /\ Within(req, o) /\ Found(o) # Hole
             /\ buf[o] = Ring(Found(o)) \/ Wanted(o) \in gets'
  <2>1. CASE In(el, o)
    BY <1>2, <1>5, <2>1 DEF Fetching
  <2>2. CASE Common(h, m, o)
    BY <1>5, <2>2
  <2> QED
    BY <1>5, <1>6, <2>1, <2>2
<1>7. ASSUME NEW g \in gets'
      PROVE  \E o \in Offsets : g = Wanted(o) /\ In(el', o) /\ buf[o] = Unset
  <2>1. CASE g \in gets
    BY <1>2, <1>5, <2>1 DEF Fetching
  <2>2. CASE g \notin gets
    <3>1. PICK o \in Offsets : Common(h, m, o) /\ g = Wanted(o)
      BY <1>5, <1>7, <2>2
    <3> QED
      BY <1>5, <3>1
  <2> QED
    BY <2>1, <2>2
<1>8. Fetching'
  BY <1>1, <1>3, <1>6, <1>7 DEF Fetching, In, Within
<1> QED
  BY <1>4, <1>8

\* The walk leaves no pair behind that shares a byte.
LEMMA RemoteTurnMeets ==
    ASSUME IInv, UNCHANGED given, NEW h, NEW m, RemoteTurn(h, m),
           NEW x \in hole_el, NEW k \in global, NEW o \in Offsets, Common(x, k, o)
    PROVE  In(el', o) <=> ~ Todo(x, k)'
<1>1. Types /\ InRemote /\ pc = "remote"
  BY DEF IInv, RemoteTurn
<1>2. /\ HoleList(hole_el, req)
      /\ In(el, o) <=> ~ Todo(x, k)
  BY <1>1 DEF InRemote, Common
<1>3. /\ Tree(global)
      /\ \A n \in local \cup global : n.b \in Offsets /\ n.e \in 0 .. MaxOffset /\ n.b < n.e
      /\ \A i \in Offsets : i \in Nat /\ i < MaxOffset
  BY <1>1, GivenAre
<1>4. /\ \A y \in hole_el : y.b \in Nat /\ y.e \in Nat
      /\ Disjoint(hole_el) /\ NonEmpty(hole_el)
  BY <1>2, ReadPathAssumption DEF HoleList, Extents
<1>5. /\ \A n \in global : n.b \in Nat /\ n.e \in Nat
      /\ Disjoint(global) /\ NonEmpty(global)
  BY <1>3, ReadPathAssumption DEF Tree
<1>6. /\ h \in hole_el /\ m \in global
      /\ hole_it = h /\ global_it = m /\ h.b < h.e /\ m.b < m.e
      /\ hole_it' = IF h.e <= m.e THEN NextOf(hole_el, h) ELSE h
      /\ global_it' = IF m.e <= h.e THEN NextOf(global, m) ELSE m
      /\ In(el', o) <=> In(el, o) \/ Common(h, m, o)
  BY DEF RemoteTurn
<1>7. /\ NextOf(hole_el, h) # End => NextOf(hole_el, h).b > h.b
      /\ NextOf(hole_el, h) \in hole_el \cup {End}
      /\ \A y \in hole_el : y.b > h.b => NextOf(hole_el, h) # End /\ NextOf(hole_el, h).b <= y.b
  BY <1>4, <1>6, NextIs
<1>8. /\ NextOf(global, m) # End => NextOf(global, m).b > m.b
      /\ NextOf(global, m) \in global \cup {End}
      /\ \A n \in global : n.b > m.b => NextOf(global, m) # End /\ NextOf(global, m).b <= n.b
  BY <1>5, <1>6, NextIs
<1>9. /\ x = h \/ x.e <= h.b \/ h.e <= x.b
      /\ k = m \/ k.e <= m.b \/ m.e <= k.b
  <2>1. x = h \/ x.e <= h.b \/ h.e <= x.b
    BY <1>4, <1>6, OneBegin
  <2>2. k = m \/ k.e <= m.b \/ m.e <= k.b
    BY <1>5, <1>6, OneBegin
  <2> QED
    BY <2>1, <2>2
<1>10. /\ x.b \in Nat /\ x.e \in Nat /\ x.b <= o /\ o < x.e
       /\ k.b \in Nat /\ k.e \in Nat /\ k.b <= o /\ o < k.e
       /\ h.b \in Nat /\ h.e \in Nat /\ m.b \in Nat /\ m.e \in Nat /\ o \in Nat
  BY <1>3, <1>4, <1>5, <1>6 DEF Common, Within, Covers
<1>11. Todo(x, k) <=> h.b <= x.b /\ m.b <= k.b
  BY <1>6, <1>10 DEF Todo, End
<1>12. CASE x = h /\ k = m
  <2>1. In(el', o)
    BY <1>6, <1>12
  <2>2. ~ Todo(x, k)'
    <3>1. CASE h.e <= m.e
      <4>1. hole_it' = NextOf(hole_el, h)
        BY <1>6, <3>1
      <4>2. hole_it' = End \/ (hole_it'.b > h.b /\ hole_it'.b \in Nat)
        BY <1>4, <1>7, <4>1
      <4> QED
        BY <1>10, <1>12, <4>2 DEF Todo
    <3>2. CASE m.e <= h.e
      <4>1. global_it' = NextOf(global, m)
        BY <1>6, <3>2
      <4>2. global_it' = End \/ (global_it'.b > m.b /\ global_it'.b \in Nat)
        BY <1>5, <1>8, <4>1
      <4> QED
        BY <1>10, <1>12, <4>2 DEF Todo
    <3> QED
      BY <1>10, <3>1, <3>2
  <2> QED
    BY <2>1, <2>2
<1>13. CASE ~ (x = h /\ k = m)
  <2>1. ~ Common(h, m, o)
    BY <1>9, <1>10, <1>13 DEF Common, Within, Covers
  <2>2. In(el', o) <=> In(el, o)
    BY <1>6, <2>1
  <2>3. ASSUME Todo(x, k) PROVE Todo(x, k)'
    <3>1. h.b <= x.b /\ m.b <= k.b
      BY <1>11, <2>3
    <3>2. hole_it' # End /\ hole_it'.b <= x.b
      <4>1. CASE h.e <= m.e
        <5>1. x # h
          BY <1>9, <1>10, <1>13, <3>1, <4>1
        <5>2. x.b > h.b
          BY <1>6, <1>9, <1>10, <3>1, <5>1
        <5> QED
          BY <1>6, <1>7, <4>1, <5>2
      <4>2. CASE ~ h.e <= m.e
        <5>1. hole_it' = h
          BY <1>6, <4>2
        <5>2. h # End
          BY <1>10 DEF End
        <5> QED
          BY <3>1, <5>1, <5>2
      <4> QED
        BY <4>1, <4>2
    <3>3. global_it' # End /\ global_it'.b <= k.b
      <4>1. CASE m.e <= h.e
        <5>1. k # m
          BY <1>9, <1>10, <1>13, <3>1, <4>1
        <5>2. k.b > m.b
          BY <1>6, <1>9, <1>10, <3>1, <5>1
        <5> QED
          BY <1>6, <1>8, <4>1, <5>2
      <4>2. CASE ~ m.e <= h.e
        <5>1. global_it' = m
          BY <1>6, <4>2
        <5>2. m # End
          BY <1>10 DEF End
        <5> QED
          BY <3>1, <5>1, <5>2
      <4> QED
        BY <4>1, <4>2
    <3> QED
      BY <3>2, <3>3 DEF Todo
  <2>4. ASSUME Todo(x, k)' PROVE Todo(x, k)
    <3>1. hole_it' # End /\ global_it' # End /\ hole_it'.b <= x.b /\ global_it'.b <= k.b
      BY <2>4 DEF Todo
    <3>2. hole_it'.b >= h.b /\ hole_it'.b \in Nat
      BY <1>4, <1>6, <1>7, <1>10, <3>1
    <3>3. global_it'.b >= m.b /\ global_it'.b \in Nat
      BY <1>5, <1>6, <1>8, <1>10, <3>1
    <3>4. h.b <= x.b
      BY <1>10, <3>1, <3>2
    <3>5. m.b <= k.b
      BY <1>10, <3>1, <3>3
    <3> QED
      BY <1>11, <3>4, <3>5
  <2> QED
    BY <1>2, <2>2, <2>3, <2>4
<1> QED
  BY <1>12, <1>13

LEMMA RemoteStep == ASSUME IInv, Remote PROVE IInv'
<1>1. PICK h, m : RemoteTurn(h, m)
  BY RemoteTurns
<1>2. UNCHANGED given
  BY DEF Remote
<1>3. /\ local' = local /\ global' = global /\ fsize' = fsize /\ req' = req
      /\ TreesEnd' = TreesEnd /\ InRequest' = InRequest
  BY <1>2, GivenStays
<1>4. Types' /\ Fetching'
  BY <1>1, <1>2, RemoteTurnFetches
<1>5. Types /\ InRemote
  BY DEF IInv
<1>6. /\ pc = "remote" /\ pc' = "remote" /\ hole_el' = hole_el /\ eof' = eof /\ buf' = buf
      /\ h \in hole_el /\ m \in global
      /\ hole_it' = IF h.e <= m.e THEN NextOf(hole_el, h) ELSE h
      /\ global_it' = IF m.e <= h.e THEN NextOf(global, m) ELSE m
      /\ \A o \in Offsets : In(el', o) <=> In(el, o) \/ Common(h, m, o)
  BY <1>1 DEF RemoteTurn
<1>7. /\ HoleList(hole_el, req)
      /\ \A o \in Offsets : In(hole_el, o) <=> Within(req, o) /\ LocationOf(local, o) = Hole
      /\ \A o \in InRequest : LocationOf(local, o) # Hole => In(el, o)
      /\ \A o \in InRequest : ~ In(el, o) => buf[o] = Unset
      /\ eof = TreesEnd
  BY <1>5, <1>6 DEF InRemote
<1>8. hole_it' \in hole_el \cup {End} /\ global_it' \in global \cup {End}
  <2>1. \A y \in hole_el : y.b \in Nat
    BY <1>7 DEF HoleList, Extents
  <2>2. \A n \in global : n.b \in Nat
    BY <1>5, GivenAre
  <2>3. NextOf(hole_el, h) \in hole_el \cup {End}
    BY <1>6, <2>1, NextIs
  <2>4. NextOf(global, m) \in global \cup {End}
    BY <1>6, <2>2, NextIs
  <2> QED
    BY <1>6, <2>3, <2>4
<1>9. \A x \in hole_el, k \in global : \A o \in Offsets :
          Within(x, o) /\ Covers(k, o) => (In(el', o) <=> ~ Todo(x, k)')
  BY <1>1, <1>2, RemoteTurnMeets DEF Common
<1>10. InRemote'
  <2>1. HoleList(hole_el', req')
    BY <1>3, <1>6, <1>7
  <2>2. \A o \in Offsets : In(hole_el', o) <=> Within(req', o) /\ LocationOf(local', o) = Hole
    BY <1>3, <1>6, <1>7
  <2>3. \A o \in InRequest' : LocationOf(local', o) # Hole => In(el', o)
    BY <1>3, <1>6, <1>7 DEF InRequest
  <2>4. hole_it' \in hole_el' \cup {End} /\ global_it' \in global' \cup {End}
    BY <1>3, <1>6, <1>8
  <2>5. \A x \in hole_el', k \in global' : \A o \in Offsets :
            Within(x, o) /\ Covers(k, o) => (In(el', o) <=> ~ Todo(x, k)')
    BY <1>3, <1>6, <1>9
  <2>6. \A o \in InRequest' : ~ In(el', o) => buf'[o] = Unset
    BY <1>3, <1>6, <1>7 DEF InRequest
  <2>7. eof' = TreesEnd'
    BY <1>3, <1>6, <1>7
  <2> QED
    BY <2>1, <2>2, <2>3, <2>4, <2>5, <2>6, <2>7 DEF InRemote, HoleList, Extents, In, Within
<1> QED
  BY <1>4, <1>6, <1>10 DEF IInv, AtFirst, AllFound, InFile, AtLast

LEMMA RemoteEndsStep == ASSUME IInv, RemoteEnds PROVE IInv'
<1>1. PICK holes : holes = InverseIn(el, req)
  OBVIOUS
<1>2. /\ pc = "remote" /\ (hole_it = End \/ global_it = End)
      /\ hole_el' = holes
      /\ IF holes = {} THEN ReturnAll ELSE EnterFile(holes)
      /\ UNCHANGED given /\ el' = el /\ eof' = eof /\ buf' = buf /\ gets' = gets
  BY <1>1 DEF RemoteEnds
<1>3. /\ local' = local /\ global' = global /\ fsize' = fsize /\ req' = req
      /\ \A o : Found(o)' = Found(o) /\ Wanted(o)' = Wanted(o)
      /\ TreesEnd' = TreesEnd /\ InRequest' = InRequest
  BY <1>2, GivenStays
<1>4. Types /\ Fetching /\ InRemote
  BY DEF IInv
<1>5. /\ \A o \in Offsets : In(hole_el, o) <=> Within(req, o) /\ LocationOf(local, o) = Hole
      /\ \A o \in InRequest : LocationOf(local, o) # Hole => In(el, o)
      /\ \A x \in hole_el, k \in global : \A o \in Offsets :
            Within(x, o) /\ Covers(k, o) => (In(el, o) <=> ~ Todo(x, k))
      /\ eof = TreesEnd
  BY <1>2, <1>4 DEF InRemote
<1>6. \A o \in Offsets : o \in Nat
  BY <1>4, GivenAre
<1>7. \A o \in InRequest : Found(o) # Hole => In(el, o)
  <2> SUFFICES ASSUME NEW o \in InRequest, Found(o) # Hole PROVE In(el, o)
    OBVIOUS
  <2>1. CASE LocationOf(local, o) # Hole
    BY <1>5, <2>1
  <2>2. CASE LocationOf(local, o) = Hole
    <3>1. o \in Offsets /\ Within(req, o)
      BY DEF InRequest
    <3>2. PICK x \in hole_el : Within(x, o)
      BY <1>5, <2>2, <3>1 DEF In
    <3>3. PICK k \in global : Covers(k, o)
      BY <2>2, HoleIs DEF Found
    <3>4. ~ Todo(x, k)
      BY <1>2 DEF Todo
    <3> QED
      BY <1>5, <3>1, <3>2, <3>3, <3>4
  <2> QED
    BY <2>1, <2>2
<1>8. HoleList(holes, req) /\ \A o \in Nat : In(holes, o) <=> Within(req, o) /\ ~ In(el, o)
  <2>1. List(el) /\ req.b \in Nat /\ req.e \in 0 .. MaxOffset /\ req.b <= req.e
    BY <1>4, ReadPathAssumption DEF Types
  <2> QED
    BY <1>1, <2>1, InverseIs
<1>9. \A o \in Offsets : In(holes, o) <=> Within(req, o) /\ Found(o) = Hole
  BY <1>4, <1>6, <1>7, <1>8 DEF Fetching, InRequest
<1>10. pc' \in {"flush", "file"}
  BY <1>2 DEF ReturnAll, EnterFile
<1>11. Types'
  BY <1>2, <1>3, <1>4, <1>10 DEF Types
<1>12. Fetching'
  BY <1>2, <1>3, <1>4 DEF Fetching, In, Within
<1>13. AllFound'
  BY <1>2, <1>3, <1>7 DEF AllFound, In, Within
<1>14. CASE holes = {}
  <2>1. pc' = "flush" /\ ret' = Size(req)
    BY <1>2, <1>14 DEF ReturnAll
  <2>2. \A o \in InRequest : Found(o) # Hole
    BY <1>9, <1>14 DEF InRequest, In
  <2>3. AtLast'
    BY <1>2, <1>4, <1>14, <2>1, <2>2, Returned
  <2> QED
    BY <1>11, <1>12, <1>13, <2>1, <2>3 DEF IInv, AtFirst, InRemote, InFile
<1>15. CASE holes # {}
  <2>1. pc' = "file" /\ hole_it' = First(holes)
    BY <1>2, <1>15 DEF EnterFile
  <2>2. eof' = TreesEnd
    BY <1>2, <1>5
  <2>3. InFile'
    BY <1>2, <1>8, <1>9, <2>1, <2>2, EnteringFile
  <2> QED
    BY <1>11, <1>12, <1>13, <2>1, <2>3 DEF IInv, AtFirst, InRemote, AtLast
<1> QED
  BY <1>14, <1>15

-----------------------------------------------------------------------------
(* The walk along the holes and the file.                                  *)

\* What the turns of this walk have in common: they write into holes only.
FileTurn ==
    /\ pc = "file"
    /\ UNCHANGED given /\ el' = el /\ hole_el' = hole_el /\ eof' = eof /\ gets' = gets
    /\ buf' = [o \in Offsets |-> buf'[o]]
    /\ \A o \in Offsets : ~ In(hole_el, o) => buf'[o] = buf[o]

LEMMA FileTurnKeeps ==
    ASSUME IInv, FileTurn, pc' \in {"file", "crashed", "threw", "flush"},
           pc' = "file" => /\ hole_it' \in hole_el \cup {End}
                           /\ \A x \in hole_el : hole_it' = End \/ x.b < hole_it'.b => Filled(x)',
           pc' = "flush" => AtLast'
    PROVE  IInv'
<1>1. /\ pc = "file"
      /\ UNCHANGED given /\ el' = el /\ hole_el' = hole_el /\ eof' = eof /\ gets' = gets
      /\ buf' = [o \in Offsets |-> buf'[o]]
      /\ \A o \in Offsets : ~ In(hole_el, o) => buf'[o] = buf[o]
  BY DEF FileTurn
<1>2. /\ local' = local /\ global' = global /\ fsize' = fsize /\ req' = req
      /\ \A o : Found(o)' = Found(o) /\ Wanted(o)' = Wanted(o)
      /\ TreesEnd' = TreesEnd /\ InRequest' = InRequest
  BY <1>1, GivenStays
<1>3. Types /\ Fetching /\ AllFound /\ InFile
  BY DEF IInv
<1>4. Types'
  BY <1>1, <1>2, <1>3 DEF Types
<1>5. /\ HoleList(hole_el, req) /\ eof = TreesEnd
      /\ \A o \in Offsets : In(hole_el, o) <=> Within(req, o) /\ Found(o) = Hole
  BY <1>1, <1>3 DEF InFile
<1>6. \A o \in Offsets : In(el, o) => buf'[o] = buf[o]
  BY <1>1, <1>3, <1>5 DEF Fetching
<1>7. Fetching'
  BY <1>1, <1>2, <1>3, <1>6 DEF Fetching, In, Within
<1>8. AllFound'
  BY <1>1, <1>2, <1>3 DEF AllFound, In, Within
<1>9. InFile'
  <2> SUFFICES ASSUME pc' = "file" PROVE InFile'
    BY DEF InFile
  <2>1. HoleList(hole_el', req')
    BY <1>1, <1>2, <1>5
  <2>2. \A o \in Offsets : In(hole_el', o) <=> Within(req', o) /\ Found(o)' = Hole
    BY <1>1, <1>2, <1>5
  <2>3. /\ hole_it' \in hole_el' \cup {End}
        /\ \A x \in hole_el' : hole_it' = End \/ x.b < hole_it'.b => Filled(x)'
    BY <1>1
  <2>4. eof' = TreesEnd'
    BY <1>1, <1>2, <1>5
  <2> QED
    BY <2>1, <2>2, <2>3, <2>4 DEF InFile, HoleList, Extents, In, Within
<1>10. AtLast'
  BY DEF AtLast
<1> QED
  BY <1>4, <1>7, <1>8, <1>9, <1>10 DEF IInv, AtFirst, InRemote

\* A hole whose bytes are left alone stays filled.
LEMMA StaysFilled ==
    ASSUME UNCHANGED given, NEW x, Filled(x),
           \A o \in Offsets : Within(x, o) => buf'[o] = buf[o]
    PROVE  Filled(x)'
<1>1. /\ fsize' = fsize /\ TreesEnd' = TreesEnd /\ InRequest' = InRequest
      /\ \A o : Found(o)' = Found(o)
  BY GivenStays
<1> QED
  BY <1>1 DEF Filled, InRequest, Within

\* The turn of a hole h, of the walk at it.
LEMMA FileAt ==
    ASSUME IInv, pc = "file", hole_it # End
    PROVE  /\ hole_it \in hole_el /\ eof = TreesEnd /\ eof \in Nat /\ fsize \in Nat
           /\ Disjoint(hole_el) /\ NonEmpty(hole_el)
           /\ \A x \in hole_el : x.b \in Nat /\ x.e \in Nat /\ x.b < x.e
           /\ \A x \in hole_el : x = hole_it \/ x.e <= hole_it.b \/ hole_it.e <= x.b
           /\ \A x \in hole_el : x.b < hole_it.b => Filled(x)
           /\ \A o \in Offsets : o \in Nat
<1>1. Types /\ InFile
  BY DEF IInv
<1>2. /\ hole_it \in hole_el /\ eof = TreesEnd /\ HoleList(hole_el, req)
      /\ \A x \in hole_el : x.b < hole_it.b => Filled(x)
  BY <1>1 DEF InFile
<1>3. TreesEnd \in Nat /\ fsize \in Nat /\ \A o \in Offsets : o \in Nat
  BY <1>1, GivenAre, ReadPathAssumption DEF Types
<1>4. /\ Disjoint(hole_el) /\ NonEmpty(hole_el)
      /\ \A x \in hole_el : x.b \in Nat /\ x.e \in Nat /\ x.b < x.e
  BY <1>2, ReadPathAssumption DEF HoleList, Extents, NonEmpty
<1>5. \A x \in hole_el : x = hole_it \/ x.e <= hole_it.b \/ hole_it.e <= x.b
  BY <1>2, <1>4, OneBegin
<1> QED
  BY <1>2, <1>3, <1>4, <1>5

LEMMA FileWholeStep == ASSUME IInv, FileWhole PROVE IInv'
<1>1. PICK h : h = hole_it
  OBVIOUS
<1>2. /\ pc = "file" /\ h # End /\ h.e <= fsize /\ pc' = "file"
      /\ buf' = [o \in Offsets |-> IF Within(h, o) /\ o < fsize THEN FileByte ELSE buf[o]]
      /\ hole_it' = NextOf(hole_el, h)
      /\ UNCHANGED given /\ el' = el /\ hole_el' = hole_el /\ eof' = eof /\ gets' = gets
  BY <1>1 DEF FileWhole, WithFile
<1>3. /\ h \in hole_el /\ eof \in Nat /\ fsize \in Nat
      /\ \A x \in hole_el : x.b \in Nat /\ x.e \in Nat /\ x.b < x.e
      /\ \A x \in hole_el : x = h \/ x.e <= h.b \/ h.e <= x.b
      /\ \A x \in hole_el : x.b < h.b => Filled(x)
      /\ \A o \in Offsets : o \in Nat
  BY <1>1, <1>2, FileAt
<1>4. FileTurn
  <2>1. \A o \in Offsets : ~ In(hole_el, o) => buf'[o] = buf[o]
    BY <1>2, <1>3 DEF In
  <2>2. buf' = [o \in Offsets |-> buf'[o]]
    BY <1>2
  <2> QED
    BY <1>2, <2>1, <2>2 DEF FileTurn
<1>5. /\ NextOf(hole_el, h) \in hole_el \cup {End}
      /\ \A y \in hole_el : y.b > h.b => NextOf(hole_el, h) # End /\ NextOf(hole_el, h).b <= y.b
  BY <1>3, NextIs
<1>6. ASSUME NEW x \in hole_el, hole_it' = End \/ x.b < hole_it'.b PROVE Filled(x)'
  <2>1. CASE x = h
    <3>1. fsize' = fsize
      BY <1>2, GivenStays
    <3>2. \A o \in Offsets : Within(x, o) => o < fsize /\ buf'[o] = FileByte
      BY <1>2, <1>3, <2>1 DEF Within
    <3> QED
      BY <1>3, <3>1, <3>2 DEF Filled, InRequest, Within
  <2>2. CASE x # h
    <3>1. ~ x.b > h.b
      <4>1. ASSUME x.b > h.b PROVE FALSE
        <5>1. hole_it' # End /\ hole_it'.b <= x.b /\ hole_it' \in hole_el
          BY <1>2, <1>5, <4>1
        <5>2. hole_it'.b \in Nat /\ x.b \in Nat
          BY <1>3, <5>1
        <5> QED
          BY <1>6, <5>1, <5>2
      <4> QED
        BY <4>1
    <3>2. x.e <= h.b /\ x.b < h.b
      BY <1>3, <2>2, <3>1
    <3>3. \A o \in Offsets : Within(x, o) => buf'[o] = buf[o]
      BY <1>2, <1>3, <3>2 DEF Within
    <3> QED
      BY <1>2, <1>3, <3>2, <3>3, StaysFilled
  <2> QED
    BY <2>1, <2>2
<1> QED
  BY <1>2, <1>4, <1>5, <1>6, FileTurnKeeps

LEMMA FileShortStep == ASSUME IInv, FileShort PROVE IInv'
<1>1. PICK h : h = hole_it
  OBVIOUS
<1>2. /\ pc = "file" /\ h # End /\ fsize < h.e /\ From >= eof /\ pc' = "file"
      /\ buf' = [o \in Offsets |-> IF Within(h, o) /\ o < fsize THEN FileByte ELSE buf[o]]
      /\ hole_it' = End
      /\ UNCHANGED given /\ el' = el /\ hole_el' = hole_el /\ eof' = eof /\ gets' = gets
  BY <1>1 DEF FileShort, WithFile
<1>3. /\ h \in hole_el /\ eof = TreesEnd /\ eof \in Nat /\ fsize \in Nat
      /\ \A x \in hole_el : x.b \in Nat /\ x.e \in Nat /\ x.b < x.e
      /\ \A x \in hole_el : x = h \/ x.e <= h.b \/ h.e <= x.b
      /\ \A x \in hole_el : x.b < h.b => Filled(x)
      /\ \A o \in Offsets : o \in Nat
  BY <1>1, <1>2, FileAt
<1>4. FileTurn
  <2>1. \A o \in Offsets : ~ In(hole_el, o) => buf'[o] = buf[o]
    BY <1>2, <1>3 DEF In
  <2>2. buf' = [o \in Offsets |-> buf'[o]]
    BY <1>2
  <2> QED
    BY <1>2, <2>1, <2>2 DEF FileTurn
<1>5. IF fsize < h.b THEN h.b >= eof ELSE fsize >= eof
  BY <1>1, <1>2 DEF From
<1>6. fsize' = fsize /\ TreesEnd' = TreesEnd
  BY <1>2, GivenStays
<1>7. ASSUME NEW x \in hole_el PROVE Filled(x)'
  <2>1. CASE x.b < h.b
    <3>1. x.e <= h.b
      BY <1>3, <2>1
    <3>2. \A o \in Offsets : Within(x, o) => buf'[o] = buf[o]
      BY <1>2, <1>3, <3>1 DEF Within
    <3> QED
      BY <1>2, <1>3, <2>1, <3>2, StaysFilled
  <2>2. CASE ~ x.b < h.b
    <3>1. fsize < x.e
      BY <1>2, <1>3, <2>2
    <3>2. \A o \in Offsets : Within(x, o) => ~ (fsize <= o /\ o < eof)
      BY <1>3, <1>5, <2>2 DEF Within
    <3>3. ~ x.e <= fsize
      BY <1>3, <3>1
    <3> QED
      BY <1>3, <1>6, <3>2, <3>3 DEF Filled, InRequest, Within
  <2> QED
    BY <2>1, <2>2
<1> QED
  BY <1>2, <1>4, <1>7, FileTurnKeeps

\* What the inner loop that fills with zeros does to the buffer.
LEMMA FillsWithZeros ==
    ASSUME IInv, pc = "file", hole_it # End, fsize < hole_it.e, From < eof,
           NEW b, b = ZeroRemaining(WithZeros(WithFile(buf, hole_it), Extent(From, hole_it.e), eof))
    PROVE  /\ b = [o \in Offsets |-> b[o]]
           /\ \A x \in hole_el : \A o \in Offsets : Within(x, o) =>
                 /\ x.b < hole_it.b => b[o] = buf[o]
                 /\ ~ x.b < hole_it.b /\ fsize <= o /\ o < eof => b[o] = Zero
           /\ \A o \in Offsets : ~ In(hole_el, o) => b[o] = buf[o]
<1>1. PICK h, c, d : h = hole_it /\ c = WithFile(buf, h) /\ d = WithZeros(c, Extent(From, h.e), eof)
  OBVIOUS
<1>2. /\ h \in hole_el /\ eof \in Nat /\ fsize \in Nat
      /\ \A x \in hole_el : x.b \in Nat /\ x.e \in Nat /\ x.b < x.e
      /\ \A x \in hole_el : x = h \/ x.e <= h.b \/ h.e <= x.b
      /\ \A o \in Offsets : o \in Nat
  BY <1>1, FileAt
<1>3. From = IF fsize < h.b THEN h.b ELSE fsize
  BY <1>1 DEF From
<1>4. \A o \in Offsets : c[o] = IF Within(h, o) /\ o < fsize THEN FileByte ELSE buf[o]
  BY <1>1 DEF WithFile
<1>5. \A o \in Offsets : d[o] = IF From <= o /\ o < h.e /\ o < eof THEN Zero ELSE c[o]
  BY <1>1 DEF WithZeros, Extent, Within
<1>6. b = ZeroRemaining(d)
  BY <1>1
<1>7. \A o \in Offsets :
          b[o] = IF o < eof /\ \E x \in {y \in hole_el : y.b >= h.b /\ y.b < eof} : Within(x, o)
                 THEN Zero ELSE d[o]
  BY <1>1, <1>6 DEF ZeroRemaining
<1>8. b = [o \in Offsets |-> b[o]]
  BY <1>6 DEF ZeroRemaining
<1>9. ASSUME NEW x \in hole_el, NEW o \in Offsets, Within(x, o), x.b < h.b PROVE b[o] = buf[o]
  <2>1. x.e <= h.b
    BY <1>2, <1>9
  <2>2. o < h.b
    BY <1>2, <1>9, <2>1 DEF Within
  <2>3. \A y \in hole_el : y.b >= h.b => ~ Within(y, o)
    BY <1>2, <2>2 DEF Within
  <2>4. b[o] = d[o]
    BY <1>7, <2>3
  <2>5. ~ From <= o /\ ~ Within(h, o)
    BY <1>2, <1>3, <2>2 DEF Within
  <2> QED
    BY <1>4, <1>5, <2>4, <2>5
<1>10. ASSUME NEW x \in hole_el, NEW o \in Offsets, Within(x, o), ~ x.b < h.b, o < eof
       PROVE  b[o] = Zero
  <2>1. x.b >= h.b /\ x.b < eof
    BY <1>2, <1>10 DEF Within
  <2> QED
    BY <1>7, <1>10, <2>1
<1>11. ASSUME NEW o \in Offsets, ~ In(hole_el, o) PROVE b[o] = buf[o]
  <2>1. b[o] = d[o]
    BY <1>7, <1>11 DEF In
  <2>2. ~ Within(h, o)
    BY <1>2, <1>11 DEF In
  <2>3. ~ (From <= o /\ o < h.e)
    BY <1>2, <1>3, <2>2 DEF Within
  <2> QED
    BY <1>4, <1>5, <2>1, <2>2, <2>3
<1> QED
  BY <1>1, <1>8, <1>9, <1>10, <1>11

LEMMA FileFillStep == ASSUME IInv, FileFill PROVE IInv'
<1>1. PICK h : h = hole_it
  OBVIOUS
<1>2. /\ pc = "file" /\ h # End /\ fsize < h.e /\ From < eof
      /\ buf' = ZeroRemaining(WithZeros(WithFile(buf, h), Extent(From, h.e), eof))
      /\ IF BeyondEof = End THEN pc' = "crashed" /\ hole_it' = hole_it
         ELSE hole_it' = NextOf(hole_el, BeyondEof) /\ pc' = pc
      /\ UNCHANGED given /\ el' = el /\ hole_el' = hole_el /\ eof' = eof /\ gets' = gets
  BY <1>1 DEF FileFill
<1>3. /\ h \in hole_el /\ eof = TreesEnd /\ eof \in Nat /\ fsize \in Nat
      /\ \A x \in hole_el : x.b \in Nat /\ x.e \in Nat /\ x.b < x.e
      /\ \A x \in hole_el : x = h \/ x.e <= h.b \/ h.e <= x.b
      /\ \A x \in hole_el : x.b < h.b => Filled(x)
      /\ \A o \in Offsets : o \in Nat
  BY <1>1, <1>2, FileAt
<1>4. /\ buf' = [o \in Offsets |-> buf'[o]]
      /\ \A x \in hole_el : \A o \in Offsets : Within(x, o) =>
            /\ x.b < h.b => buf'[o] = buf[o]
            /\ ~ x.b < h.b /\ fsize <= o /\ o < eof => buf'[o] = Zero
      /\ \A o \in Offsets : ~ In(hole_el, o) => buf'[o] = buf[o]
  BY <1>1, <1>2, FillsWithZeros
<1>5. FileTurn
  BY <1>2, <1>4 DEF FileTurn
<1>6. fsize' = fsize /\ TreesEnd' = TreesEnd
  BY <1>2, GivenStays
<1>7. ASSUME NEW x \in hole_el PROVE Filled(x)'
  <2>1. CASE x.b < h.b
    <3>1. \A o \in Offsets : Within(x, o) => buf'[o] = buf[o]
      BY <1>4, <2>1
    <3> QED
      BY <1>2, <1>3, <2>1, <3>1, StaysFilled
  <2>2. CASE ~ x.b < h.b
    <3>1. ~ x.e <= fsize
      BY <1>2, <1>3, <2>2
    <3>2. \A o \in Offsets : Within(x, o) /\ fsize <= o /\ o < TreesEnd => buf'[o] = Zero
      BY <1>3, <1>4, <2>2
    <3> QED
      BY <1>6, <3>1, <3>2 DEF Filled, InRequest, Within
  <2> QED
    BY <2>1, <2>2
<1>8. CASE BeyondEof = End
  BY <1>2, <1>5, <1>8, FileTurnKeeps
<1>9. CASE BeyondEof # End
  <2>1. PICK S : S = {x \in hole_el : x.b >= eof}
    OBVIOUS
  <2>2. BeyondEof \in S
    <3>1. BeyondEof = First(S)
      BY <2>1 DEF BeyondEof
    <3>2. S # {}
      BY <1>9, <3>1 DEF First
    <3>3. \A x \in S : x.b \in Nat
      BY <1>3, <2>1
    <3> QED
      BY <3>1, <3>2, <3>3, FirstOf
  <2>3. NextOf(hole_el, BeyondEof) \in hole_el \cup {End}
    BY <1>3, <2>1, <2>2, NextIs
  <2>4. pc' = "file" /\ hole_it' \in hole_el \cup {End}
    BY <1>2, <1>9, <2>3
  <2> QED
    BY <1>5, <1>7, <2>4, FileTurnKeeps
<1> QED
  BY <1>8, <1>9

LEMMA FileThrowsStep == ASSUME IInv, FileThrows PROVE IInv'
<1>1. /\ pc = "file" /\ pc' = "threw" /\ buf' = buf
      /\ UNCHANGED given /\ el' = el /\ hole_el' = hole_el /\ eof' = eof /\ gets' = gets
  BY DEF FileThrows
<1>2. buf = [o \in Offsets |-> buf[o]]
  BY DEF IInv, Types
<1>3. FileTurn
  BY <1>1, <1>2 DEF FileTurn
<1> QED
  BY <1>1, <1>3, FileTurnKeeps

LEMMA FileEndsStep == ASSUME IInv, FileEnds PROVE IInv'
<1>1. /\ pc = "file" /\ hole_it = End /\ pc' = "flush" /\ buf' = buf
      /\ ret' = IF req.e >= eof THEN eof - req.b ELSE Size(req)
      /\ UNCHANGED given /\ el' = el /\ hole_el' = hole_el /\ eof' = eof /\ gets' = gets
  BY DEF FileEnds
<1>2. Types /\ InFile
  BY DEF IInv
<1>3. buf = [o \in Offsets |-> buf[o]]
  BY <1>2 DEF Types
<1>4. FileTurn
  BY <1>1, <1>3 DEF FileTurn
<1>5. fsize' = fsize /\ req' = req /\ TreesEnd' = TreesEnd
  BY <1>1, GivenStays
<1>6. \A x \in hole_el : Filled(x)'
  BY <1>1, <1>2, StaysFilled DEF InFile
<1>7. ret' = (IF req.e < TreesEnd THEN req.e ELSE TreesEnd) - req.b
  <2>1. eof = TreesEnd
    BY <1>1, <1>2 DEF InFile
  <2>2. TreesEnd \in Nat /\ req.e \in Nat /\ req.b \in Nat
    BY <1>2, GivenAre, ReadPathAssumption DEF Types
  <2> QED
    BY <1>1, <2>1, <2>2 DEF Size
<1>8. AtLast'
  BY <1>1, <1>5, <1>6, <1>7 DEF AtLast
<1> QED
  BY <1>1, <1>4, <1>8, FileTurnKeeps

-----------------------------------------------------------------------------
(* Gets that land.                                                         *)

\* Some of the outstanding Gets land; the read goes on, or it is flushed.
Landing(bytes) ==
    /\ bytes \subseteq gets
    /\ UNCHANGED given
    /\ el' = el /\ hole_el' = hole_el /\ hole_it' = hole_it /\ global_it' = global_it
    /\ eof' = eof /\ ret' = ret
    /\ buf' = Fill(bytes)
    /\ gets' = gets \ bytes
    /\ pc' = pc \/ (pc = "flush" /\ pc' = "done" /\ gets' = {})

\* A byte of the buffer changes only if it is found and its Get lands.
LEMMA LandingPuts ==
    ASSUME IInv, NEW bytes, Landing(bytes), NEW o \in Offsets
    PROVE  \/ /\ buf'[o] = buf[o]
              /\ \A g \in bytes : g # Wanted(o)
           \/ /\ buf'[o] = Ring(Found(o))
              /\ In(el, o)
              /\ \A g \in gets' : g # Wanted(o)
<1>1. /\ bytes \subseteq gets /\ gets' = gets \ bytes /\ buf' = Fill(bytes)
      /\ \A g \in gets : \E p \in Offsets : g = Wanted(p) /\ In(el, p) /\ buf[p] = Unset
  BY DEF Landing, IInv, Fetching
<1>2. CASE \A g \in bytes : g.ofs # o
  <2>1. buf'[o] = buf[o]
    BY <1>1, <1>2, FillIs
  <2>2. \A g \in bytes : g # Wanted(o)
    BY <1>2 DEF Wanted
  <2> QED
    BY <2>1, <2>2
<1>3. CASE \E g \in bytes : g.ofs = o
  <2>1. ASSUME NEW g \in bytes, g.ofs = o PROVE g = Wanted(o) /\ In(el, o)
    <3>1. PICK p \in Offsets : g = Wanted(p) /\ In(el, p)
      BY <1>1
    <3>2. p = o
      BY <2>1, <3>1 DEF Wanted
    <3> QED
      BY <3>1, <3>2
  <2>2. buf'[o] = Ring(Found(o))
    BY <1>1, <1>3, <2>1, FillIs
  <2>3. In(el, o) /\ Wanted(o) \in bytes
    BY <1>3, <2>1
  <2> QED
    BY <1>1, <2>2, <2>3
<1> QED
  BY <1>2, <1>3

LEMMA LandingStep == ASSUME IInv, NEW bytes, Landing(bytes) PROVE IInv'
<1>1. /\ bytes \subseteq gets /\ gets' = gets \ bytes /\ buf' = Fill(bytes)
      /\ UNCHANGED given /\ ret' = ret
      /\ el' = el /\ hole_el' = hole_el /\ hole_it' = hole_it /\ global_it' = global_it
      /\ eof' = eof
      /\ pc' = pc \/ (pc = "flush" /\ pc' = "done" /\ gets' = {})
  BY DEF Landing
<1>2. /\ local' = local /\ global' = global /\ fsize' = fsize /\ req' = req
      /\ \A o : Found(o)' = Found(o) /\ Wanted(o)' = Wanted(o)
      /\ TreesEnd' = TreesEnd /\ InRequest' = InRequest
  BY <1>1, GivenStays
<1>3. Types /\ AtFirst /\ Fetching /\ AllFound /\ InRemote /\ InFile /\ AtLast
  BY DEF IInv
<1>4. \A o \in Offsets : In(el', o) <=> In(el, o)
  BY <1>1
<1>5. \A o \in InRequest : o \in Offsets
  BY DEF InRequest
<1>6. \A o \in Offsets : ~ In(el, o) => buf'[o] = buf[o]
  BY LandingPuts
<1>7. Types'
  <2>1. buf' = [o \in Offsets |-> buf'[o]]
    BY <1>1, FillFills
  <2>2. pc' \in {"local", "remote", "file", "flush", "done", "threw", "crashed"}
    BY <1>1, <1>3 DEF Types
  <2> QED
    BY <1>1, <1>2, <1>3, <2>1, <2>2 DEF Types
<1>8. AtFirst'
  <2> SUFFICES ASSUME pc' = "local" PROVE AtFirst'
    BY DEF AtFirst
  <2>1. pc = "local" /\ el = {} /\ gets = {} /\ buf = [o \in Offsets |-> Unset]
    BY <1>1, <1>3 DEF AtFirst
  <2>2. \A o \in Offsets : buf'[o] = Unset
    BY <1>6, <2>1 DEF In
  <2>3. buf' = [o \in Offsets |-> buf'[o]]
    BY <1>1, FillFills
  <2>4. buf' = [o \in Offsets |-> Unset]
    BY <2>2, <2>3
  <2>5. gets' = {} /\ el' = {}
    BY <1>1, <2>1
  <2> QED
    BY <2>4, <2>5 DEF AtFirst
<1>9. Fetching'
  <2>1. ASSUME NEW o \in Offsets, In(el, o)
        PROVE  /\ Within(req, o) /\ Found(o) # Hole
               /\ buf'[o] = Ring(Found(o)) \/ Wanted(o) \in gets'
    <3>1. /\ Within(req, o) /\ Found(o) # Hole
          /\ buf[o] = Ring(Found(o)) \/ Wanted(o) \in gets
      BY <1>3, <2>1 DEF Fetching
    <3>2. CASE buf'[o] = Ring(Found(o))
      BY <3>1, <3>2
    <3>3. CASE buf'[o] = buf[o] /\ \A g \in bytes : g # Wanted(o)
      BY <1>1, <3>1, <3>3
    <3> QED
      BY <3>2, <3>3, LandingPuts
  <2>2. ASSUME NEW g \in gets'
        PROVE  \E o \in Offsets : g = Wanted(o) /\ In(el, o) /\ buf'[o] = Unset
    <3>1. PICK o \in Offsets : g = Wanted(o) /\ In(el, o) /\ buf[o] = Unset
      BY <1>1, <1>3 DEF Fetching
    <3>2. buf'[o] = buf[o]
      BY <2>2, <3>1, LandingPuts
    <3> QED
      BY <3>1, <3>2
  <2> QED
    BY <1>1, <1>2, <2>1, <2>2 DEF Fetching, In, Within
<1>10. AllFound'
  <2>1. pc' \notin {"local", "remote"} => pc \notin {"local", "remote"}
    BY <1>1
  <2> QED
    BY <1>1, <1>2, <1>3, <2>1 DEF AllFound, In, Within
<1>11. InRemote'
  <2> SUFFICES ASSUME pc' = "remote" PROVE InRemote'
    BY DEF InRemote
  <2>1. pc = "remote"
    BY <1>1
  <2>2. \A o \in InRequest : ~ In(el, o) => buf'[o] = Unset
    BY <1>3, <1>5, <1>6, <2>1 DEF InRemote
  <2> QED
    BY <1>1, <1>2, <1>3, <2>1, <2>2 DEF InRemote, HoleList, Extents, In, Within, Todo
<1>12. pc \in {"file", "flush", "done"} =>
          \A o \in InRequest : Found(o) = Hole => buf'[o] = buf[o]
  BY <1>3, <1>5, <1>6 DEF Fetching
<1>13. pc \in {"file", "flush", "done"} => \A x : Filled(x) => Filled(x)'
  BY <1>2, <1>12 DEF Filled, Within
<1>14. InFile'
  <2> SUFFICES ASSUME pc' = "file" PROVE InFile'
    BY DEF InFile
  <2>1. pc = "file"
    BY <1>1
  <2>2. \A x \in hole_el : hole_it = End \/ x.b < hole_it.b => Filled(x)'
    BY <1>3, <1>13, <2>1 DEF InFile
  <2> QED
    BY <1>1, <1>2, <1>3, <2>1, <2>2 DEF InFile, HoleList, Extents, In, Within
<1>15. AtLast'
  <2> SUFFICES ASSUME pc' \in {"flush", "done"} PROVE AtLast'
    BY DEF AtLast
  <2>1. pc \in {"flush", "done"}
    BY <1>1
  <2>2. \A x \in hole_el : Filled(x)'
    BY <1>3, <1>13, <2>1 DEF AtLast
  <2>3. pc' = "done" => gets' = {}
    BY <1>1, <1>3 DEF AtLast
  <2> QED
    BY <1>1, <1>2, <1>3, <2>1, <2>2, <2>3 DEF AtLast
<1> QED
  BY <1>7, <1>8, <1>9, <1>10, <1>11, <1>14, <1>15 DEF IInv

LEMMA LandsStep == ASSUME IInv, Lands PROVE IInv'
<1>1. PICK g \in gets : buf' = Fill({g}) /\ gets' = gets \ {g}
  BY DEF Lands
<1>2. Landing({g})
  BY <1>1 DEF Lands, Landing
<1> QED
  BY <1>2, LandingStep

LEMMA FlushStep == ASSUME IInv, Flush PROVE IInv'
<1>1. Landing(gets)
  BY DEF Flush, Landing
<1> QED
  BY <1>1, LandingStep

LEMMA NothingStep == ASSUME IInv, UNCHANGED vars PROVE IInv'
<1>1. UNCHANGED given /\ \A o : (Found(o)' = Found(o) /\ Wanted(o)' = Wanted(o))
  BY GivenStays DEF vars, given
<1>2. Types' /\ AtFirst' /\ Fetching' /\ AllFound'
  BY <1>1 DEF vars, given, IInv, Types, AtFirst, Fetching, AllFound, InRequest, In, Within
<1>3. InRemote' /\ InFile' /\ AtLast'
  BY <1>1, GivenStays DEF vars, given, IInv, InRemote, InFile, AtLast, HoleList, Extents, In,
     Within, Todo, Filled, InRequest
<1> QED
  BY <1>2, <1>3 DEF IInv

LEMMA StepIInv == IInv /\ [Next]_vars => IInv'
<1> SUFFICES ASSUME IInv, [Next]_vars PROVE IInv'
  OBVIOUS
<1>1. CASE ReadLocal
  BY <1>1, ReadLocalStep
<1>2. CASE Remote
  BY <1>2, RemoteStep
<1>3. CASE RemoteEnds
  BY <1>3, RemoteEndsStep
<1>4. CASE FileWhole
  BY <1>4, FileWholeStep
<1>5. CASE FileShort
  BY <1>5, FileShortStep
<1>6. CASE FileFill
  BY <1>6, FileFillStep
<1>7. CASE FileThrows
  BY <1>7, FileThrowsStep
<1>8. CASE FileEnds
  BY <1>8, FileEndsStep
<1>9. CASE Flush
  BY <1>9, FlushStep
<1>10. CASE Lands
  BY <1>10, LandsStep
<1>11. CASE Ended \/ UNCHANGED vars
  BY <1>11, NothingStep DEF Ended
<1> QED
  BY <1>1, <1>2, <1>3, <1>4, <1>5, <1>6, <1>7, <1>8, <1>9, <1>10, <1>11 DEF Next, Step

-----------------------------------------------------------------------------
(* What the invariant says.                                                *)

LEMMA IInvReadsRight == IInv => ReadsRight
<1> SUFFICES ASSUME IInv PROVE ReadsRight
  OBVIOUS
<1>1. Types /\ Fetching /\ AllFound /\ AtLast
  BY DEF IInv
<1>2. OneWriter
  <2> SUFFICES ASSUME NEW g \in gets
               PROVE  buf[g.ofs] = Unset /\ \A h \in gets : h.ofs = g.ofs => h = g
    BY DEF OneWriter
  <2>1. PICK o \in Offsets : g = Wanted(o) /\ buf[o] = Unset
    BY <1>1 DEF Fetching
  <2>2. g.ofs = o
    BY <2>1 DEF Wanted
  <2>3. ASSUME NEW h \in gets, h.ofs = o PROVE h = g
    <3>1. PICK p \in Offsets : h = Wanted(p)
      BY <1>1 DEF Fetching
    <3>2. p = o
      BY <2>3, <3>1 DEF Wanted
    <3> QED
      BY <2>1, <3>1, <3>2
  <2> QED
    BY <2>1, <2>2, <2>3
<1>3. FindsWritten
  <2> SUFFICES ASSUME pc = "done", NEW o \in InRequest, Found(o) # Hole
               PROVE  buf[o] = Ring(Found(o))
    BY DEF FindsWritten
  <2>1. gets = {}
    BY <1>1 DEF AtLast
  <2>2. In(el, o) /\ o \in Offsets
    BY <1>1 DEF AllFound, InRequest
  <2> QED
    BY <1>1, <2>1, <2>2 DEF Fetching
<1>4. FillsHoles
  BY <1>1 DEF FillsHoles, AtLast, Filled
<1>5. ReturnsLength
  BY <1>1 DEF ReturnsLength, AtLast
<1> QED
  BY <1>2, <1>3, <1>4, <1>5 DEF ReadsRight

\* The extents of the other ranks, one for each node of the global tree.
LEMMA OthersAre ==
    ASSUME Types, NEW xs, xs = {Extent(m.b, m.e) : m \in global}
    PROVE  Extents(xs) /\ IsFiniteSet(xs)
<1>1. /\ IsFiniteSet(global)
      /\ \A m \in global : m.b \in Offsets /\ m.e \in 0 .. MaxOffset /\ m.b < m.e
      /\ \A o \in Offsets : o \in Nat
  BY GivenAre
<1>2. Extents(xs)
  <2> SUFFICES ASSUME NEW x \in xs PROVE x.b \in Nat /\ x.e \in 0 .. MaxOffset /\ x.b <= x.e
    BY DEF Extents
  <2>1. PICK m \in global : x = Extent(m.b, m.e)
    OBVIOUS
  <2>2. m.b \in Nat /\ m.e \in 0 .. MaxOffset /\ m.b < m.e
    BY <1>1
  <2>3. m.b <= m.e
    BY <2>2, ReadPathAssumption
  <2> QED
    BY <2>1, <2>2, <2>3 DEF Extent
<1>3. IsFiniteSet(xs)
  <2> DEFINE f == [m \in global |-> Extent(m.b, m.e)]
  <2>1. f \in [global -> xs]
    OBVIOUS
  <2>2. \A x \in xs : \E m \in global : f[m] = x
    OBVIOUS
  <2>3. f \in Surjection(global, xs)
    BY <2>1, <2>2 DEF Surjection
  <2> QED
    BY <1>1, <2>3, FS_Surjection
<1> QED
  BY <1>2, <1>3

LEMMA IInvHolesExact == IInv => HolesExact
<1> SUFFICES ASSUME IInv PROVE HolesExact
  OBVIOUS
<1>1. Types /\ InFile /\ List(el)
  BY DEF IInv, Types
<1>2. PICK xs : xs = {Extent(m.b, m.e) : m \in global}
  OBVIOUS
<1>3. PICK others : others = AddAll({}, xs)
  OBVIOUS
<1>4. PICK both : both = IntersectionOf(el, others)
  OBVIOUS
<1>5. List(others)
  BY <1>1, <1>2, <1>3, OthersAre, AddAllIs
<1>6. /\ \A o \in Nat : In(both, o) <=> In(el, o) /\ In(others, o)
      /\ \A x, y \in both : x # y => ~ Overlaps(x, y)
  BY <1>1, <1>4, <1>5, IntersectionIs
<1>7. \A o \in Offsets : o \in Nat
  BY <1>1, GivenAre
<1>8. Covered(both) = Covered(el) \cap Covered(others)
  BY <1>6, <1>7 DEF Covered, In
<1>9. pc = "file" => Covered(hole_el) = {o \in InRequest : Found(o) = Hole}
  BY <1>1 DEF InFile, Covered, In, InRequest
<1> QED
  BY <1>2, <1>3, <1>4, <1>6, <1>8, <1>9 DEF HolesExact

-----------------------------------------------------------------------------
(* The turns of the loops.                                                 *)

LEMMA FewerAhead ==
    ASSUME NEW S, IsFiniteSet(S), NEW T, T \subseteq S
    PROVE  /\ Cardinality(T) \in Nat /\ Cardinality(S) \in Nat
           /\ Cardinality(T) <= Cardinality(S)
           /\ T # S => Cardinality(T) < Cardinality(S)
<1>1. IsFiniteSet(T) /\ Cardinality(T) <= Cardinality(S)
      /\ (Cardinality(S) = Cardinality(T) => S = T)
  BY FS_Subset
<1>2. Cardinality(T) \in Nat /\ Cardinality(S) \in Nat
  BY <1>1, FS_CardinalityType
<1> QED
  BY <1>1, <1>2

\* The holes and the nodes that the loops have ahead of them.
HolesAhead == {x \in hole_el : hole_it # End /\ x.b >= hole_it.b}

NodesAhead == {m \in global : pc = "remote" /\ global_it # End /\ m.b >= global_it.b}

LEMMA FewerInBoth ==
    ASSUME IsFiniteSet(hole_el), IsFiniteSet(global),
           HolesAhead' \subseteq HolesAhead, NodesAhead' \subseteq NodesAhead,
           HolesAhead' # HolesAhead \/ NodesAhead' # NodesAhead
    PROVE  Ahead' < Ahead
<1>1. PICK S, S1, T, T1 : S = HolesAhead /\ S1 = HolesAhead' /\ T = NodesAhead /\ T1 = NodesAhead'
  OBVIOUS
<1>2. IsFiniteSet(S) /\ IsFiniteSet(T)
  <2>1. S \subseteq hole_el /\ T \subseteq global
    BY <1>1 DEF HolesAhead, NodesAhead
  <2> QED
    BY <2>1, FS_Subset
<1>3. /\ Cardinality(S1) \in Nat /\ Cardinality(S) \in Nat /\ Cardinality(S1) <= Cardinality(S)
      /\ S1 # S => Cardinality(S1) < Cardinality(S)
  BY <1>1, <1>2, FewerAhead
<1>4. /\ Cardinality(T1) \in Nat /\ Cardinality(T) \in Nat /\ Cardinality(T1) <= Cardinality(T)
      /\ T1 # T => Cardinality(T1) < Cardinality(T)
  BY <1>1, <1>2, FewerAhead
<1>5. Ahead = Cardinality(S) + Cardinality(T) /\ Ahead' = Cardinality(S1) + Cardinality(T1)
  BY <1>1 DEF Ahead, HolesAhead, NodesAhead
<1>6. S1 # S \/ T1 # T
  BY <1>1
<1> QED
  BY <1>3, <1>4, <1>5, <1>6

\* An iterator that is advanced leaves what it pointed to behind.
LEMMA NextLeaves ==
    ASSUME NEW L, \A x \in L : x.b \in Nat, NEW x \in L, NEW y, y = NextOf(L, x)
    PROVE  /\ {z \in L : y # End /\ z.b >= y.b} \subseteq {z \in L : z.b >= x.b}
           /\ x \notin {z \in L : y # End /\ z.b >= y.b}
<1>1. y \in L \cup {End} /\ (y # End => y.b > x.b)
  BY NextIs
<1>2. ASSUME NEW z \in L, y # End, z.b >= y.b PROVE z.b >= x.b /\ z # x
  BY <1>1, <1>2
<1> QED
  BY <1>2

LEMMA RemoteAdvances == ASSUME IInv, Remote PROVE Ahead' < Ahead
<1>1. PICK h : h = hole_it
  OBVIOUS
<1>2. PICK m : m = global_it
  OBVIOUS
<1>3. /\ pc = "remote" /\ pc' = "remote" /\ h # End /\ m # End
      /\ hole_it' = IF h.e <= m.e THEN NextOf(hole_el, h) ELSE h
      /\ global_it' = IF m.e <= h.e THEN NextOf(global, m) ELSE m
      /\ hole_el' = hole_el /\ UNCHANGED given
  BY <1>1, <1>2 DEF Remote
<1>4. global' = global
  BY <1>3, GivenStays
<1>5. Types /\ HoleList(hole_el, req) /\ h \in hole_el /\ m \in global
  BY <1>1, <1>2, <1>3 DEF IInv, InRemote
<1>6. IsFiniteSet(hole_el) /\ IsFiniteSet(global)
  BY <1>5, GivenAre DEF HoleList
<1>7. (\A x \in hole_el : x.b \in Nat) /\ h.e \in Nat
  BY <1>5 DEF HoleList, Extents
<1>8. (\A n \in global : n.b \in Nat) /\ m.e \in Nat
  BY <1>5, GivenAre
<1>9. HolesAhead = {x \in hole_el : x.b >= h.b} /\ h \in HolesAhead
  BY <1>1, <1>3, <1>5, <1>7 DEF HolesAhead
<1>10. NodesAhead = {n \in global : n.b >= m.b} /\ m \in NodesAhead
  BY <1>2, <1>3, <1>5, <1>8 DEF NodesAhead
<1>11. h.e <= m.e => HolesAhead' \subseteq HolesAhead /\ h \notin HolesAhead'
  <2> SUFFICES ASSUME h.e <= m.e PROVE HolesAhead' \subseteq HolesAhead /\ h \notin HolesAhead'
    OBVIOUS
  <2>1. PICK y : y = NextOf(hole_el, h)
    OBVIOUS
  <2>2. HolesAhead' = {x \in hole_el : y # End /\ x.b >= y.b}
    BY <1>3, <2>1 DEF HolesAhead
  <2> QED
    BY <1>5, <1>7, <1>9, <2>1, <2>2, NextLeaves
<1>12. ~ h.e <= m.e => HolesAhead' = HolesAhead
  BY <1>1, <1>3 DEF HolesAhead
<1>13. m.e <= h.e => NodesAhead' \subseteq NodesAhead /\ m \notin NodesAhead'
  <2> SUFFICES ASSUME m.e <= h.e PROVE NodesAhead' \subseteq NodesAhead /\ m \notin NodesAhead'
    OBVIOUS
  <2>1. PICK y : y = NextOf(global, m)
    OBVIOUS
  <2>2. NodesAhead' = {n \in global : y # End /\ n.b >= y.b}
    BY <1>3, <1>4, <2>1 DEF NodesAhead
  <2> QED
    BY <1>5, <1>8, <1>10, <2>1, <2>2, NextLeaves
<1>14. ~ m.e <= h.e => NodesAhead' = NodesAhead
  BY <1>2, <1>3, <1>4 DEF NodesAhead
<1>15. h.e <= m.e \/ m.e <= h.e
  BY <1>7, <1>8
<1> QED
  BY <1>6, <1>9, <1>10, <1>11, <1>12, <1>13, <1>14, <1>15, FewerInBoth

\* In the file phase there are no nodes ahead, and the hole is left behind.
LEMMA FileAdvances ==
    ASSUME IInv, pc = "file", pc' = "file", hole_it # End, UNCHANGED given, hole_el' = hole_el,
           hole_it' # End => hole_it' \in hole_el /\ hole_it'.b > hole_it.b
    PROVE  Ahead' < Ahead
<1>1. Types /\ HoleList(hole_el, req) /\ hole_it \in hole_el
  BY DEF IInv, InFile
<1>2. IsFiniteSet(hole_el) /\ IsFiniteSet(global)
  BY <1>1, GivenAre DEF HoleList
<1>3. \A x \in hole_el : x.b \in Nat
  BY <1>1 DEF HoleList, Extents
<1>4. HolesAhead' \subseteq HolesAhead
  BY <1>1, <1>3 DEF HolesAhead
<1>5. hole_it \in HolesAhead /\ hole_it \notin HolesAhead'
  BY <1>1, <1>3 DEF HolesAhead
<1>6. NodesAhead = {} /\ NodesAhead' = {}
  BY DEF NodesAhead
<1> QED
  BY <1>2, <1>4, <1>5, <1>6, FewerInBoth

LEMMA FileWholeAdvances == ASSUME IInv, FileWhole PROVE Ahead' < Ahead
<1>1. /\ pc = "file" /\ pc' = "file" /\ hole_it # End
      /\ UNCHANGED given /\ hole_el' = hole_el /\ hole_it' = NextOf(hole_el, hole_it)
  BY DEF FileWhole
<1>2. HoleList(hole_el, req) /\ hole_it \in hole_el
  BY <1>1 DEF IInv, InFile
<1>3. \A x \in hole_el : x.b \in Nat
  BY <1>2 DEF HoleList, Extents
<1>4. hole_it' # End => hole_it' \in hole_el /\ hole_it'.b > hole_it.b
  BY <1>1, <1>2, <1>3, NextIs
<1> QED
  BY <1>1, <1>4, FileAdvances

LEMMA FileShortAdvances == ASSUME IInv, FileShort PROVE Ahead' < Ahead
  BY FileAdvances DEF FileShort

LEMMA FileFillAdvances == ASSUME IInv, FileFill, pc' = pc PROVE Ahead' < Ahead
<1>1. PICK h : h = hole_it
  OBVIOUS
<1>2. /\ pc = "file" /\ h # End /\ From < eof /\ BeyondEof # End
      /\ UNCHANGED given /\ hole_el' = hole_el /\ hole_it' = NextOf(hole_el, BeyondEof)
  BY <1>1 DEF FileFill
<1>3. HoleList(hole_el, req) /\ h \in hole_el /\ Types /\ eof = TreesEnd
  BY <1>1, <1>2 DEF IInv, InFile
<1>4. (\A x \in hole_el : x.b \in Nat) /\ fsize \in Nat /\ eof \in Nat
  BY <1>3, GivenAre, ReadPathAssumption DEF HoleList, Extents, Types
<1>5. h.b < eof
  <2>1. From = IF fsize < h.b THEN h.b ELSE fsize
    BY <1>1 DEF From
  <2> QED
    BY <1>2, <1>3, <1>4, <2>1
<1>6. PICK y : y = BeyondEof
  OBVIOUS
<1>7. y \in hole_el /\ y.b >= eof
  <2>1. PICK S : S = {x \in hole_el : x.b >= eof}
    OBVIOUS
  <2>2. y = First(S) /\ y # End
    BY <1>2, <1>6, <2>1 DEF BeyondEof
  <2>3. S # {}
    BY <2>2 DEF First
  <2>4. y \in S
    BY <1>4, <2>1, <2>2, <2>3, FirstOf
  <2> QED
    BY <2>1, <2>4
<1>8. hole_it' # End => hole_it' \in hole_el /\ hole_it'.b > y.b
  BY <1>2, <1>4, <1>6, <1>7, NextIs
<1>9. hole_it' # End => hole_it' \in hole_el /\ hole_it'.b > hole_it.b
  BY <1>1, <1>3, <1>4, <1>5, <1>7, <1>8
<1> QED
  BY <1>1, <1>2, <1>9, FileAdvances

LEMMA StepAdvances == IInv /\ [Next]_vars => [pc' = pc /\ ~ Lands => Ahead' < Ahead]_vars
<1> SUFFICES ASSUME IInv, [Next]_vars, ~ UNCHANGED vars, pc' = pc, ~ Lands
             PROVE  Ahead' < Ahead
  OBVIOUS
<1>1. CASE Remote
  BY <1>1, RemoteAdvances
<1>2. CASE FileWhole
  BY <1>2, FileWholeAdvances
<1>3. CASE FileShort
  BY <1>3, FileShortAdvances
<1>4. CASE FileFill
  BY <1>4, FileFillAdvances
<1>5. ~ ReadLocal
  BY DEF ReadLocal, ReturnAll, EnterRemote, EnterFile
<1>6. ~ RemoteEnds /\ ~ FileThrows /\ ~ FileEnds /\ ~ Flush
  BY DEF RemoteEnds, ReturnAll, EnterFile, FileThrows, FileEnds, Flush
<1>7. ~ Ended
  BY DEF Ended
<1> QED
  BY <1>1, <1>2, <1>3, <1>4, <1>5, <1>6, <1>7 DEF Next, Step

-----------------------------------------------------------------------------
(* Theorems.                                                               *)

LEMMA AlwaysIInv == Spec => []IInv
<1> QED
  BY InitIInv, StepIInv, PTL DEF Spec

\* For all trees, files and requests: while a read is under way each byte of its
\* buffer has one writer, though Gets land when they like (bb.hpp:243-262); and a
\* read that has returned has the bytes of the rings, of the file and the zeros in
\* their places and returns their number (bb.hpp:193-311).
THEOREM ReadsAlwaysRight == Spec => []ReadsRight
<1> QED
  BY AlwaysIInv, IInvReadsRight, PTL

\* For all trees and requests: the walk over the local tree and the one over the
\* holes and the global tree (bb.hpp:212-265) leave to the file exactly the bytes
\* that no tree knows, and the walk along two lists (extent_list.hpp:100-136) gives
\* what is in both, once.
THEOREM HolesAlwaysExact == Spec => []HolesExact
<1> QED
  BY AlwaysIInv, IInvHolesExact, PTL

\* For all trees and requests: no turn of the loops (bb.hpp:238-265, 269-308)
\* leaves as much ahead of it as there was, so they come to an end.
THEOREM LoopsAlwaysAdvance == Spec => LoopsAdvance
<1> QED
  BY AlwaysIInv, StepAdvances, PTL DEF Spec, LoopsAdvance

=============================================================================
