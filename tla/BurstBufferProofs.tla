-------------------------- MODULE BurstBufferProofs --------------------------
(***************************************************************************)
(* For every number of ranks, ring size, file length and set of extents:   *)
(* a rank never finds a byte at a file offset it was not written to        *)
(* (NoMisdirectedRead), and ranks that have made the same collective calls *)
(* have the same global tree and file size (Converged).  As long as each   *)
(* rank writes one piece between synchronisations, the handlers implement  *)
(* the file of EpochFile.                                                  *)
(***************************************************************************)
EXTENDS BurstBuffer, ExtentTreeProofs

-----------------------------------------------------------------------------
(* Trees that tell the truth.                                              *)

\* The ring byte loc of the rings log was written to file offset o.
Holds(log, loc, o) ==
    /\ loc[1] \in Ranks
    /\ loc[2] \in Nat /\ loc[2] < Len(log[loc[1]])
    /\ log[loc[1]][loc[2] + 1][3] = o

Sound(log, T) ==
    /\ Tree(T)
    /\ \A o \in Nat : LocationOf(T, o) # Hole =>
          o < MaxOffset /\ Holds(log, LocationOf(T, o), o)

LEMMA EmptyIsSound == ASSUME NEW log PROVE Sound(log, {})
  BY DEF Sound, Tree, NonEmpty, Disjoint, LocationOf

\* A tree that has its bytes where sound trees have them is sound.
LEMMA SoundFromTwo ==
    ASSUME NEW log, NEW T, Sound(log, T), NEW U, Sound(log, U), NEW S, Tree(S),
           \A o \in Nat : LocationOf(S, o) \in {Hole, LocationOf(T, o), LocationOf(U, o)}
    PROVE  Sound(log, S)
  BY DEF Sound

\* The node m that begins or ends at a byte is where its bytes are.
LEMMA SoundNode ==
    ASSUME NEW log, NEW T, Sound(log, T), NEW m \in T, NEW o \in Nat, Covers(m, o)
    PROVE  /\ o < MaxOffset
           /\ m.client \in Ranks
           /\ m.ptr + (o - m.b) \in Nat /\ m.ptr + (o - m.b) < Len(log[m.client])
           /\ log[m.client][m.ptr + (o - m.b) + 1][3] = o
<1>1. LocationOf(T, o) = <<m.client, m.ptr + (o - m.b)>>
  BY LocationIs DEF Sound, Location
<1>2. LocationOf(T, o) # Hole
  BY <1>1 DEF Hole
<1> QED
  BY <1>1, <1>2 DEF Sound, Holds

LEMMA SoundBounds ==
    ASSUME NEW log, NEW T, Sound(log, T), NEW m \in T, MaxOffset \in Nat,
           \A r \in Ranks : Len(log[r]) \in Nat
    PROVE  /\ m \in TreeNodes /\ m.b < m.e /\ m.e <= MaxOffset
           /\ m.client \in Ranks /\ m.ptr >= 0 /\ m.ptr + Size(m) <= Len(log[m.client])
<1>1. m \in TreeNodes /\ m.b \in Nat /\ m.e \in Nat /\ m.ptr \in Int /\ m.b < m.e
  BY DEF Sound, Tree, NonEmpty, TreeNodes
<1>2. Covers(m, m.b)
  BY <1>1 DEF Covers
<1>3. m.client \in Ranks /\ m.ptr + (m.b - m.b) \in Nat
  BY <1>1, <1>2, SoundNode
<1>4. m.e - 1 \in Nat /\ Covers(m, m.e - 1)
  BY <1>1 DEF Covers
<1>5. m.e - 1 < MaxOffset /\ m.ptr + ((m.e - 1) - m.b) < Len(log[m.client])
  BY <1>1, <1>4, SoundNode
<1>6. Len(log[m.client]) \in Nat
  BY <1>3
<1>7. m.ptr >= 0
  BY <1>1, <1>3
<1>8. m.e <= MaxOffset
  BY <1>1, <1>5
<1>9. m.ptr + (m.e - m.b) <= Len(log[m.client])
  BY <1>1, <1>5, <1>6
<1> QED
  BY <1>1, <1>3, <1>7, <1>8, <1>9 DEF Size

\* The nodes of a tree have different begins, which are bytes of the file.
LEMMA SoundFinite ==
    ASSUME NEW log, NEW T, Sound(log, T), MaxOffset \in Nat
    PROVE  IsFiniteSet(T)
<1> DEFINE f == [m \in T |-> m.b]
<1>1. ASSUME NEW m \in T PROVE m.b \in 0 .. MaxOffset
  <2>1. m.b \in Nat /\ m.e \in Nat /\ m.b < m.e
    BY DEF Sound, Tree, NonEmpty, TreeNodes
  <2>2. m.b < MaxOffset
    BY <2>1, SoundNode DEF Covers
  <2> QED
    BY <2>1, <2>2
<1>2. f \in Injection(T, 0 .. MaxOffset)
  <2>1. f \in [T -> 0 .. MaxOffset]
    BY <1>1
  <2>2. \A m, k \in T : f[m] = f[k] => m = k
    BY OneNodePerBegin DEF Sound
  <2> QED
    BY <2>1, <2>2 DEF Injection, IsInjective
<1>3. IsFiniteSet(0 .. MaxOffset)
  BY FS_Interval
<1> QED
  BY <1>2, <1>3, FS_Injection

\* The last node of a sound tree ends behind all of its bytes.
LEMMA SoundBackEnd ==
    ASSUME NEW log, NEW T, Sound(log, T), MaxOffset \in Nat
    PROVE  /\ BackEnd(T) \in Nat
           /\ \A m \in T : m.e <= BackEnd(T)
           /\ BackEnd(T) <= MaxOffset
<1>1. CASE T = {}
  BY <1>1 DEF BackEnd
<1>2. CASE T # {}
  <2>1. T \subseteq TreeNodes
    BY DEF Sound, Tree
  <2>2. ASSUME NEW m \in T PROVE m.b \in Nat /\ m.e \in Nat /\ m.b < m.e /\ m.e <= MaxOffset
    <3>1. m.b \in Nat /\ m.e \in Nat /\ m.b < m.e
      BY DEF Sound, Tree, NonEmpty, TreeNodes
    <3>2. m.e - 1 \in Nat /\ Covers(m, m.e - 1)
      BY <3>1 DEF Covers
    <3>3. m.e - 1 < MaxOffset
      BY <3>2, SoundNode
    <3> QED
      BY <3>1, <3>3
  <2>3. Back(T) \in T /\ \A m \in T : m.b <= Back(T).b
    <3>1. \A m \in T : m.b < MaxOffset
      BY <2>2
    <3> QED
      BY <1>2, <2>1, <3>1, BackIs
  <2>4. PICK k \in T : k = Back(T)
    BY <2>3
  <2>5. ASSUME NEW m \in T PROVE m.e <= k.e
    <3>1. CASE m = k
      BY <2>2, <3>1
    <3>2. CASE m # k
      <4>1. ~ Overlaps(m, k)
        BY <3>2 DEF Sound, Tree, Disjoint
      <4>2. m.b <= k.b /\ m.b < m.e /\ k.b < k.e
        BY <2>2, <2>3, <2>4
      <4> QED
        BY <2>2, <4>1, <4>2 DEF Overlaps
    <3> QED
      BY <3>1, <3>2
  <2> QED
    BY <1>2, <2>2, <2>4, <2>5 DEF BackEnd
<1> QED
  BY <1>1, <1>2

\* Every byte of a sound tree is before the end of its last node.
LEMMA SoundBefore ==
    ASSUME NEW log, NEW T, Sound(log, T), MaxOffset \in Nat,
           NEW o \in Nat, LocationOf(T, o) # Hole
    PROVE  o < BackEnd(T)
<1>1. PICK m \in T : Covers(m, o)
  BY HoleIs
<1>2. m.e \in Nat /\ m.e <= BackEnd(T) /\ BackEnd(T) \in Nat
  BY SoundBackEnd DEF Sound, Tree, TreeNodes
<1> QED
  BY <1>1, <1>2 DEF Covers

-----------------------------------------------------------------------------
(* What keeps a tree sound.                                                *)

\* The rings only grow.
Grows(log2, log) ==
    \A r \in Ranks :
        /\ Len(log[r]) \in Nat /\ Len(log2[r]) \in Nat /\ Len(log[r]) <= Len(log2[r])
        /\ \A i \in 1 .. Len(log[r]) : log2[r][i] = log[r][i]

LEMMA SoundInLonger ==
    ASSUME NEW log, NEW log2, Grows(log2, log), NEW T, Sound(log, T)
    PROVE  Sound(log2, T)
<1> SUFFICES ASSUME NEW o \in Nat, LocationOf(T, o) # Hole
             PROVE  o < MaxOffset /\ Holds(log2, LocationOf(T, o), o)
  BY DEF Sound
<1>1. PICK loc : loc = LocationOf(T, o)
  OBVIOUS
<1>2. o < MaxOffset /\ Holds(log, loc, o)
  BY <1>1 DEF Sound
<1>3. loc[1] \in Ranks /\ loc[2] \in Nat /\ loc[2] < Len(log[loc[1]])
  BY <1>2 DEF Holds
<1>4. PICK r \in Ranks : r = loc[1]
  BY <1>3
<1>5. loc[2] + 1 \in 1 .. Len(log[r]) /\ loc[2] < Len(log2[r])
  BY <1>3, <1>4 DEF Grows
<1>6. log2[r][loc[2] + 1] = log[r][loc[2] + 1]
  BY <1>5 DEF Grows
<1> QED
  BY <1>1, <1>2, <1>4, <1>5, <1>6 DEF Holds

\* A node is added whose bytes are in the ring.
LEMMA SoundAfterAdd ==
    ASSUME NEW log, NEW T, Sound(log, T), NEW v \in TreeNodes, v.b < v.e, v.e <= MaxOffset,
           \A o \in Nat : Covers(v, o) => Holds(log, Location(v, o), o), MaxOffset \in Nat
    PROVE  Sound(log, Add(T, v))
<1>1. Tree(T)
  BY DEF Sound
<1>2. Tree(Add(T, v))
  BY <1>1, AddAssigns
<1>3. ASSUME NEW o \in Nat, LocationOf(Add(T, v), o) # Hole
      PROVE  o < MaxOffset /\ Holds(log, LocationOf(Add(T, v), o), o)
  <2>1. LocationOf(Add(T, v), o) = IF Covers(v, o) THEN Location(v, o) ELSE LocationOf(T, o)
    BY <1>1, AddAssigns
  <2>2. CASE Covers(v, o)
    <3>1. o < MaxOffset
      BY <2>2 DEF Covers, TreeNodes
    <3> QED
      BY <2>1, <2>2, <3>1
  <2>3. CASE ~ Covers(v, o)
    BY <1>3, <2>1, <2>3 DEF Sound
  <2> QED
    BY <2>2, <2>3
<1> QED
  BY <1>2, <1>3 DEF Sound

\* The bytes behind the new size are taken out.
LEMMA SoundAfterTrim ==
    ASSUME NEW log, NEW T, Sound(log, T), NEW size \in Nat, MaxOffset \in Nat
    PROVE  Sound(log, Trim(T, size))
<1>1. CASE T # {} /\ BackEnd(T) > size
  <2>1. PICK v : v = Node(size, MaxOffset, 0, 0)
    OBVIOUS
  <2>2. v.b = size /\ v.e = MaxOffset
    BY <2>1 DEF Node
  <2>3. size <= MaxOffset
    BY <1>1, SoundBackEnd
  <2>4. IsExtent(v)
    BY <2>2, <2>3 DEF IsExtent
  <2>5. Tree(T)
    BY DEF Sound
  <2>6. Tree(Remove(T, v))
    BY <2>4, <2>5, RemoveErases
  <2>7. \A o \in Nat : LocationOf(Remove(T, v), o) \in {Hole, LocationOf(T, o)}
    BY <2>4, <2>5, RemoveErases
  <2>8. Sound(log, Remove(T, v))
    BY <2>6, <2>7, SoundFromTwo
  <2> QED
    BY <1>1, <2>1, <2>8 DEF Trim
<1>2. CASE ~ (T # {} /\ BackEnd(T) > size)
  BY <1>2 DEF Trim
<1> QED
  BY <1>1, <1>2

LEMMA SoundAfterMerge ==
    ASSUME NEW log, NEW T, Sound(log, T), NEW U, Sound(log, U), MaxOffset \in Nat
    PROVE  Sound(log, Merge(T, U))
<1>1. Tree(T) /\ Tree(U) /\ IsFiniteSet(U)
  BY SoundFinite DEF Sound
<1>2. Tree(Merge(T, U))
  BY <1>1, MergeInvents
<1>3. \A o \in Nat : LocationOf(Merge(T, U), o) \in {Hole, LocationOf(T, o), LocationOf(U, o)}
  BY <1>1, MergeInvents
<1> QED
  BY <1>2, <1>3, SoundFromTwo

\* The trees of all ranks are merged one after the other.
Merges(f, N, T, offered) ==
    f = [n \in 0 .. N |-> IF n = 0 THEN T ELSE Merge(f[n - 1], offered[n - 1])]

LEMMA MergesExist ==
    ASSUME NEW T, NEW offered, NEW N \in Nat
    PROVE  \E f : Merges(f, N, T, offered)
<1> USE DEF Merges
<1> DEFINE Short == {k \in Nat : ~ \E f : Merges(f, k, T, offered)}
<1> SUFFICES ASSUME Short # {} PROVE FALSE
  OBVIOUS
<1>1. PICK k \in Short : \A m \in Short : k <= m
  BY SmallestExists
<1>2. CASE k = 0
  <2>1. PICK f : f = [n \in 0 .. 0 |-> T]
    OBVIOUS
  <2>2. f = [n \in 0 .. k |-> IF n = 0 THEN T ELSE Merge(f[n - 1], offered[n - 1])]
    BY <1>2, <2>1
  <2> QED
    BY <2>2
<1>3. CASE k # 0
  <2>1. k - 1 \in Nat /\ k - 1 \notin Short
    BY <1>1, <1>3
  <2>2. PICK f : f = [n \in 0 .. k - 1 |-> IF n = 0 THEN T ELSE Merge(f[n - 1], offered[n - 1])]
    BY <2>1
  <2>3. PICK g : g = [n \in 0 .. k |-> IF n = 0 THEN T ELSE Merge(f[n - 1], offered[n - 1])]
    OBVIOUS
  <2>4. ASSUME NEW n \in 0 .. k, n # 0 PROVE g[n - 1] = f[n - 1]
    <3>1. n - 1 \in 0 .. k - 1 /\ n - 1 \in 0 .. k
      BY <1>1, <2>4
    <3>2. f[n - 1] = IF n - 1 = 0 THEN T ELSE Merge(f[(n - 1) - 1], offered[(n - 1) - 1])
      BY <2>2, <3>1
    <3>3. g[n - 1] = IF n - 1 = 0 THEN T ELSE Merge(f[(n - 1) - 1], offered[(n - 1) - 1])
      BY <2>3, <3>1
    <3> QED
      BY <3>2, <3>3
  <2>5. g = [n \in 0 .. k |-> IF n = 0 THEN T ELSE Merge(g[n - 1], offered[n - 1])]
    BY <2>3, <2>4
  <2> QED
    BY <2>5
<1> QED
  BY <1>2, <1>3

LEMMA SoundAfterAll ==
    ASSUME NEW log, NEW T, Sound(log, T), NEW offered,
           \A r \in Ranks : Sound(log, offered[r]), MaxOffset \in Nat, NRanks \in Nat
    PROVE  Sound(log, MergeAll(T, offered))
<1>1. PICK f : f = CHOOSE g : Merges(g, NRanks, T, offered)
  OBVIOUS
<1>2. f = [n \in 0 .. NRanks |-> IF n = 0 THEN T ELSE Merge(f[n - 1], offered[n - 1])]
  <2>1. \E g : Merges(g, NRanks, T, offered)
    BY MergesExist
  <2>2. Merges(f, NRanks, T, offered)
    BY <1>1, <2>1
  <2> QED
    BY <2>2 DEF Merges
<1>3. MergeAll(T, offered) = f[NRanks]
  BY <1>1 DEF MergeAll, Merges
<1> DEFINE Bad == {n \in 0 .. NRanks : ~ Sound(log, f[n])}
<1>4. CASE Bad = {}
  BY <1>3, <1>4
<1>5. CASE Bad # {}
  <2>1. PICK n \in Bad : \A m \in Bad : n <= m
    <3>1. Bad \in SUBSET Nat
      OBVIOUS
    <3> HIDE DEF Bad
    <3> QED
      BY <1>5, <3>1, SmallestExists
  <2>2. n # 0
    BY <1>2, <2>1
  <2>3. n - 1 \in 0 .. NRanks /\ n - 1 \notin Bad /\ n - 1 \in Ranks
    BY <2>1, <2>2 DEF Ranks
  <2>4. Sound(log, f[n - 1]) /\ Sound(log, offered[n - 1])
    BY <2>3
  <2>5. f[n] = Merge(f[n - 1], offered[n - 1])
    BY <1>2, <2>1, <2>2
  <2>6. Sound(log, Merge(f[n - 1], offered[n - 1]))
    BY <2>4, SoundAfterMerge
  <2> QED
    BY <2>1, <2>5, <2>6
<1> QED
  BY <1>4, <1>5

-----------------------------------------------------------------------------
(* The collective calls.                                                   *)

Bytes  == Ranks \X Nat \X Nat
Trees  == SUBSET TreeNodes
Offers == UNION {[D -> Trees] : D \in SUBSET Ranks}
Calls  == [op : {"sync", "truncate"}, size : Nat, offered : Offers, root : Nat \cup {Pending, Failed}]

\* An offer with the tree of one more rank.
LEMMA OneMoreOffer ==
    ASSUME NEW f \in Offers, NEW r \in Ranks, NEW T \in Trees
    PROVE  /\ WithOffer(f, r, T) \in Offers
           /\ DOMAIN WithOffer(f, r, T) = DOMAIN f \cup {r}
           /\ WithOffer(f, r, T)[r] = T
           /\ \A q \in DOMAIN f : q # r => WithOffer(f, r, T)[q] = f[q]
<1>1. PICK D \in SUBSET Ranks : f \in [D -> Trees]
  BY DEF Offers
<1>2. WithOffer(f, r, T) = [q \in D \cup {r} |-> IF q = r THEN T ELSE f[q]]
  BY <1>1 DEF WithOffer
<1>3. WithOffer(f, r, T) \in [D \cup {r} -> Trees]
  BY <1>1, <1>2
<1> QED
  BY <1>1, <1>2, <1>3 DEF Offers

\* The call k of cs offers the tree T of r, and the calls are else those of ds.
Offered(cs, ds, k, r, T) ==
    /\ Len(cs) = Len(ds)
    /\ \A j \in 1 .. Len(ds) :
          /\ cs[j].op = ds[j].op /\ cs[j].size = ds[j].size /\ cs[j].root = ds[j].root
          /\ j # k => cs[j].offered = ds[j].offered
    /\ cs[k].offered = WithOffer(ds[k].offered, r, T)

\* cs is ds with one more call.
Appended(cs, ds, c) ==
    /\ Len(cs) = Len(ds) + 1
    /\ \A j \in 1 .. Len(ds) : cs[j] = ds[j]
    /\ cs[Len(ds) + 1] = c

\* The root's answer to call k is known, and the calls are else those of ds.
Answered(cs, ds, k, a) ==
    /\ Len(cs) = Len(ds)
    /\ \A j \in 1 .. Len(ds) :
          /\ cs[j].op = ds[j].op /\ cs[j].size = ds[j].size /\ cs[j].offered = ds[j].offered
          /\ cs[j].root = IF j = k THEN a ELSE ds[j].root

LEMMA OfferedIs ==
    ASSUME NEW ds \in Seq(Calls), NEW k \in 1 .. Len(ds), NEW r \in Ranks, NEW T \in Trees,
           NEW cs, cs = [ds EXCEPT ![k].offered = WithOffer(@, r, T)]
    PROVE  cs \in Seq(Calls) /\ Offered(cs, ds, k, r, T)
<1>1. ds[k] \in Calls /\ WithOffer(ds[k].offered, r, T) \in Offers
  <2>1. ds[k] \in Calls
    OBVIOUS
  <2>2. ds[k].offered \in Offers
    BY <2>1 DEF Calls
  <2> QED
    BY <2>1, <2>2, OneMoreOffer
<1>2. PICK c : c = [ds[k] EXCEPT !.offered = WithOffer(ds[k].offered, r, T)]
  OBVIOUS
<1>3. c \in Calls /\ c.op = ds[k].op /\ c.size = ds[k].size /\ c.root = ds[k].root
      /\ c.offered = WithOffer(ds[k].offered, r, T)
  BY <1>1, <1>2 DEF Calls
<1>4. cs = [ds EXCEPT ![k] = c]
  BY <1>2
<1>5. cs \in Seq(Calls) /\ Len(cs) = Len(ds)
  BY <1>3, <1>4
<1>6. \A j \in 1 .. Len(ds) : cs[j] = IF j = k THEN c ELSE ds[j]
  BY <1>4
<1> QED
  BY <1>3, <1>5, <1>6 DEF Offered

LEMMA AppendedIs ==
    ASSUME NEW ds \in Seq(Calls), NEW c \in Calls, NEW cs, cs = Append(ds, c)
    PROVE  cs \in Seq(Calls) /\ Appended(cs, ds, c)
  BY DEF Appended

LEMMA AnsweredIs ==
    ASSUME NEW ds \in Seq(Calls), NEW k \in 1 .. Len(ds), NEW a \in Nat \cup {Failed},
           NEW cs, cs = [ds EXCEPT ![k].root = a]
    PROVE  cs \in Seq(Calls) /\ Answered(cs, ds, k, a)
<1>1. ds[k] \in Calls
  OBVIOUS
<1>2. PICK c : c = [ds[k] EXCEPT !.root = a]
  OBVIOUS
<1>3. c \in Calls /\ c.op = ds[k].op /\ c.size = ds[k].size /\ c.root = a
      /\ c.offered = ds[k].offered
  BY <1>1, <1>2 DEF Calls
<1>4. cs = [ds EXCEPT ![k] = c]
  BY <1>2
<1>5. cs \in Seq(Calls) /\ Len(cs) = Len(ds)
  BY <1>3, <1>4
<1>6. \A j \in 1 .. Len(ds) : cs[j] = IF j = k THEN c ELSE ds[j]
  BY <1>4
<1> QED
  BY <1>3, <1>5, <1>6 DEF Answered

-----------------------------------------------------------------------------
(* The inductive invariant.                                                *)

Shape ==
    /\ ring \in [Ranks -> Seq(Bytes)]
    /\ local \in [Ranks -> Trees] /\ global \in [Ranks -> Trees]
    /\ dsize \in [Ranks -> Nat] /\ file.size \in Nat
    /\ pc \in [Ranks -> {"idle", "gather", "size"}]
    /\ done \in [Ranks -> Nat] /\ nwrites \in [Ranks -> Nat]
    /\ coll \in Seq(Calls)

\* Every tree there is, those in flight between ranks included, is sound.
AllSound ==
    /\ \A r \in Ranks : Sound(ring, local[r]) /\ Sound(ring, global[r])
    /\ \A k \in 1 .. Len(coll) : \A r \in DOMAIN coll[k].offered : Sound(ring, coll[k].offered[r])

\* Where the ranks are in the sequence of collective calls.  Only the last call
\* can be undecided, the root has answered those that it has returned from, and
\* a rank has offered its tree in the calls that it has entered.
Settled(c) == Alone \/ c.op = "truncate" \/ DOMAIN c.offered = Ranks

InCalls ==
    /\ \A r \in Ranks : done[r] <= Len(coll)
    /\ \A r \in Ranks : pc[r] # "idle" => Mine(r) <= Len(coll) /\ coll[Mine(r)].op = "sync"
    /\ \A r \in Ranks : pc[r] = "size" => Settled(coll[Mine(r)])
    /\ \A r \in Ranks : \A k \in 1 .. done[r] : Settled(coll[k])
    /\ \A k \in 1 .. Len(coll) : k < Len(coll) => Settled(coll[k])
    /\ \A k \in 1 .. Len(coll) : coll[k].root # Pending <=> k <= done[Root]
    /\ \A k \in 1 .. Len(coll) : \A q \in DOMAIN coll[k].offered :
          k <= done[q] \/ (k = Mine(q) /\ pc[q] # "idle")

IInv == Shape /\ AllSound /\ InCalls

LEMMA RanksAre == Root \in Ranks /\ Ranks \subseteq Nat
  BY BurstBufferAssumption DEF Ranks, Root

LEMMA InitIInv == Init => IInv
<1> SUFFICES ASSUME Init PROVE IInv
  OBVIOUS
<1>1. Shape
  <2>1. ring \in [Ranks -> Seq(Bytes)] /\ coll \in Seq(Calls)
    BY DEF Init
  <2>2. local \in [Ranks -> Trees] /\ global \in [Ranks -> Trees]
    BY DEF Init, Trees
  <2>3. dsize \in [Ranks -> Nat] /\ file.size \in Nat
    BY BurstBufferAssumption DEF Init
  <2> QED
    BY <2>1, <2>2, <2>3 DEF Init, Shape
<1>2. AllSound
  BY EmptyIsSound DEF Init, AllSound
<1>3. InCalls
  BY DEF Init, InCalls
<1> QED
  BY <1>1, <1>2, <1>3 DEF IInv

LEMMA PwriteStep ==
    ASSUME IInv, NEW r \in Ranks, NEW w \in Writes, Pwrite(r, w[1], w[2])
    PROVE  IInv'
<1>1. PICK b, e : b = w[1] /\ e = w[2]
  OBVIOUS
<1>2. b \in Nat /\ e \in Nat /\ b < e /\ e <= MaxOffset /\ MaxOffset \in Nat
  BY <1>1, BurstBufferAssumption
<1>3. PICK s : s = [i \in 1 .. e - b |-> Byte(r, nwrites[r], b + i - 1)]
  OBVIOUS
<1>4. s \in Seq(Bytes) /\ Len(s) = e - b
  <2>1. \A i \in 1 .. e - b : b + i - 1 \in Nat /\ nwrites[r] \in Nat
    BY <1>2 DEF IInv, Shape
  <2>2. \A i \in 1 .. e - b : s[i] \in Bytes
    BY <1>3, <2>1 DEF Byte, Bytes
  <2>3. e - b \in Nat
    BY <1>2
  <2> QED
    BY <1>3, <2>2, <2>3
<1>5. ring[r] \in Seq(Bytes)
  BY DEF IInv, Shape
<1>6. PICK lsn \in Nat : lsn = Len(ring[r])
  BY <1>5
<1>7. ring' = [ring EXCEPT ![r] = ring[r] \o s]
  BY <1>1, <1>3 DEF Pwrite
<1>8. PICK t : t = ring[r] \o s
  OBVIOUS
<1>9. /\ t \in Seq(Bytes) /\ Len(t) = lsn + (e - b)
      /\ \A i \in 1 .. lsn : t[i] = ring[r][i]
      /\ \A i \in 1 .. e - b : t[lsn + i] = s[i]
  <2>1. PICK l \in Seq(Bytes) : l = ring[r]
    BY <1>5
  <2>2. /\ l \o s \in Seq(Bytes)
        /\ Len(l \o s) = Len(l) + Len(s)
        /\ \A i \in 1 .. Len(l) : (l \o s)[i] = l[i]
        /\ \A i \in 1 .. Len(s) : (l \o s)[Len(l) + i] = s[i]
    BY <1>4
  <2> QED
    BY <1>4, <1>6, <1>8, <2>1, <2>2
<1>10. ring' \in [Ranks -> Seq(Bytes)] /\ ring'[r] = t /\ \A q \in Ranks : q # r => ring'[q] = ring[q]
  BY <1>7, <1>8, <1>9 DEF IInv, Shape
<1>11. Grows(ring', ring)
  <2>1. ASSUME NEW q \in Ranks
        PROVE  /\ Len(ring[q]) \in Nat /\ Len(ring'[q]) \in Nat /\ Len(ring[q]) <= Len(ring'[q])
               /\ \A i \in 1 .. Len(ring[q]) : ring'[q][i] = ring[q][i]
    <3>1. CASE q = r
      BY <1>2, <1>6, <1>9, <1>10, <3>1
    <3>2. CASE q # r
      BY <1>10, <3>2 DEF IInv, Shape
    <3> QED
      BY <3>1, <3>2
  <2> QED
    BY <2>1 DEF Grows
<1>12. PICK v : v = Node(b, e, lsn, r)
  OBVIOUS
<1>13. v \in TreeNodes /\ v.b = b /\ v.e = e /\ v.ptr = lsn /\ v.client = r
  BY <1>2, <1>12, RanksAre DEF Node, TreeNodes
<1>14. ASSUME NEW o \in Nat, Covers(v, o) PROVE Holds(ring', Location(v, o), o)
  <2>1. b <= o /\ o < e
    BY <1>13, <1>14 DEF Covers
  <2>2. PICK i \in 1 .. e - b : o = b + i - 1
    <3>1. (o - b) + 1 \in 1 .. e - b /\ o = b + ((o - b) + 1) - 1
      BY <1>2, <2>1
    <3> QED
      BY <3>1
  <2>3. lsn + (o - b) \in Nat /\ lsn + (o - b) < Len(t) /\ lsn + (o - b) + 1 = lsn + i
    BY <1>2, <1>9, <2>1, <2>2
  <2>4. t[lsn + i] = Byte(r, nwrites[r], o)
    BY <1>3, <1>9, <2>2
  <2>5. Location(v, o) = <<r, lsn + (o - b)>>
    BY <1>13 DEF Location
  <2> QED
    BY <1>10, <2>3, <2>4, <2>5 DEF Holds, Byte
<1>15. local' = [local EXCEPT ![r] = Add(local[r], v)]
  BY <1>1, <1>6, <1>12 DEF Pwrite
<1>16. Sound(ring', Add(local[r], v))
  <2>1. Sound(ring', local[r])
    BY <1>11, SoundInLonger DEF IInv, AllSound
  <2> QED
    BY <1>2, <1>13, <1>14, <2>1, SoundAfterAdd
<1>17. AllSound'
  <2>1. \A q \in Ranks : Sound(ring', local[q]) /\ Sound(ring', global[q])
    BY <1>11, SoundInLonger DEF IInv, AllSound
  <2>2. global' = global /\ coll' = coll
    BY DEF Pwrite
  <2>3. \A q \in Ranks : Sound(ring', local'[q]) /\ Sound(ring', global'[q])
    BY <1>15, <1>16, <2>1, <2>2 DEF IInv, Shape
  <2>4. \A k \in 1 .. Len(coll) : \A q \in DOMAIN coll[k].offered : Sound(ring', coll[k].offered[q])
    BY <1>11, SoundInLonger DEF IInv, AllSound
  <2> QED
    BY <2>2, <2>3, <2>4 DEF AllSound
<1>18. Shape'
  <2>1. Add(local[r], v) \in Trees
    BY <1>16 DEF Sound, Tree, Trees
  <2>2. local' \in [Ranks -> Trees]
    BY <1>15, <2>1 DEF IInv, Shape
  <2>3. nwrites' \in [Ranks -> Nat]
    BY DEF Pwrite, IInv, Shape
  <2> QED
    BY <1>10, <2>2, <2>3 DEF Pwrite, IInv, Shape
<1>19. InCalls'
  BY DEF Pwrite, IInv, InCalls, Mine
<1> QED
  BY <1>17, <1>18, <1>19 DEF IInv

LEMMA SyncOffersStep ==
    ASSUME IInv, NEW r \in Ranks, SyncOffers(r)
    PROVE  IInv'
<1>1. PICK T : T = local[r]
  OBVIOUS
<1>2. T \in Trees /\ Sound(ring, T)
  BY <1>1 DEF IInv, Shape, AllSound
<1>3. PICK k \in Nat : k = Mine(r)
  BY DEF IInv, Shape, Mine
<1>4. /\ ring' = ring /\ local' = local /\ global' = global /\ dsize' = dsize /\ file' = file
      /\ done' = done /\ nwrites' = nwrites
      /\ pc[r] = "idle"
      /\ pc' = [pc EXCEPT ![r] = "gather"]
  BY DEF SyncOffers
<1>5. pc' \in [Ranks -> {"idle", "gather", "size"}] /\ pc'[r] = "gather"
      /\ \A q \in Ranks : q # r => pc'[q] = pc[q]
  BY <1>4 DEF IInv, Shape
<1>6. coll \in Seq(Calls) /\ Len(coll) \in Nat /\ k = done[r] + 1 /\ done[r] \in Nat
      /\ done[r] <= Len(coll)
  BY <1>3 DEF IInv, Shape, InCalls, Mine
<1>7. CASE k <= Len(coll)
  <2>1. coll[k].op = "sync" /\ coll' = [coll EXCEPT ![k].offered = WithOffer(@, r, T)]
    BY <1>1, <1>3, <1>7 DEF SyncOffers
  <2>2. k \in 1 .. Len(coll)
    BY <1>6, <1>7
  <2>3. coll' \in Seq(Calls) /\ Offered(coll', coll, k, r, T)
    BY <1>2, <1>6, <2>1, <2>2, OfferedIs
  <2>4. coll[k].offered \in Offers
    <3>1. coll[k] \in Calls
      BY <1>6, <2>2
    <3> QED
      BY <3>1 DEF Calls
  <2>5. /\ coll'[k].offered = WithOffer(coll[k].offered, r, T)
        /\ DOMAIN coll'[k].offered = DOMAIN coll[k].offered \cup {r}
        /\ coll'[k].offered[r] = T
        /\ \A q \in DOMAIN coll[k].offered : q # r => coll'[k].offered[q] = coll[k].offered[q]
    <3>1. coll'[k].offered = WithOffer(coll[k].offered, r, T)
      BY <2>3 DEF Offered
    <3>2. PICK f \in Offers : f = coll[k].offered
      BY <2>4
    <3>3. /\ DOMAIN WithOffer(f, r, T) = DOMAIN f \cup {r}
          /\ WithOffer(f, r, T)[r] = T
          /\ \A q \in DOMAIN f : q # r => WithOffer(f, r, T)[q] = f[q]
      BY <1>2, OneMoreOffer
    <3> QED
      BY <3>1, <3>2, <3>3
  <2>6. Len(coll') = Len(coll)
    BY <2>3 DEF Offered
  <2>7. \A j \in 1 .. Len(coll) : /\ coll'[j].op = coll[j].op /\ coll'[j].root = coll[j].root
                                  /\ j # k => coll'[j].offered = coll[j].offered
    BY <2>3 DEF Offered
  <2>8. ASSUME NEW j \in 1 .. Len(coll), Settled(coll[j]) PROVE Settled(coll'[j])
    <3>1. CASE j = k
      <4>1. DOMAIN coll[k].offered = Ranks => DOMAIN coll'[k].offered = Ranks
        BY <2>5
      <4> QED
        BY <2>7, <2>8, <3>1, <4>1 DEF Settled
    <3>2. CASE j # k
      BY <2>7, <2>8, <3>2 DEF Settled
    <3> QED
      BY <3>1, <3>2
  <2>9. Shape'
    BY <1>4, <1>5, <2>3 DEF IInv, Shape
  <2>10. AllSound'
    <3>1. \A q \in Ranks : Sound(ring', local'[q]) /\ Sound(ring', global'[q])
      BY <1>4 DEF IInv, AllSound
    <3>2. ASSUME NEW j \in 1 .. Len(coll), NEW q \in DOMAIN coll'[j].offered
          PROVE  Sound(ring, coll'[j].offered[q])
      <4>1. CASE j = k
        BY <1>2, <2>2, <2>5, <3>2, <4>1 DEF IInv, AllSound
      <4>2. CASE j # k
        BY <2>7, <3>2, <4>2 DEF IInv, AllSound
      <4> QED
        BY <4>1, <4>2
    <3> QED
      BY <1>4, <2>6, <3>1, <3>2 DEF AllSound
  <2>11. InCalls'
    <3>1. \A q \in Ranks : done[q] \in Nat /\ done[q] <= Len(coll)
      BY DEF IInv, Shape, InCalls
    <3>2. \A q \in Ranks : pc'[q] # "idle" => done[q] + 1 <= Len(coll) /\ coll'[done[q] + 1].op = "sync"
      <4>1. coll'[k].op = "sync"
        BY <2>1, <2>2, <2>7
      <4>2. ASSUME NEW q \in Ranks, q # r, pc'[q] # "idle"
            PROVE  done[q] + 1 <= Len(coll) /\ coll'[done[q] + 1].op = "sync"
        <5>1. done[q] + 1 <= Len(coll) /\ coll[done[q] + 1].op = "sync"
          BY <1>5, <4>2 DEF IInv, InCalls, Mine
        <5>2. done[q] + 1 \in 1 .. Len(coll)
          BY <1>6, <3>1, <5>1
        <5> QED
          BY <2>7, <5>1, <5>2
      <4> QED
        BY <1>6, <1>7, <4>1, <4>2
    <3>3. \A q \in Ranks : pc'[q] = "size" => Settled(coll'[done[q] + 1])
      <4>1. ASSUME NEW q \in Ranks, pc'[q] = "size" PROVE Settled(coll'[done[q] + 1])
        <5>1. q # r /\ pc[q] = "size"
          BY <1>5, <4>1
        <5>2. Settled(coll[done[q] + 1]) /\ done[q] + 1 <= Len(coll)
          BY <5>1 DEF IInv, InCalls, Mine
        <5>3. done[q] + 1 \in 1 .. Len(coll)
          BY <1>6, <3>1, <5>2
        <5> QED
          BY <2>8, <5>2, <5>3
      <4> QED
        BY <4>1
    <3>4. \A q \in Ranks : \A j \in 1 .. done[q] : Settled(coll'[j])
      <4>1. ASSUME NEW q \in Ranks, NEW j \in 1 .. done[q] PROVE Settled(coll'[j])
        <5>1. Settled(coll[j])
          BY DEF IInv, InCalls
        <5>2. j \in 1 .. Len(coll)
          BY <1>6, <3>1
        <5> QED
          BY <2>8, <5>1, <5>2
      <4> QED
        BY <4>1
    <3>5. \A j \in 1 .. Len(coll) : j < Len(coll) => Settled(coll'[j])
      BY <2>8 DEF IInv, InCalls
    <3>6. \A j \in 1 .. Len(coll) : coll'[j].root # Pending <=> j <= done[Root]
      BY <2>7 DEF IInv, InCalls
    <3>7. ASSUME NEW j \in 1 .. Len(coll), NEW q \in DOMAIN coll'[j].offered
          PROVE  j <= done[q] \/ (j = done[q] + 1 /\ pc'[q] # "idle")
      <4>1. CASE j = k /\ q = r
        BY <1>5, <1>6, <4>1
      <4>2. CASE ~ (j = k /\ q = r)
        <5>1. q \in DOMAIN coll[j].offered
          BY <2>5, <2>7, <3>7, <4>2
        <5>2. j <= done[q] \/ (j = done[q] + 1 /\ pc[q] # "idle")
          BY <5>1 DEF IInv, InCalls, Mine
        <5>3. q # r \/ pc[r] = "idle"
          BY <1>4
        <5>4. q \in Ranks
          <6>1. coll[j] \in Calls
            BY <1>6
          <6>2. coll[j].offered \in Offers
            BY <6>1 DEF Calls
          <6> QED
            BY <5>1, <6>2 DEF Offers
        <5> QED
          BY <1>4, <1>5, <5>2, <5>3, <5>4
      <4> QED
        BY <4>1, <4>2
    <3> QED
      BY <1>4, <2>6, <3>1, <3>2, <3>3, <3>4, <3>5, <3>6, <3>7 DEF InCalls, Mine
  <2> QED
    BY <2>9, <2>10, <2>11 DEF IInv
<1>8. CASE ~ k <= Len(coll)
  <2>1. PICK c : c = [Call("sync", 0) EXCEPT !.offered = WithOffer(@, r, T)]
    OBVIOUS
  <2>2. coll' = Append(coll, c) /\ k = Len(coll) + 1 /\ done[r] = Len(coll)
    BY <1>1, <1>3, <1>6, <1>8, <2>1 DEF SyncOffers
  <2>3. PICK f : f = WithOffer(NoRank, r, T)
    OBVIOUS
  <2>4. c = [op |-> "sync", size |-> 0, offered |-> f, root |-> Pending]
    BY <2>1, <2>3 DEF Call
  <2>5. f \in Offers /\ DOMAIN f = {r} /\ f[r] = T
    <3>1. NoRank \in [{} -> Trees]
      BY DEF NoRank
    <3>2. NoRank \in Offers /\ DOMAIN NoRank = {}
      BY <3>1 DEF Offers
    <3>3. /\ WithOffer(NoRank, r, T) \in Offers
          /\ DOMAIN WithOffer(NoRank, r, T) = DOMAIN NoRank \cup {r}
          /\ WithOffer(NoRank, r, T)[r] = T
      BY <1>2, <3>2, OneMoreOffer
    <3>4. f \in Offers /\ f[r] = T /\ DOMAIN f = DOMAIN NoRank \cup {r}
      BY <2>3, <3>3
    <3>5. DOMAIN NoRank \cup {r} = {r}
      BY <3>2
    <3> QED
      BY <3>4, <3>5
  <2>6. c \in Calls /\ c.op = "sync" /\ c.root = Pending /\ c.offered = f
    BY <2>4, <2>5 DEF Calls
  <2>7. coll' \in Seq(Calls) /\ Appended(coll', coll, c)
    BY <1>6, <2>2, <2>6, AppendedIs
  <2>8. /\ Len(coll') = k
        /\ coll'[k] = c
        /\ \A j \in 1 .. Len(coll) : coll'[j] = coll[j]
    BY <2>2, <2>7 DEF Appended
  <2>9. Shape'
    BY <1>4, <1>5, <2>7 DEF IInv, Shape
  <2>10. \A j \in 1 .. k : j = k \/ j \in 1 .. Len(coll)
    BY <1>6, <2>2
  <2>11. AllSound'
    <3>1. \A q \in Ranks : Sound(ring', local'[q]) /\ Sound(ring', global'[q])
      BY <1>4 DEF IInv, AllSound
    <3>2. ASSUME NEW j \in 1 .. k, NEW q \in DOMAIN coll'[j].offered
          PROVE  Sound(ring, coll'[j].offered[q])
      <4>1. CASE j = k
        BY <1>2, <2>5, <2>6, <2>8, <3>2, <4>1
      <4>2. CASE j # k
        BY <2>8, <2>10, <3>2, <4>2 DEF IInv, AllSound
      <4> QED
        BY <4>1, <4>2
    <3> QED
      BY <1>4, <2>8, <3>1, <3>2 DEF AllSound
  <2>12. InCalls'
    <3>1. \A q \in Ranks : done[q] \in Nat /\ done[q] <= Len(coll)
      BY DEF IInv, Shape, InCalls
    <3>2. \A q \in Ranks : pc'[q] # "idle" => done[q] + 1 <= k /\ coll'[done[q] + 1].op = "sync"
      <4>1. ASSUME NEW q \in Ranks, q # r, pc'[q] # "idle"
            PROVE  done[q] + 1 <= k /\ coll'[done[q] + 1].op = "sync"
        <5>1. done[q] + 1 <= Len(coll) /\ coll[done[q] + 1].op = "sync"
          BY <1>5, <4>1 DEF IInv, InCalls, Mine
        <5>2. done[q] + 1 \in 1 .. Len(coll)
          BY <1>6, <3>1, <5>1
        <5> QED
          BY <1>6, <2>2, <2>8, <5>1, <5>2
      <4> QED
        BY <1>6, <2>6, <2>8, <4>1
    <3>3. \A q \in Ranks : pc'[q] = "size" => Settled(coll'[done[q] + 1])
      <4>1. ASSUME NEW q \in Ranks, pc'[q] = "size" PROVE Settled(coll'[done[q] + 1])
        <5>1. q # r /\ pc[q] = "size"
          BY <1>5, <4>1
        <5>2. Settled(coll[done[q] + 1]) /\ done[q] + 1 <= Len(coll)
          BY <5>1 DEF IInv, InCalls, Mine
        <5>3. done[q] + 1 \in 1 .. Len(coll)
          BY <1>6, <3>1, <5>2
        <5> QED
          BY <2>8, <5>2, <5>3
      <4> QED
        BY <4>1
    <3>4. \A q \in Ranks : \A j \in 1 .. done[q] : Settled(coll'[j])
      <4>1. ASSUME NEW q \in Ranks, NEW j \in 1 .. done[q] PROVE Settled(coll'[j])
        <5>1. Settled(coll[j])
          BY DEF IInv, InCalls
        <5>2. j \in 1 .. Len(coll)
          BY <1>6, <3>1
        <5> QED
          BY <2>8, <5>1, <5>2
      <4> QED
        BY <4>1
    <3>5. \A j \in 1 .. k : j < k => Settled(coll'[j])
      <4>1. ASSUME NEW j \in 1 .. k, j < k PROVE Settled(coll'[j])
        <5>1. j \in 1 .. done[r]
          BY <2>2, <4>1
        <5> QED
          BY <3>4, <5>1
      <4> QED
        BY <4>1
    <3>6. \A j \in 1 .. k : coll'[j].root # Pending <=> j <= done[Root]
      <4>1. ASSUME NEW j \in 1 .. k PROVE coll'[j].root # Pending <=> j <= done[Root]
        <5>1. CASE j = k
          <6>1. done[Root] < k
            BY <1>6, <2>2, <3>1, RanksAre
          <6>2. done[Root] \in Nat
            BY <3>1, RanksAre
          <6> QED
            BY <2>6, <2>8, <5>1, <6>1, <6>2
        <5>2. CASE j # k
          BY <2>8, <2>10, <5>2 DEF IInv, InCalls
        <5> QED
          BY <5>1, <5>2
      <4> QED
        BY <4>1
    <3>7. ASSUME NEW j \in 1 .. k, NEW q \in DOMAIN coll'[j].offered
          PROVE  j <= done[q] \/ (j = done[q] + 1 /\ pc'[q] # "idle")
      <4>1. CASE j = k
        BY <1>5, <1>6, <2>5, <2>6, <2>8, <3>7, <4>1
      <4>2. CASE j # k
        <5>1. j \in 1 .. Len(coll) /\ q \in DOMAIN coll[j].offered
          BY <2>8, <2>10, <3>7, <4>2
        <5>2. j <= done[q] \/ (j = done[q] + 1 /\ pc[q] # "idle")
          BY <5>1 DEF IInv, InCalls, Mine
        <5>3. q \in Ranks
          <6>1. coll[j] \in Calls
            BY <1>6, <5>1
          <6>2. coll[j].offered \in Offers
            BY <6>1 DEF Calls
          <6> QED
            BY <5>1, <6>2 DEF Offers
        <5> QED
          BY <1>4, <1>5, <5>2, <5>3
      <4> QED
        BY <4>1, <4>2
    <3>8. \A q \in Ranks : done[q] <= k
      BY <1>6, <2>2, <3>1
    <3> QED
      BY <1>4, <2>8, <3>8, <3>2, <3>3, <3>4, <3>5, <3>6, <3>7 DEF InCalls, Mine
  <2> QED
    BY <2>9, <2>11, <2>12 DEF IInv
<1> QED
  BY <1>7, <1>8

\* A rank that is alone decides its call at once.
LEMMA SyncAloneStep ==
    ASSUME IInv, Alone, NEW r \in Ranks, SyncAlone(r)
    PROVE  IInv'
<1>1. r = Root /\ \A q \in Ranks : q = r
  BY DEF Alone, Ranks, Root
<1>2. PICK k \in Nat : k = done[r] + 1
  BY DEF IInv, Shape
<1>3. /\ ring' = ring /\ local' = local /\ global' = global /\ dsize' = dsize /\ file' = file
      /\ done' = done /\ nwrites' = nwrites
      /\ pc[r] = "idle" /\ pc' = [pc EXCEPT ![r] = "size"]
  BY DEF SyncAlone
<1>4. coll \in Seq(Calls) /\ Len(coll) \in Nat /\ done[r] \in Nat /\ done[r] <= Len(coll)
  BY DEF IInv, Shape, InCalls
<1>5. PICK c : c = Call("sync", 0)
  OBVIOUS
<1>6. coll' = Append(coll, c) /\ k = Len(coll) + 1 /\ done[r] = Len(coll)
  BY <1>2, <1>4, <1>5 DEF SyncAlone, Mine
<1>7. c \in Calls /\ c.op = "sync" /\ c.root = Pending /\ DOMAIN c.offered = {}
  <2>1. c = [op |-> "sync", size |-> 0, offered |-> NoRank, root |-> Pending]
    BY <1>5 DEF Call
  <2>2. NoRank \in [{} -> Trees] /\ DOMAIN NoRank = {}
    BY DEF NoRank
  <2>3. NoRank \in Offers
    BY <2>2 DEF Offers
  <2> QED
    BY <2>1, <2>2, <2>3 DEF Calls
<1>8. coll' \in Seq(Calls) /\ Appended(coll', coll, c)
  BY <1>4, <1>6, <1>7, AppendedIs
<1>9. Len(coll') = k /\ coll'[k] = c /\ \A j \in 1 .. Len(coll) : coll'[j] = coll[j]
  BY <1>6, <1>8 DEF Appended
<1>10. \A j \in 1 .. k : j = k \/ j \in 1 .. Len(coll)
  BY <1>4, <1>6
<1>11. pc' \in [Ranks -> {"idle", "gather", "size"}] /\ pc'[r] = "size"
  BY <1>3 DEF IInv, Shape
<1>12. Shape'
  BY <1>3, <1>8, <1>11 DEF IInv, Shape
<1>13. AllSound'
  <2>1. \A q \in Ranks : Sound(ring', local'[q]) /\ Sound(ring', global'[q])
    BY <1>3 DEF IInv, AllSound
  <2>2. ASSUME NEW j \in 1 .. k, NEW q \in DOMAIN coll'[j].offered
        PROVE  Sound(ring, coll'[j].offered[q])
    BY <1>7, <1>9, <1>10, <2>2 DEF IInv, AllSound
  <2> QED
    BY <1>3, <1>9, <2>1, <2>2 DEF AllSound
<1>14. \A j : Settled(coll'[j])
  BY DEF Settled
<1>15. ASSUME NEW j \in 1 .. k PROVE coll'[j].root # Pending <=> j <= done[Root]
  <2>1. CASE j = k
    BY <1>1, <1>4, <1>6, <1>7, <1>9, <2>1
  <2>2. CASE j # k
    BY <1>9, <1>10, <2>2 DEF IInv, InCalls
  <2> QED
    BY <2>1, <2>2
<1>16. ASSUME NEW j \in 1 .. k, NEW q \in DOMAIN coll'[j].offered
       PROVE  j <= done[q] \/ (j = done[q] + 1 /\ pc'[q] # "idle")
  <2>1. j # k /\ j \in 1 .. Len(coll) /\ q \in DOMAIN coll[j].offered
    BY <1>7, <1>9, <1>10, <1>16
  <2>2. coll[j].offered \in Offers
    <3>1. coll[j] \in Calls
      BY <1>4, <2>1
    <3> QED
      BY <3>1 DEF Calls
  <2>3. q = r
    BY <1>1, <2>1, <2>2 DEF Offers
  <2>4. j <= done[r]
    BY <1>4, <1>6, <2>1
  <2> QED
    BY <2>3, <2>4
<1>17. InCalls'
  <2>1. \A q \in Ranks : done[q] <= k /\ done[q] + 1 = k
    BY <1>1, <1>2, <1>4, <1>6
  <2>2. \A q \in Ranks : done[q] + 1 <= k /\ coll'[done[q] + 1].op = "sync"
    BY <1>1, <1>2, <1>7, <1>9, <1>4
  <2> QED
    BY <1>3, <1>9, <1>14, <1>15, <1>16, <2>1, <2>2 DEF InCalls, Mine
<1> QED
  BY <1>12, <1>13, <1>17 DEF IInv

LEMMA SyncEnterStep ==
    ASSUME IInv, NEW r \in Ranks, SyncEnter(r)
    PROVE  IInv'
<1>1. CASE Alone
  BY <1>1, SyncAloneStep DEF SyncEnter
<1>2. CASE ~ Alone
  BY <1>2, SyncOffersStep DEF SyncEnter
<1> QED
  BY <1>1, <1>2

LEMMA SyncMergeStep ==
    ASSUME IInv, NEW r \in Ranks, SyncMerge(r)
    PROVE  IInv'
<1>1. PICK k \in Nat : k = Mine(r)
  BY DEF IInv, Shape, Mine
<1>2. PICK f : f = coll[k].offered
  OBVIOUS
<1>3. PICK G : G = MergeAll(global[r], f)
  OBVIOUS
<1>4. /\ pc[r] = "gather" /\ DOMAIN f = Ranks
      /\ global' = [global EXCEPT ![r] = G]
      /\ local' = [local EXCEPT ![r] = {}]
      /\ pc' = [pc EXCEPT ![r] = "size"]
      /\ ring' = ring /\ dsize' = dsize /\ file' = file /\ coll' = coll /\ done' = done
      /\ nwrites' = nwrites
  BY <1>1, <1>2, <1>3 DEF SyncMerge
<1>5. k \in 1 .. Len(coll) /\ k = done[r] + 1
  BY <1>1, <1>4 DEF IInv, Shape, InCalls, Mine
<1>6. Sound(ring, G)
  <2>1. \A q \in Ranks : Sound(ring, f[q])
    BY <1>2, <1>4, <1>5 DEF IInv, AllSound
  <2>2. Sound(ring, global[r])
    BY DEF IInv, AllSound
  <2> QED
    BY <1>3, <2>1, <2>2, BurstBufferAssumption, SoundAfterAll
<1>7. Sound(ring, {})
  BY EmptyIsSound
<1>8. Shape'
  <2>1. G \in Trees /\ {} \in Trees
    BY <1>6 DEF Sound, Tree, Trees
  <2>2. global' \in [Ranks -> Trees] /\ local' \in [Ranks -> Trees]
    BY <1>4, <2>1 DEF IInv, Shape
  <2>3. pc' \in [Ranks -> {"idle", "gather", "size"}]
    BY <1>4 DEF IInv, Shape
  <2> QED
    BY <1>4, <2>2, <2>3 DEF IInv, Shape
<1>9. AllSound'
  <2>1. \A q \in Ranks : Sound(ring, local'[q]) /\ Sound(ring, global'[q])
    BY <1>4, <1>6, <1>7 DEF IInv, Shape, AllSound
  <2> QED
    BY <1>4, <2>1 DEF IInv, AllSound
<1>10. InCalls'
  <2>1. pc'[r] = "size" /\ \A q \in Ranks : q # r => pc'[q] = pc[q]
    BY <1>4 DEF IInv, Shape
  <2>2. Settled(coll[k])
    BY <1>2, <1>4 DEF Settled
  <2>3. \A q \in Ranks : pc'[q] # "idle" => Mine(q) <= Len(coll) /\ coll[Mine(q)].op = "sync"
    BY <1>4, <2>1 DEF IInv, InCalls
  <2>4. \A q \in Ranks : pc'[q] = "size" => Settled(coll[Mine(q)])
    BY <1>1, <2>1, <2>2 DEF IInv, InCalls
  <2>5. ASSUME NEW j \in 1 .. Len(coll), NEW q \in DOMAIN coll[j].offered
        PROVE  j <= done[q] \/ (j = done[q] + 1 /\ pc'[q] # "idle")
    <3>1. j <= done[q] \/ (j = done[q] + 1 /\ pc[q] # "idle")
      BY DEF IInv, InCalls, Mine
    <3>2. q \in Ranks
      <4>1. coll[j] \in Calls
        BY DEF IInv, Shape
      <4>2. coll[j].offered \in Offers
        BY <4>1 DEF Calls
      <4> QED
        BY <4>2 DEF Offers
    <3> QED
      BY <2>1, <3>1, <3>2
  <2> QED
    BY <1>4, <2>3, <2>4, <2>5 DEF IInv, InCalls, Mine
<1> QED
  BY <1>8, <1>9, <1>10 DEF IInv

\* Leaving a call, which is then the last that the rank has made.
LEMMA LeaveIs ==
    ASSUME Shape, NEW r \in Ranks, NEW a \in Nat \cup {Failed}, Leave(r, a)
    PROVE  /\ dsize' \in [Ranks -> Nat] /\ done' \in [Ranks -> Nat]
           /\ pc' \in [Ranks -> {"idle", "gather", "size"}]
           /\ pc'[r] = "idle" /\ done'[r] = done[r] + 1
           /\ dsize'[r] = IF a = Failed THEN dsize[r] ELSE a
           /\ \A q \in Ranks : q # r =>
                 pc'[q] = pc[q] /\ done'[q] = done[q] /\ dsize'[q] = dsize[q]
<1>1. Failed \notin Nat
  BY DEF Failed
<1>2. dsize \in [Ranks -> Nat] /\ done \in [Ranks -> Nat]
      /\ pc \in [Ranks -> {"idle", "gather", "size"}]
  BY DEF Shape
<1>3. dsize' = [dsize EXCEPT ![r] = IF a = Failed THEN dsize[r] ELSE a]
  BY DEF Leave
<1>4. (IF a = Failed THEN dsize[r] ELSE a) \in Nat
  BY <1>2
<1>5. dsize' \in [Ranks -> Nat] /\ dsize'[r] = (IF a = Failed THEN dsize[r] ELSE a)
      /\ \A q \in Ranks : q # r => dsize'[q] = dsize[q]
  BY <1>2, <1>3, <1>4
<1> QED
  BY <1>2, <1>5 DEF Leave

\* Offers come from ranks.
LEMMA OffersOfRanks ==
    ASSUME Shape, NEW j \in 1 .. Len(coll)
    PROVE  DOMAIN coll[j].offered \subseteq Ranks /\ coll[j].root \in Nat \cup {Pending, Failed}
           /\ coll[j].size \in Nat
<1>1. coll[j] \in Calls
  BY DEF Shape
<1>2. coll[j].offered \in Offers
  BY <1>1 DEF Calls
<1> QED
  BY <1>1, <1>2 DEF Offers, Calls

\* A rank leaves a settled call that the root has answered by then.
LEMMA LeavingInCalls ==
    ASSUME Shape, InCalls, NEW r \in Ranks, NEW a \in Nat \cup {Failed}, Leave(r, a),
           Len(coll') = Len(coll), done[r] + 1 <= Len(coll), Settled(coll[done[r] + 1]),
           \A j \in 1 .. Len(coll) :
              /\ coll'[j].op = coll[j].op /\ coll'[j].offered = coll[j].offered
              /\ r # Root => coll'[j].root = coll[j].root
              /\ r = Root => coll'[j].root = IF j = done[r] + 1 THEN a ELSE coll[j].root
    PROVE  InCalls'
<1>1. /\ done' \in [Ranks -> Nat]
      /\ pc'[r] = "idle" /\ done'[r] = done[r] + 1
      /\ \A q \in Ranks : q # r => pc'[q] = pc[q] /\ done'[q] = done[q]
  BY LeaveIs
<1>2. \A q \in Ranks : done[q] \in Nat /\ done[q] <= Len(coll)
  BY DEF Shape, InCalls
<1>3. Len(coll) \in Nat
  BY DEF Shape
<1>4. \A j \in 1 .. Len(coll) : Settled(coll[j]) => Settled(coll'[j])
  BY DEF Settled
<1>5. \A q \in Ranks : done'[q] <= Len(coll)
  BY <1>1, <1>2
<1>6. ASSUME NEW q \in Ranks, pc'[q] # "idle"
      PROVE  /\ done'[q] + 1 <= Len(coll) /\ coll'[done'[q] + 1].op = "sync"
             /\ pc'[q] = "size" => Settled(coll'[done'[q] + 1])
  <2>1. q # r /\ pc'[q] = pc[q] /\ done'[q] = done[q]
    BY <1>1, <1>6
  <2>2. /\ done[q] + 1 <= Len(coll) /\ coll[done[q] + 1].op = "sync"
        /\ pc[q] = "size" => Settled(coll[done[q] + 1])
    BY <1>6, <2>1 DEF InCalls, Mine
  <2>3. done[q] + 1 \in 1 .. Len(coll)
    BY <1>2, <1>3, <2>2
  <2> QED
    BY <1>4, <2>1, <2>2, <2>3
<1>7. ASSUME NEW q \in Ranks, NEW j \in 1 .. done'[q] PROVE Settled(coll'[j])
  <2>1. j \in 1 .. Len(coll)
    BY <1>1, <1>3, <1>5
  <2>2. Settled(coll[j])
    <3>1. CASE q = r /\ j = done[r] + 1
      BY <3>1
    <3>2. CASE ~ (q = r /\ j = done[r] + 1)
      <4>1. j \in 1 .. done[q]
        BY <1>1, <1>2, <3>2
      <4> QED
        BY <4>1 DEF InCalls
    <3> QED
      BY <3>1, <3>2
  <2> QED
    BY <1>4, <2>1, <2>2
<1>8. \A j \in 1 .. Len(coll) : j < Len(coll) => Settled(coll'[j])
  BY <1>4 DEF InCalls
<1>9. ASSUME NEW j \in 1 .. Len(coll)
      PROVE  coll'[j].root # Pending <=> j <= done'[Root]
  <2>1. coll[j].root # Pending <=> j <= done[Root]
    BY DEF InCalls
  <2>2. CASE r # Root
    BY <1>1, <2>1, <2>2, RanksAre
  <2>3. CASE r = Root /\ j = done[r] + 1
    <3>1. a # Pending
      BY DEF Pending, Failed
    <3> QED
      BY <1>1, <2>3, <3>1
  <2>4. CASE r = Root /\ j # done[r] + 1
    <3>1. done[r] \in Nat
      BY <1>2
    <3> QED
      BY <1>1, <2>1, <2>4, <3>1
  <2> QED
    BY <2>2, <2>3, <2>4
<1>10. ASSUME NEW j \in 1 .. Len(coll), NEW q \in DOMAIN coll'[j].offered
       PROVE  j <= done'[q] \/ (j = done'[q] + 1 /\ pc'[q] # "idle")
  <2>1. q \in DOMAIN coll[j].offered /\ q \in Ranks
    BY OffersOfRanks
  <2>2. j <= done[q] \/ (j = done[q] + 1 /\ pc[q] # "idle")
    BY <2>1 DEF InCalls, Mine
  <2>3. done[q] \in Nat
    BY <1>2, <2>1
  <2> QED
    BY <1>1, <2>1, <2>2, <2>3
<1> QED
  BY <1>5, <1>6, <1>7, <1>8, <1>9, <1>10 DEF InCalls, Mine

LEMMA SyncSizeRootStep ==
    ASSUME IInv, SyncSizeRoot
    PROVE  IInv'
<1>1. PICK a \in {file.size, Failed} :
         coll' = [coll EXCEPT ![Mine(Root)].root = a] /\ Leave(Root, a)
  BY DEF SyncSizeRoot
<1>2. a \in Nat \cup {Failed}
  BY DEF IInv, Shape
<1>3. /\ pc[Root] = "size"
      /\ ring' = ring /\ local' = local /\ global' = global /\ file' = file /\ nwrites' = nwrites
  BY DEF SyncSizeRoot
<1>4. Root \in Ranks
  BY RanksAre
<1>5. PICK k \in 1 .. Len(coll) : k = Mine(Root) /\ k = done[Root] + 1 /\ Settled(coll[k])
  <2>1. done[Root] \in Nat /\ Mine(Root) = done[Root] + 1
    BY <1>4 DEF IInv, Shape, Mine
  <2>2. Mine(Root) <= Len(coll)
    BY <1>3, <1>4 DEF IInv, InCalls
  <2>3. Settled(coll[Mine(Root)])
    BY <1>3, <1>4 DEF IInv, InCalls
  <2>4. Len(coll) \in Nat
    BY DEF IInv, Shape
  <2>5. Mine(Root) \in 1 .. Len(coll)
    BY <2>1, <2>2, <2>4
  <2> QED
    BY <2>1, <2>3, <2>5
<1>6. coll \in Seq(Calls)
  BY DEF IInv, Shape
<1>7. coll' \in Seq(Calls) /\ Answered(coll', coll, k, a)
  BY <1>1, <1>2, <1>5, <1>6, AnsweredIs
<1>8. Shape'
  BY <1>1, <1>2, <1>3, <1>4, <1>7, LeaveIs DEF IInv, Shape
<1>9. AllSound'
  <2>1. Len(coll') = Len(coll) /\ \A j \in 1 .. Len(coll) : coll'[j].offered = coll[j].offered
    BY <1>7 DEF Answered
  <2> QED
    BY <1>3, <2>1 DEF IInv, AllSound
<1>10. InCalls'
  <2>1. Len(coll') = Len(coll)
    BY <1>7 DEF Answered
  <2>2. ASSUME NEW j \in 1 .. Len(coll)
        PROVE  /\ coll'[j].op = coll[j].op /\ coll'[j].offered = coll[j].offered
               /\ coll'[j].root = IF j = k THEN a ELSE coll[j].root
    BY <1>7 DEF Answered
  <2>3. Shape /\ InCalls
    BY DEF IInv
  <2>4. done[Root] + 1 <= Len(coll) /\ Settled(coll[done[Root] + 1])
    BY <1>5, <1>6
  <2> QED
    BY <1>1, <1>2, <1>4, <1>5, <2>1, <2>2, <2>3, <2>4, LeavingInCalls
<1> QED
  BY <1>8, <1>9, <1>10 DEF IInv

LEMMA SyncSizeStep ==
    ASSUME IInv, NEW r \in Ranks, SyncSize(r)
    PROVE  IInv'
<1>1. PICK k \in 1 .. Len(coll) : k = Mine(r) /\ k = done[r] + 1 /\ Settled(coll[k])
  <2>1. pc[r] = "size" /\ Mine(r) = done[r] + 1 /\ done[r] \in Nat
    BY DEF SyncSize, Mine, IInv, Shape
  <2>2. Mine(r) <= Len(coll) /\ Settled(coll[Mine(r)])
    BY <2>1 DEF IInv, InCalls
  <2>3. Len(coll) \in Nat
    BY DEF IInv, Shape
  <2> QED
    BY <2>1, <2>2, <2>3
<1>2. PICK a : a = coll[k].root
  OBVIOUS
<1>3. /\ r # Root /\ Leave(r, a) /\ a # Pending
      /\ ring' = ring /\ local' = local /\ global' = global /\ file' = file /\ nwrites' = nwrites
      /\ coll' = coll
  BY <1>1, <1>2 DEF SyncSize
<1>4. a \in Nat \cup {Failed}
  BY <1>2, <1>3, OffersOfRanks DEF IInv
<1>5. Shape /\ InCalls
  BY DEF IInv
<1>6. Shape'
  BY <1>3, <1>4, <1>5, LeaveIs DEF Shape
<1>7. AllSound'
  BY <1>3 DEF IInv, AllSound
<1>8. InCalls'
  <2>1. done[r] + 1 <= Len(coll) /\ Settled(coll[done[r] + 1])
    BY <1>1, <1>5 DEF Shape
  <2> QED
    BY <1>3, <1>4, <1>5, <2>1, LeavingInCalls
<1> QED
  BY <1>6, <1>7, <1>8 DEF IInv

\* The root makes a call that it decides and leaves at once.
LEMMA RootCalls ==
    ASSUME Shape, InCalls, pc[Root] = "idle", Mine(Root) > Len(coll),
           NEW c \in Calls, c.op = "truncate", c.offered = NoRank, c.root # Pending,
           coll' = Append(coll, c), NEW a \in Nat \cup {Failed}, Leave(Root, a)
    PROVE  InCalls'
<1>1. /\ done' \in [Ranks -> Nat]
      /\ pc'[Root] = "idle" /\ done'[Root] = done[Root] + 1
      /\ \A q \in Ranks : q # Root => pc'[q] = pc[q] /\ done'[q] = done[q]
  BY LeaveIs, RanksAre
<1>2. \A q \in Ranks : done[q] \in Nat /\ done[q] <= Len(coll)
  BY DEF Shape, InCalls
<1>3. coll \in Seq(Calls) /\ Len(coll) \in Nat
  BY DEF Shape
<1>4. PICK k : k = Len(coll) + 1
  OBVIOUS
<1>5. Len(coll') = k /\ coll'[k] = c /\ \A j \in 1 .. Len(coll) : coll'[j] = coll[j]
  BY <1>3, <1>4, AppendedIs DEF Appended
<1>6. done[Root] = Len(coll) /\ k \in Nat /\ \A j \in 1 .. k : j = k \/ j \in 1 .. Len(coll)
  BY <1>2, <1>3, <1>4, RanksAre DEF Mine
<1>7. \A j \in 1 .. k : Settled(coll'[j])
  <2>1. Settled(c)
    BY DEF Settled
  <2>2. \A j \in 1 .. Len(coll) : Settled(coll[j])
    BY <1>6, RanksAre DEF InCalls
  <2> QED
    BY <1>5, <1>6, <2>1, <2>2
<1>8. \A q \in Ranks : done'[q] <= k
  BY <1>1, <1>2, <1>3, <1>4, <1>6
<1>9. ASSUME NEW q \in Ranks, pc'[q] # "idle"
      PROVE  done'[q] + 1 <= k /\ coll'[done'[q] + 1].op = "sync" /\ Settled(coll'[done'[q] + 1])
  <2>1. q # Root /\ pc'[q] = pc[q] /\ done'[q] = done[q]
    BY <1>1, <1>9
  <2>2. done[q] + 1 <= Len(coll) /\ coll[done[q] + 1].op = "sync"
    BY <1>9, <2>1 DEF InCalls, Mine
  <2>3. done[q] + 1 \in 1 .. Len(coll) /\ done[q] + 1 \in 1 .. k
    BY <1>2, <1>3, <1>4, <2>2
  <2> QED
    BY <1>4, <1>3, <1>5, <1>7, <2>1, <2>2, <2>3
<1>10. ASSUME NEW q \in Ranks, NEW j \in 1 .. done'[q] PROVE Settled(coll'[j])
  BY <1>1, <1>6, <1>7, <1>8
<1>11. ASSUME NEW j \in 1 .. k PROVE coll'[j].root # Pending <=> j <= done'[Root]
  <2>1. j <= done'[Root]
    BY <1>1, <1>4, <1>6
  <2>2. coll'[j].root # Pending
    <3>1. CASE j = k
      BY <1>5, <3>1
    <3>2. CASE j # k
      <4>1. j \in 1 .. Len(coll) /\ j <= done[Root]
        BY <1>6, <3>2
      <4> QED
        BY <1>5, <4>1 DEF InCalls
    <3> QED
      BY <3>1, <3>2
  <2> QED
    BY <2>1, <2>2
<1>12. ASSUME NEW j \in 1 .. k, NEW q \in DOMAIN coll'[j].offered
       PROVE  j <= done'[q] \/ (j = done'[q] + 1 /\ pc'[q] # "idle")
  <2>1. j # k
    BY <1>5, <1>12 DEF NoRank
  <2>2. j \in 1 .. Len(coll) /\ q \in DOMAIN coll[j].offered
    BY <1>5, <1>6, <1>12, <2>1
  <2>3. q \in Ranks
    BY <2>2, OffersOfRanks
  <2>4. j <= done[q] \/ (j = done[q] + 1 /\ pc[q] # "idle")
    BY <2>2 DEF InCalls, Mine
  <2>5. done[q] \in Nat
    BY <1>2, <2>3
  <2> QED
    BY <1>1, <2>3, <2>4, <2>5
<1> QED
  BY <1>5, <1>7, <1>8, <1>9, <1>10, <1>11, <1>12 DEF InCalls, Mine

\* The call of a truncation, which offers no tree.
Truncation(size, a) == [Call("truncate", size) EXCEPT !.root = a]

LEMMA TruncationIs ==
    ASSUME NEW size \in Nat, NEW a \in Nat \cup {Failed},
           NEW c, c = Truncation(size, a)
    PROVE  /\ c \in Calls /\ c.op = "truncate" /\ c.offered = NoRank
           /\ c.root = a /\ c.root # Pending /\ c.size = size
<1>1. c = [op |-> "truncate", size |-> size, offered |-> NoRank, root |-> a]
  BY DEF Call, Truncation
<1>2. NoRank \in [{} -> Trees]
  BY DEF NoRank
<1>3. NoRank \in Offers
  BY <1>2 DEF Offers
<1>4. a # Pending
  BY DEF Pending, Failed
<1> QED
  BY <1>1, <1>3, <1>4 DEF Calls

LEMMA TrimTreesIs ==
    ASSUME Shape, NEW r \in Ranks, NEW size \in Nat, TrimTrees(r, size),
           \A q \in Ranks : Sound(ring, local[q]) /\ Sound(ring, global[q])
    PROVE  /\ local' \in [Ranks -> Trees] /\ global' \in [Ranks -> Trees]
           /\ \A q \in Ranks : Sound(ring, local'[q]) /\ Sound(ring, global'[q])
<1>1. PICK L : L = Trim(local[r], size)
  OBVIOUS
<1>2. PICK G : G = Trim(global[r], size)
  OBVIOUS
<1>3. local' = [local EXCEPT ![r] = L] /\ global' = [global EXCEPT ![r] = G]
  BY <1>1, <1>2 DEF TrimTrees
<1>4. Sound(ring, L) /\ Sound(ring, G)
  BY <1>1, <1>2, BurstBufferAssumption, SoundAfterTrim
<1>5. L \in Trees /\ G \in Trees
  BY <1>4 DEF Sound, Tree, Trees
<1> QED
  BY <1>3, <1>4, <1>5 DEF Shape

LEMMA TruncateRootStep ==
    ASSUME IInv, NEW size \in TruncSizes, TruncateRoot(size)
    PROVE  IInv'
<1>1. size \in Nat
  BY BurstBufferAssumption
<1>2. PICK c : c = Truncation(size, size)
  OBVIOUS
<1>3. /\ c \in Calls /\ c.op = "truncate" /\ c.offered = NoRank
      /\ c.root = size /\ c.root # Pending
  BY <1>1, <1>2, TruncationIs
<1>4. /\ pc[Root] = "idle" /\ Mine(Root) > Len(coll)
      /\ coll' = Append(coll, c)
      /\ TrimTrees(Root, size) /\ Leave(Root, size)
      /\ file'.size = size /\ ring' = ring /\ nwrites' = nwrites
  BY <1>2 DEF TruncateRoot, TrimTrees, Truncation
<1>5. Shape /\ InCalls /\ AllSound /\ Root \in Ranks
  BY RanksAre DEF IInv
<1>6. InCalls'
  BY <1>1, <1>3, <1>4, <1>5, RootCalls
<1>7. coll \in Seq(Calls)
  BY <1>5 DEF Shape
<1>8. coll' \in Seq(Calls) /\ Appended(coll', coll, c)
  BY <1>3, <1>4, <1>7, AppendedIs
<1>9. /\ local' \in [Ranks -> Trees] /\ global' \in [Ranks -> Trees]
      /\ \A q \in Ranks : Sound(ring, local'[q]) /\ Sound(ring, global'[q])
  BY <1>1, <1>4, <1>5, TrimTreesIs DEF AllSound
<1>10. Shape'
  BY <1>1, <1>4, <1>5, <1>8, <1>9, LeaveIs DEF Shape
<1>11. AllSound'
  <2>1. ASSUME NEW j \in 1 .. Len(coll'), NEW q \in DOMAIN coll'[j].offered
        PROVE  Sound(ring, coll'[j].offered[q])
    <3>1. j \in 1 .. Len(coll)
      BY <1>3, <1>7, <1>8, <2>1 DEF Appended, NoRank
    <3> QED
      BY <1>5, <1>8, <2>1, <3>1 DEF Appended, AllSound
  <2> QED
    BY <1>4, <1>9, <2>1 DEF AllSound
<1> QED
  BY <1>6, <1>10, <1>11 DEF IInv

LEMMA TruncateRootFailsStep ==
    ASSUME IInv, NEW size \in TruncSizes, TruncateRootFails(size)
    PROVE  IInv'
<1>1. size \in Nat
  BY BurstBufferAssumption
<1>2. PICK c : c = Truncation(size, Failed)
  OBVIOUS
<1>3. /\ c \in Calls /\ c.op = "truncate" /\ c.offered = NoRank /\ c.root # Pending
  <2>1. PICK a \in Nat \cup {Failed} : a = Failed
    OBVIOUS
  <2> QED
    BY <1>1, <1>2, <2>1, TruncationIs
<1>4. /\ pc[Root] = "idle" /\ Mine(Root) > Len(coll)
      /\ coll' = Append(coll, c) /\ Leave(Root, Failed)
      /\ local' = local /\ global' = global /\ file' = file /\ ring' = ring /\ nwrites' = nwrites
  BY <1>2 DEF TruncateRootFails, Truncation
<1>5. Shape /\ InCalls /\ AllSound /\ Root \in Ranks
  BY RanksAre DEF IInv
<1>6. InCalls'
  BY <1>3, <1>4, <1>5, RootCalls
<1>7. coll \in Seq(Calls)
  BY <1>5 DEF Shape
<1>8. coll' \in Seq(Calls) /\ Appended(coll', coll, c)
  BY <1>3, <1>4, <1>7, AppendedIs
<1>9. Shape'
  BY <1>4, <1>5, <1>8, LeaveIs DEF Shape
<1>10. AllSound'
  <2>1. ASSUME NEW j \in 1 .. Len(coll'), NEW q \in DOMAIN coll'[j].offered
        PROVE  Sound(ring, coll'[j].offered[q])
    <3>1. j \in 1 .. Len(coll)
      BY <1>3, <1>7, <1>8, <2>1 DEF Appended, NoRank
    <3> QED
      BY <1>5, <1>8, <2>1, <3>1 DEF Appended, AllSound
  <2> QED
    BY <1>4, <1>5, <2>1 DEF AllSound
<1> QED
  BY <1>6, <1>9, <1>10 DEF IInv

LEMMA TruncateStep ==
    ASSUME IInv, NEW r \in Ranks, Truncate(r)
    PROVE  IInv'
<1>1. Shape /\ InCalls /\ AllSound
  BY DEF IInv
<1>2. PICK k \in 1 .. Len(coll) : k = Mine(r) /\ k = done[r] + 1
  BY <1>1 DEF Truncate, Shape, Mine
<1>3. PICK c : c = coll[k]
  OBVIOUS
<1>4. /\ c.op = "truncate" /\ c.size \in Nat
      /\ ring' = ring /\ file' = file /\ coll' = coll /\ nwrites' = nwrites
      /\ r # Root
  BY <1>1, <1>2, <1>3, OffersOfRanks DEF Truncate
<1>5. \/ Leave(r, Failed) /\ local' = local /\ global' = global
      \/ TrimTrees(r, c.size) /\ Leave(r, c.size)
  BY <1>2, <1>3 DEF Truncate, TrimTrees
<1>6. PICK a \in Nat \cup {Failed} : Leave(r, a)
  BY <1>4, <1>5
<1>7. InCalls'
  <2>1. done[r] + 1 <= Len(coll) /\ Settled(coll[done[r] + 1])
    BY <1>1, <1>2, <1>3, <1>4 DEF Settled, Shape
  <2> QED
    BY <1>1, <1>4, <1>6, <2>1, LeavingInCalls
<1>8. /\ local' \in [Ranks -> Trees] /\ global' \in [Ranks -> Trees]
      /\ \A q \in Ranks : Sound(ring, local'[q]) /\ Sound(ring, global'[q])
  <2>1. CASE local' = local /\ global' = global
    BY <1>1, <2>1 DEF Shape, AllSound
  <2>2. CASE TrimTrees(r, c.size)
    BY <1>1, <1>4, <2>2, TrimTreesIs DEF AllSound
  <2> QED
    BY <1>5, <2>1, <2>2
<1>9. Shape'
  BY <1>1, <1>4, <1>6, <1>8, LeaveIs DEF Shape
<1>10. AllSound'
  BY <1>1, <1>4, <1>8 DEF AllSound
<1> QED
  BY <1>7, <1>9, <1>10 DEF IInv

LEMMA IndexStep ==
    ASSUME IInv, [Next]_vars
    PROVE  IInv'
<1>1. ASSUME NEW r \in Ranks, NEW w \in Writes, Pwrite(r, w[1], w[2]) PROVE IInv'
  BY <1>1, PwriteStep
<1>2. ASSUME NEW r \in Ranks, SyncEnter(r) PROVE IInv'
  BY <1>2, SyncEnterStep
<1>3. ASSUME NEW r \in Ranks, SyncMerge(r) PROVE IInv'
  BY <1>3, SyncMergeStep
<1>4. ASSUME NEW r \in Ranks, SyncSize(r) PROVE IInv'
  BY <1>4, SyncSizeStep
<1>5. ASSUME NEW r \in Ranks, Truncate(r) PROVE IInv'
  BY <1>5, TruncateStep
<1>6. CASE SyncSizeRoot
  BY <1>6, SyncSizeRootStep
<1>7. ASSUME NEW size \in TruncSizes, TruncateRoot(size) PROVE IInv'
  BY <1>7, TruncateRootStep
<1>8. ASSUME NEW size \in TruncSizes, TruncateRootFails(size) PROVE IInv'
  BY <1>8, TruncateRootFailsStep
<1>9. CASE UNCHANGED vars
  BY <1>9 DEF vars, IInv, Shape, AllSound, InCalls, Mine
<1>10. CASE Finished
  BY <1>9, <1>10 DEF Finished
<1> QED
  BY <1>1, <1>2, <1>3, <1>4, <1>5, <1>6, <1>7, <1>8, <1>9, <1>10 DEF Next

\* Whatever the ranks write and however their calls overlap: the nodes of every
\* tree, published, pending or sent, are disjoint and lie in the rings, each at
\* bytes that were written for its offsets (bb.hpp:85-185).
THEOREM IndicesSound == Spec => []IInv
  BY IndexStep, InitIInv, PTL DEF Spec

-----------------------------------------------------------------------------
(* Nothing is read from the wrong place.                                   *)

LEMMA SoundIsOK ==
    ASSUME Shape, NEW T, Sound(ring, T)
    PROVE  TreeOK(T)
<1>1. NonEmpty(T) /\ Disjoint(T)
  BY DEF Sound, Tree
<1>2. MaxOffset \in Nat /\ \A r \in Ranks : Len(ring[r]) \in Nat
  BY BurstBufferAssumption DEF Shape
<1>3. ASSUME NEW m \in T
      PROVE  /\ m.b \in Offsets /\ m.e \in 1 .. MaxOffset
             /\ m.client \in Ranks
             /\ m.ptr >= 0 /\ m.ptr + Size(m) <= Len(ring[m.client])
  <2>1. m \in TreeNodes /\ m.b < m.e /\ m.e <= MaxOffset
    BY <1>2, SoundBounds
  <2>2. m.b \in Offsets /\ m.e \in 1 .. MaxOffset
    BY <1>2, <2>1 DEF TreeNodes, Offsets
  <2> QED
    BY <1>2, <2>2, SoundBounds
<1> QED
  BY <1>1, <1>3 DEF TreeOK

LEMMA SoundContent ==
    ASSUME NEW T, Sound(ring, T), NEW o \in Offsets, ContentOf(T)[o] # None
    PROVE  ContentOf(T)[o][3] = o /\ o < BackEnd(T)
<1>1. MaxOffset \in Nat /\ o \in Nat
  BY BurstBufferAssumption DEF Offsets
<1>2. PICK loc : loc = LocationOf(T, o)
  OBVIOUS
<1>3. ContentOf(T)[o] = IF loc = Hole THEN None ELSE ring[loc[1]][loc[2] + 1]
  BY <1>2 DEF ContentOf
<1>4. loc # Hole
  BY <1>3
<1>5. Holds(ring, loc, o)
  BY <1>1, <1>2, <1>4 DEF Sound
<1>6. o < BackEnd(T)
  BY <1>1, <1>2, <1>4, SoundBefore
<1> QED
  BY <1>3, <1>4, <1>5, <1>6 DEF Holds

LEMMA SizeIs ==
    ASSUME IInv, NEW r \in Ranks
    PROVE  BackEnd(local[r]) <= SizeOf(r) /\ BackEnd(global[r]) <= SizeOf(r) /\ SizeOf(r) \in Nat
<1>1. BackEnd(local[r]) \in Nat /\ BackEnd(global[r]) \in Nat
  BY BurstBufferAssumption, SoundBackEnd DEF IInv, AllSound
<1>2. dsize[r] \in Nat
  BY DEF IInv, Shape
<1> QED
  BY <1>1, <1>2 DEF SizeOf

\* Whatever extents the ranks write, however long the rings and the file are and
\* however the collective calls overlap (bb.hpp:85-185): every tree's nodes are
\* disjoint and point at bytes that are in the ring, and a byte found for a file
\* offset was written there and is before the end of the file.
THEOREM NeverMisdirected == Spec => []NoMisdirectedRead
<1>1. IInv => NoMisdirectedRead
  <2> SUFFICES ASSUME IInv PROVE NoMisdirectedRead
    OBVIOUS
  <2>1. ASSUME NEW r \in Ranks, NEW T \in {local[r], global[r]}
        PROVE  /\ TreeOK(T)
               /\ \A o \in Offsets : ContentOf(T)[o] # None => ContentOf(T)[o][3] = o /\ o < SizeOf(r)
    <3>1. Sound(ring, T)
      BY DEF IInv, AllSound
    <3>2. TreeOK(T)
      BY <3>1, SoundIsOK DEF IInv
    <3>3. ASSUME NEW o \in Offsets, ContentOf(T)[o] # None
          PROVE  ContentOf(T)[o][3] = o /\ o < SizeOf(r)
      <4>1. ContentOf(T)[o][3] = o /\ o < BackEnd(T)
        BY <3>1, <3>3, SoundContent
      <4>2. BackEnd(T) \in Nat /\ BackEnd(T) <= SizeOf(r) /\ SizeOf(r) \in Nat
        BY <3>1, BurstBufferAssumption, SoundBackEnd, SizeIs
      <4>3. o \in Nat
        BY BurstBufferAssumption DEF Offsets
      <4> QED
        BY <4>1, <4>2, <4>3
    <3> QED
      BY <3>2, <3>3
  <2>2. ASSUME NEW k \in DOMAIN coll, NEW r \in DOMAIN coll[k].offered
        PROVE  TreeOK(coll[k].offered[r])
    <3>1. k \in 1 .. Len(coll)
      BY DEF IInv, Shape
    <3>2. Sound(ring, coll[k].offered[r])
      BY <3>1 DEF IInv, AllSound
    <3> QED
      BY <3>2, SoundIsOK DEF IInv
  <2> QED
    BY <2>1, <2>2 DEF NoMisdirectedRead
<1> QED
  BY <1>1, IndicesSound, PTL

-----------------------------------------------------------------------------
(* Every rank computes the same.  h[k] is the global tree and d[k] the size *)
(* of the file after the first k calls, for whoever has made them.         *)

Effect(c, T) ==
    IF c.op = "sync" THEN MergeAll(T, c.offered)
    ELSE IF c.root = Failed THEN T ELSE Trim(T, c.size)

Told(c, s) == IF c.root = Failed THEN s ELSE c.root

Trail(h, cs) ==
    /\ h[0] = {}
    /\ \A k \in 1 .. Len(cs) : Settled(cs[k]) => h[k] = Effect(cs[k], h[k - 1])

Sizes(d, cs) ==
    \A k \in 1 .. Len(cs) : cs[k].root # Pending => d[k] = Told(cs[k], d[k - 1])

Along(h, d) ==
    /\ Trail(h, coll) /\ Sizes(d, coll)
    /\ \A r \in Ranks : global[r] = h[Merged(r)] /\ dsize[r] = d[done[r]]

Agreed == \E h, d : Along(h, d)

\* The root is never behind, and answers a truncation with its size or Failed.
RootAhead ==
    /\ \A r \in Ranks : done[r] <= done[Root]
    /\ \A k \in 1 .. Len(coll) : coll[k].op = "truncate" => coll[k].root \in {Failed, coll[k].size}

HInv == ~ Alone /\ IInv /\ RootAhead /\ Agreed

With(h, k, x) == [j \in Nat |-> IF j = k THEN x ELSE h[j]]

\* Two calls with the same effect on the trees.
Alike(c, e) ==
    /\ c.op = e.op /\ c.size = e.size /\ c.offered = e.offered
    /\ c.op # "sync" => c.root = e.root

\* The effect of the last call has become known.
LEMMA TrailExtends ==
    ASSUME NEW ds, NEW cs, NEW k \in Nat, k # 0, Len(cs) = k, Len(ds) \in {k - 1, k},
           \A j \in 1 .. k - 1 : Alike(cs[j], ds[j]), NEW h, Trail(h, ds)
    PROVE  Trail(With(h, k, Effect(cs[k], h[k - 1])), cs)
<1>1. PICK g : g = With(h, k, Effect(cs[k], h[k - 1]))
  OBVIOUS
<1>2. g[k] = Effect(cs[k], h[k - 1]) /\ \A j \in Nat : j # k => g[j] = h[j]
  BY <1>1 DEF With
<1>3. g[0] = {} /\ g[k - 1] = h[k - 1]
  BY <1>2 DEF Trail
<1>4. ASSUME NEW j \in 1 .. k, Settled(cs[j])
      PROVE  g[j] = Effect(cs[j], g[j - 1])
  <2>1. CASE j = k
    BY <1>2, <1>3, <2>1
  <2>2. CASE j # k
    <3>1. j \in 1 .. k - 1 /\ j \in 1 .. Len(ds) /\ j - 1 \in Nat /\ j - 1 # k
      BY <2>2
    <3>2. Alike(cs[j], ds[j])
      BY <3>1
    <3>3. h[j] = Effect(ds[j], h[j - 1])
      BY <1>4, <3>1, <3>2 DEF Trail, Alike, Settled
    <3>4. Effect(ds[j], h[j - 1]) = Effect(cs[j], h[j - 1])
      BY <3>2 DEF Alike, Effect
    <3> QED
      BY <1>2, <2>2, <3>1, <3>3, <3>4
  <2> QED
    BY <2>1, <2>2
<1> QED
  BY <1>1, <1>3, <1>4 DEF Trail

\* Nothing has changed about the calls whose effects are known.
LEMMA TrailStays ==
    ASSUME NEW ds, NEW cs, NEW h, Trail(h, ds), Len(cs) = Len(ds),
           \A j \in 1 .. Len(ds) : Alike(cs[j], ds[j])
    PROVE  Trail(h, cs)
<1>1. ASSUME NEW j \in 1 .. Len(ds), Settled(cs[j]) PROVE h[j] = Effect(cs[j], h[j - 1])
  <2>1. Alike(cs[j], ds[j])
    OBVIOUS
  <2>2. Settled(ds[j])
    BY <1>1, <2>1 DEF Alike, Settled
  <2>3. Effect(ds[j], h[j - 1]) = Effect(cs[j], h[j - 1])
    BY <2>1 DEF Alike, Effect
  <2> QED
    BY <2>2, <2>3 DEF Trail
<1> QED
  BY <1>1 DEF Trail

\* The answer to call k has become known, and no later one is.
LEMMA SizesExtend ==
    ASSUME NEW ds, NEW cs, NEW k \in Nat, k # 0, NEW d, Sizes(d, ds),
           \A j \in 1 .. Len(cs) : cs[j].root # Pending =>
              j = k \/ (j < k /\ j \in 1 .. Len(ds) /\ cs[j].root = ds[j].root)
    PROVE  Sizes(With(d, k, Told(cs[k], d[k - 1])), cs)
<1>1. PICK g : g = With(d, k, Told(cs[k], d[k - 1]))
  OBVIOUS
<1>2. g[k] = Told(cs[k], d[k - 1]) /\ \A j \in Nat : j # k => g[j] = d[j]
  BY <1>1 DEF With
<1>3. ASSUME NEW j \in 1 .. Len(cs), cs[j].root # Pending
      PROVE  g[j] = Told(cs[j], g[j - 1])
  <2>1. CASE j = k
    BY <1>2, <2>1
  <2>2. CASE j # k
    <3>1. j < k /\ j \in 1 .. Len(ds) /\ cs[j].root = ds[j].root /\ j \in Nat
          /\ j - 1 \in Nat /\ j - 1 # k
      BY <1>3, <2>2
    <3>2. d[j] = Told(ds[j], d[j - 1])
      BY <1>3, <3>1 DEF Sizes
    <3> QED
      BY <1>2, <2>2, <3>1, <3>2 DEF Told
  <2> QED
    BY <2>1, <2>2
<1> QED
  BY <1>1, <1>3 DEF Sizes

\* A rank is after a settled call, or has made none.
LEMMA MergedIs ==
    ASSUME IInv, NEW r \in Ranks
    PROVE  /\ Merged(r) \in Nat /\ Merged(r) <= Len(coll)
           /\ Merged(r) # 0 => Settled(coll[Merged(r)])
<1>1. done[r] \in Nat /\ done[r] <= Len(coll) /\ Len(coll) \in Nat
  BY DEF IInv, Shape, InCalls
<1>2. CASE pc[r] = "size"
  <2>1. Merged(r) = done[r] + 1
    BY <1>2 DEF Merged
  <2>2. done[r] + 1 <= Len(coll) /\ Settled(coll[done[r] + 1])
    BY <1>2 DEF IInv, InCalls, Mine
  <2> QED
    BY <1>1, <2>1, <2>2
<1>3. CASE pc[r] # "size"
  <2>1. Merged(r) = done[r]
    BY <1>1, <1>3 DEF Merged
  <2>2. done[r] # 0 => done[r] \in 1 .. done[r]
    BY <1>1
  <2> QED
    BY <1>1, <2>1, <2>2 DEF IInv, InCalls
<1> QED
  BY <1>2, <1>3

LEMMA InitHInv == ~ Alone /\ Init => HInv
<1> SUFFICES ASSUME ~ Alone, Init PROVE HInv
  OBVIOUS
<1>1. RootAhead
  BY RanksAre DEF Init, RootAhead
<1>2. Along([j \in Nat |-> {}], [j \in Nat |-> file.size])
  BY DEF Init, Along, Trail, Sizes, Merged
<1> QED
  BY <1>1, <1>2, InitIInv DEF HInv, Agreed

LEMMA PwriteAgreed ==
    ASSUME HInv, NEW r \in Ranks, NEW w \in Writes, Pwrite(r, w[1], w[2])
    PROVE  RootAhead' /\ Agreed'
  BY DEF HInv, Pwrite, RootAhead, Agreed, Along, Merged

LEMMA SyncEnterAgreed ==
    ASSUME HInv, NEW r \in Ranks, SyncOffers(r)
    PROVE  RootAhead' /\ Agreed'
<1>1. PICK T : T = local[r]
  OBVIOUS
<1>2. PICK h, d : Along(h, d)
  BY DEF HInv, Agreed
<1>3. PICK k \in Nat : k = Mine(r)
  BY DEF HInv, IInv, Shape, Mine
<1>4. IInv /\ RootAhead /\ IInv'
  BY SyncEnterStep DEF HInv, SyncEnter
<1>5. coll \in Seq(Calls) /\ Len(coll) \in Nat /\ k = done[r] + 1 /\ done[r] \in Nat
      /\ done[r] <= Len(coll) /\ T \in Trees
  BY <1>1, <1>3, <1>4 DEF IInv, Shape, InCalls, Mine
<1>6. /\ global' = global /\ dsize' = dsize /\ done' = done
      /\ pc[r] = "idle" /\ pc' = [pc EXCEPT ![r] = "gather"]
  BY DEF SyncOffers
<1>7. \A q \in Ranks : Merged(q)' = Merged(q)
  BY <1>4, <1>6 DEF Merged, IInv, Shape
\* Call k is the last one, and has not been decided before.
<1>8. /\ Len(coll') = k /\ Len(coll) \in {k - 1, k}
      /\ \A j \in 1 .. k - 1 : coll'[j] = coll[j]
      /\ coll'[k].op = "sync"
      /\ k = Len(coll) => /\ ~ Settled(coll[k])
                          /\ coll'[k].root = coll[k].root /\ coll[k].op = "sync"
      /\ k # Len(coll) => coll'[k].root = Pending
  <2>1. CASE k <= Len(coll)
    <3>1. k \in 1 .. Len(coll)
      BY <1>5, <2>1
    <3>2. coll[k].op = "sync" /\ coll' = [coll EXCEPT ![k].offered = WithOffer(@, r, T)]
      BY <1>1, <1>3, <2>1 DEF SyncOffers
    <3>3. Offered(coll', coll, k, r, T)
      BY <1>5, <3>1, <3>2, OfferedIs
    <3>4. ~ Settled(coll[k])
      <4>1. r \in DOMAIN coll[k].offered => k <= done[r] \/ pc[r] # "idle"
        BY <1>4, <3>1 DEF IInv, InCalls
      <4>2. r \notin DOMAIN coll[k].offered
        BY <1>5, <1>6, <4>1
      <4> QED
        BY <3>2, <4>2 DEF Settled, HInv
    <3>5. k = Len(coll)
      BY <1>4, <1>5, <3>1, <3>4 DEF IInv, InCalls
    <3>6. \A j \in 1 .. k - 1 : coll'[j] = coll[j]
      BY <1>5, <3>1, <3>2
    <3>7. Len(coll') = Len(coll) /\ coll'[k].op = coll[k].op /\ coll'[k].root = coll[k].root
      BY <3>1, <3>3 DEF Offered
    <3> QED
      BY <3>2, <3>4, <3>5, <3>6, <3>7
  <2>2. CASE ~ k <= Len(coll)
    <3>1. PICK c : c = [Call("sync", 0) EXCEPT !.offered = WithOffer(@, r, T)]
      OBVIOUS
    <3>2. coll' = Append(coll, c) /\ k = Len(coll) + 1
      BY <1>1, <1>3, <1>5, <2>2, <3>1 DEF SyncOffers
    <3>3. c.op = "sync" /\ c.root = Pending
      BY <3>1 DEF Call
    <3>4. Len(coll') = k /\ coll'[k] = c /\ \A j \in 1 .. Len(coll) : coll'[j] = coll[j]
      BY <1>5, <3>2
    <3> QED
      BY <1>5, <3>2, <3>3, <3>4
  <2> QED
    BY <2>1, <2>2
<1>9. RootAhead'
  <2>1. ASSUME NEW j \in 1 .. k, coll'[j].op = "truncate"
        PROVE  coll'[j].root \in {Failed, coll'[j].size}
    <3>1. j \in 1 .. k - 1 /\ j \in 1 .. Len(coll)
      BY <1>8, <2>1
    <3>2. coll'[j] = coll[j]
      BY <1>8, <3>1
    <3> QED
      BY <1>4, <2>1, <3>1, <3>2 DEF RootAhead
  <2> QED
    BY <1>4, <1>6, <1>8, <2>1 DEF RootAhead
<1>10. PICK g : g = With(h, k, Effect(coll'[k], h[k - 1]))
  OBVIOUS
<1>11. Trail(g, coll')
  <2>1. k # 0
    BY <1>5
  <2>2. \A j \in 1 .. k - 1 : Alike(coll'[j], coll[j])
    BY <1>8 DEF Alike
  <2>3. Trail(h, coll)
    BY <1>2 DEF Along
  <2>4. PICK cs, ds : cs = coll' /\ ds = coll
    OBVIOUS
  <2>5. Len(cs) = k /\ Len(ds) \in {k - 1, k} /\ (\A j \in 1 .. k - 1 : Alike(cs[j], ds[j]))
        /\ Trail(h, ds)
    BY <1>8, <2>2, <2>3, <2>4
  <2>6. Trail(With(h, k, Effect(cs[k], h[k - 1])), cs)
    BY <2>1, <2>5, TrailExtends
  <2> QED
    BY <1>10, <2>4, <2>6
<1>12. Sizes(d, coll')
  <2>1. ASSUME NEW j \in 1 .. k, coll'[j].root # Pending
        PROVE  d[j] = Told(coll'[j], d[j - 1])
    <3>1. j \in 1 .. Len(coll) /\ coll'[j].root = coll[j].root
      <4>1. CASE j = k
        BY <1>5, <1>8, <2>1, <4>1
      <4>2. CASE j # k
        <5>1. j \in 1 .. k - 1 /\ j \in 1 .. Len(coll)
          BY <1>5, <1>8, <4>2
        <5> QED
          BY <1>8, <5>1
      <4> QED
        BY <4>1, <4>2
    <3>2. d[j] = Told(coll[j], d[j - 1])
      BY <1>2, <2>1, <3>1 DEF Along, Sizes
    <3> QED
      BY <3>1, <3>2 DEF Told
  <2> QED
    BY <1>8, <2>1 DEF Sizes
<1>13. ASSUME NEW q \in Ranks PROVE global[q] = g[Merged(q)]
  <2>1. Merged(q) \in Nat /\ Merged(q) <= Len(coll) /\ (Merged(q) # 0 => Settled(coll[Merged(q)]))
    BY <1>4, MergedIs
  <2>2. Merged(q) # k
    BY <1>5, <1>8, <2>1
  <2>3. g[Merged(q)] = h[Merged(q)]
    BY <1>10, <2>1, <2>2 DEF With
  <2> QED
    BY <1>2, <2>3 DEF Along
<1>14. \A q \in Ranks : dsize[q] = d[done[q]]
  BY <1>2 DEF Along
<1>15. Along(g, d)'
  BY <1>6, <1>7, <1>11, <1>12, <1>13, <1>14 DEF Along
<1> QED
  BY <1>9, <1>15 DEF Agreed

LEMMA SyncMergeAgreed ==
    ASSUME HInv, NEW r \in Ranks, SyncMerge(r)
    PROVE  RootAhead' /\ Agreed'
<1>1. PICK h, d : Along(h, d)
  BY DEF HInv, Agreed
<1>2. IInv /\ RootAhead
  BY DEF HInv
<1>3. PICK k \in Nat : k = done[r] + 1 /\ k = Mine(r)
  BY <1>2 DEF IInv, Shape, Mine
<1>4. /\ pc[r] = "gather" /\ DOMAIN coll[k].offered = Ranks
      /\ global' = [global EXCEPT ![r] = MergeAll(global[r], coll[k].offered)]
      /\ pc' = [pc EXCEPT ![r] = "size"]
      /\ dsize' = dsize /\ coll' = coll /\ done' = done
  BY <1>3 DEF SyncMerge
<1>5. done[r] \in Nat /\ k <= Len(coll) /\ coll[k].op = "sync"
  BY <1>2, <1>3, <1>4 DEF IInv, Shape, InCalls
<1>6. Merged(r) = done[r] /\ Merged(r)' = k
  BY <1>2, <1>3, <1>4, <1>5 DEF Merged, IInv, Shape
<1>7. \A q \in Ranks : q # r => Merged(q)' = Merged(q)
  BY <1>2, <1>4 DEF Merged, IInv, Shape
<1>8. h[k] = MergeAll(h[done[r]], coll[k].offered)
  <2>1. Settled(coll[k]) /\ k \in 1 .. Len(coll) /\ k - 1 = done[r]
    <3>1. Settled(coll[k])
      BY <1>4 DEF Settled
    <3>2. Len(coll) \in Nat
      BY <1>2 DEF IInv, Shape
    <3> QED
      BY <1>3, <1>5, <3>1, <3>2
  <2>2. h[k] = Effect(coll[k], h[done[r]])
    BY <1>1, <2>1 DEF Along, Trail
  <2> QED
    BY <1>5, <2>2 DEF Effect
<1>9. global'[r] = h[k] /\ \A q \in Ranks : q # r => global'[q] = global[q]
  <2>1. global[r] = h[done[r]]
    BY <1>1, <1>6 DEF Along
  <2> QED
    BY <1>2, <1>4, <1>8, <2>1 DEF IInv, Shape
<1>10. \A q \in Ranks : global'[q] = h[Merged(q)']
  BY <1>1, <1>6, <1>7, <1>9 DEF Along
<1>11. Along(h, d)'
  BY <1>1, <1>4, <1>10 DEF Along
<1>12. RootAhead'
  BY <1>2, <1>4 DEF RootAhead
<1> QED
  BY <1>11, <1>12 DEF Agreed

\* A rank other than the root leaves a call: it has the tree of that call, by
\* having merged or by trimming now, and gets the size that the root answered.
LEMMA FollowerAgrees ==
    ASSUME HInv, NEW r \in Ranks, r # Root, NEW k \in 1 .. Len(coll), k = done[r] + 1,
           coll[k].root # Pending, Settled(coll[k]), coll' = coll, Leave(r, coll[k].root),
           DOMAIN global' = Ranks, \A q \in Ranks : q # r => global'[q] = global[q],
           \/ pc[r] = "size" /\ global'[r] = global[r]
           \/ pc[r] = "idle" /\ global'[r] = Effect(coll[k], global[r])
    PROVE  RootAhead' /\ Agreed'
<1>1. PICK h, d : Along(h, d)
  BY DEF HInv, Agreed
<1>2. IInv /\ RootAhead /\ Shape
  BY DEF HInv, IInv
<1>3. coll[k].root \in Nat \cup {Failed}
  BY <1>2, OffersOfRanks
<1>4. /\ pc'[r] = "idle" /\ done'[r] = k
      /\ dsize'[r] = IF coll[k].root = Failed THEN dsize[r] ELSE coll[k].root
      /\ \A q \in Ranks : q # r =>
            pc'[q] = pc[q] /\ done'[q] = done[q] /\ dsize'[q] = dsize[q]
  BY <1>2, <1>3, LeaveIs
<1>5. done[r] \in Nat /\ k - 1 = done[r]
  BY <1>2 DEF Shape
<1>6. Merged(r)' = k
  BY <1>4, <1>5 DEF Merged
<1>7. \A q \in Ranks : q # r => Merged(q)' = Merged(q)
  BY <1>4 DEF Merged
<1>8. global'[r] = h[k]
  <2>1. CASE pc[r] = "size" /\ global'[r] = global[r]
    <3>1. Merged(r) = k
      BY <2>1 DEF Merged
    <3> QED
      BY <1>1, <2>1, <3>1 DEF Along
  <2>2. CASE pc[r] = "idle" /\ global'[r] = Effect(coll[k], global[r])
    <3>1. Merged(r) = k - 1
      BY <1>5, <2>2 DEF Merged
    <3>2. global[r] = h[k - 1]
      BY <1>1, <3>1 DEF Along
    <3>3. h[k] = Effect(coll[k], h[k - 1])
      BY <1>1 DEF Along, Trail
    <3> QED
      BY <2>2, <3>2, <3>3
  <2> QED
    BY <2>1, <2>2
<1>9. dsize'[r] = d[k]
  <2>1. dsize[r] = d[k - 1]
    BY <1>1, <1>5 DEF Along
  <2>2. d[k] = Told(coll[k], d[k - 1])
    BY <1>1 DEF Along, Sizes
  <2> QED
    BY <1>4, <2>1, <2>2 DEF Told
<1>10. \A q \in Ranks : global'[q] = h[Merged(q)']
  BY <1>1, <1>6, <1>7, <1>8 DEF Along
<1>11. \A q \in Ranks : dsize'[q] = d[done'[q]]
  BY <1>1, <1>4, <1>9 DEF Along
<1>12. Along(h, d)'
  BY <1>1, <1>10, <1>11 DEF Along
<1>13. RootAhead'
  <2>1. k <= done[Root]
    BY <1>2 DEF IInv, InCalls
  <2>2. \A q \in Ranks : done'[q] <= done'[Root]
    BY <1>2, <1>4, <2>1, RanksAre DEF RootAhead
  <2> QED
    BY <1>2, <2>2 DEF RootAhead
<1> QED
  BY <1>12, <1>13 DEF Agreed

LEMMA SyncSizeAgreed ==
    ASSUME HInv, NEW r \in Ranks, SyncSize(r)
    PROVE  RootAhead' /\ Agreed'
<1>1. IInv
  BY DEF HInv
<1>2. pc[r] = "size" /\ r # Root /\ coll[Mine(r)].root # Pending /\ Leave(r, coll[Mine(r)].root)
      /\ global' = global /\ coll' = coll
  BY DEF SyncSize
<1>3. PICK k \in 1 .. Len(coll) : k = Mine(r) /\ k = done[r] + 1 /\ Settled(coll[k])
  <2>1. Mine(r) = done[r] + 1 /\ done[r] \in Nat /\ Len(coll) \in Nat
    BY <1>1 DEF Mine, IInv, Shape
  <2>2. Mine(r) <= Len(coll) /\ Settled(coll[Mine(r)])
    BY <1>1, <1>2 DEF IInv, InCalls
  <2> QED
    BY <2>1, <2>2
<1>4. DOMAIN global' = Ranks
  BY <1>1, <1>2 DEF IInv, Shape
<1> QED
  BY <1>2, <1>3, <1>4, FollowerAgrees

LEMMA TruncateAgreed ==
    ASSUME HInv, NEW r \in Ranks, Truncate(r)
    PROVE  RootAhead' /\ Agreed'
<1>1. IInv /\ Shape /\ RootAhead
  BY DEF HInv, IInv
<1>2. PICK k \in 1 .. Len(coll) : k = Mine(r) /\ k = done[r] + 1
  BY <1>1 DEF Truncate, Shape, Mine
<1>3. PICK c : c = coll[k]
  OBVIOUS
<1>4. r # Root /\ pc[r] = "idle" /\ c.op = "truncate" /\ coll' = coll
  BY <1>2, <1>3 DEF Truncate
<1>5. c.root \in {Failed, c.size} /\ c.size \in Nat
  BY <1>1, <1>3, <1>4, OffersOfRanks DEF RootAhead
<1>6. c.root # Pending /\ Settled(c)
  BY <1>4, <1>5 DEF Pending, Failed, Settled
<1>7. CASE c.root = Failed
  <2>1. Leave(r, c.root) /\ global' = global
    BY <1>2, <1>3, <1>7 DEF Truncate
  <2>2. global'[r] = Effect(c, global[r])
    BY <1>4, <1>7, <2>1 DEF Effect
  <2>3. DOMAIN global' = Ranks
    BY <1>1, <2>1 DEF Shape
  <2> QED
    BY <1>2, <1>3, <1>4, <1>6, <2>1, <2>2, <2>3, FollowerAgrees
<1>8. CASE c.root # Failed
  <2>1. TrimTrees(r, c.size) /\ Leave(r, c.size) /\ c.root = c.size
    BY <1>2, <1>3, <1>5, <1>8 DEF Truncate, TrimTrees
  <2>2. PICK G : G = Trim(global[r], c.size)
    OBVIOUS
  <2>3. global' = [global EXCEPT ![r] = G]
    BY <2>1, <2>2 DEF TrimTrees
  <2>4. DOMAIN global' = Ranks /\ global'[r] = G /\ \A q \in Ranks : q # r => global'[q] = global[q]
    BY <1>1, <2>3 DEF Shape
  <2>5. G = Effect(c, global[r])
    BY <1>4, <1>8, <2>2 DEF Effect
  <2>6. Leave(r, c.root)
    BY <2>1
  <2> QED
    BY <1>2, <1>3, <1>4, <1>6, <2>4, <2>5, <2>6, FollowerAgrees
<1> QED
  BY <1>7, <1>8

\* The root answers the synchronisation it is in.
LEMMA SyncSizeRootAgreed ==
    ASSUME HInv, SyncSizeRoot
    PROVE  RootAhead' /\ Agreed'
<1>1. PICK a \in {file.size, Failed} :
         coll' = [coll EXCEPT ![Mine(Root)].root = a] /\ Leave(Root, a)
  BY DEF SyncSizeRoot
<1>2. IInv /\ Shape /\ InCalls /\ RootAhead /\ Root \in Ranks
  BY RanksAre DEF HInv, IInv
<1>3. a \in Nat \cup {Failed}
  BY <1>2 DEF Shape
<1>4. pc[Root] = "size" /\ global' = global
  BY DEF SyncSizeRoot
<1>5. PICK k \in 1 .. Len(coll) :
         k = Mine(Root) /\ k = done[Root] + 1 /\ coll[k].op = "sync"
  <2>1. pc[Root] # "idle"
    BY <1>4
  <2>2. Mine(Root) <= Len(coll) /\ coll[Mine(Root)].op = "sync"
    BY <1>2, <2>1 DEF InCalls
  <2>3. Mine(Root) = done[Root] + 1 /\ done[Root] \in Nat /\ Len(coll) \in Nat
    BY <1>2 DEF Shape, Mine
  <2> QED
    BY <2>2, <2>3
<1>6. coll \in Seq(Calls) /\ Len(coll) \in Nat /\ k \in Nat /\ k # 0 /\ done[Root] = k - 1
  <2>1. coll \in Seq(Calls) /\ done[Root] \in Nat
    BY <1>2 DEF Shape
  <2> QED
    BY <1>5, <2>1
<1>7. PICK cs, ds : cs = coll' /\ ds = coll
  OBVIOUS
<1>8. Answered(cs, ds, k, a)
  BY <1>1, <1>3, <1>5, <1>6, <1>7, AnsweredIs
<1>9. /\ Len(cs) = Len(ds) /\ cs[k].root = a /\ ds[k].op = "sync"
      /\ \A j \in 1 .. Len(ds) : /\ cs[j].op = ds[j].op /\ cs[j].size = ds[j].size
                                 /\ cs[j].offered = ds[j].offered
                                 /\ j # k => cs[j].root = ds[j].root
  BY <1>5, <1>7, <1>8 DEF Answered
<1>10. /\ pc'[Root] = "idle" /\ done'[Root] = k
       /\ dsize'[Root] = IF a = Failed THEN dsize[Root] ELSE a
       /\ \A q \in Ranks : q # Root =>
             pc'[q] = pc[q] /\ done'[q] = done[q] /\ dsize'[q] = dsize[q]
  BY <1>1, <1>2, <1>3, <1>5, LeaveIs
<1>11. RootAhead'
  <2>1. \A q \in Ranks : done'[q] <= done'[Root]
    <3>1. ASSUME NEW q \in Ranks PROVE done[q] <= k /\ k <= k
      <4>1. done[q] \in Nat /\ done[q] <= done[Root]
        BY <1>2 DEF RootAhead, Shape
      <4> QED
        BY <1>6, <4>1
    <3> QED
      BY <1>10, <3>1
  <2>2. ASSUME NEW j \in 1 .. Len(cs), cs[j].op = "truncate"
        PROVE  cs[j].root \in {Failed, cs[j].size}
    <3>1. j \in 1 .. Len(ds) /\ j # k /\ ds[j].op = "truncate" /\ cs[j].root = ds[j].root
          /\ cs[j].size = ds[j].size
      BY <1>9, <2>2
    <3> QED
      BY <1>2, <1>7, <3>1 DEF RootAhead
  <2> QED
    BY <1>7, <2>1, <2>2 DEF RootAhead
<1>12. PICK h, d : Along(h, d)
  BY DEF HInv, Agreed
<1>13. PICK g : g = With(d, k, Told(cs[k], d[k - 1]))
  OBVIOUS
<1>14. Trail(h, cs)
  <2>1. \A j \in 1 .. Len(ds) : Alike(cs[j], ds[j])
    BY <1>9 DEF Alike
  <2> QED
    BY <1>7, <1>9, <1>12, <2>1, TrailStays DEF Along
<1>15. Sizes(g, cs)
  <2>1. ASSUME NEW j \in 1 .. Len(cs), cs[j].root # Pending, j # k
        PROVE  j < k /\ j \in 1 .. Len(ds) /\ cs[j].root = ds[j].root
    <3>1. j \in 1 .. Len(ds) /\ cs[j].root = ds[j].root
      BY <1>9, <2>1
    <3>2. j <= done[Root]
      BY <1>2, <1>7, <2>1, <3>1 DEF InCalls
    <3> QED
      BY <1>6, <3>1, <3>2
  <2>2. Sizes(d, ds)
    BY <1>7, <1>12 DEF Along
  <2>3. Sizes(With(d, k, Told(cs[k], d[k - 1])), cs)
    BY <1>6, <2>1, <2>2, SizesExtend
  <2> QED
    BY <1>13, <2>3
<1>16. \A q \in Ranks : global'[q] = h[Merged(q)']
  <2>1. \A q \in Ranks : Merged(q)' = Merged(q)
    BY <1>4, <1>5, <1>10 DEF Merged
  <2> QED
    BY <1>4, <1>12, <2>1 DEF Along
<1>17. g[k] = Told(cs[k], d[k - 1]) /\ \A j \in Nat : j # k => g[j] = d[j]
  BY <1>6, <1>13 DEF With
<1>18. ASSUME NEW q \in Ranks PROVE dsize'[q] = g[done'[q]]
  <2>1. dsize[q] = d[done[q]] /\ dsize[Root] = d[k - 1]
    BY <1>2, <1>6, <1>12 DEF Along
  <2>2. CASE q = Root
    BY <1>9, <1>10, <1>17, <2>1, <2>2 DEF Told
  <2>3. CASE q # Root
    <3>1. done[q] \in Nat /\ done[q] # k
      BY <1>2, <1>6 DEF RootAhead, Shape
    <3> QED
      BY <1>10, <1>17, <2>1, <2>3, <3>1
  <2> QED
    BY <2>2, <2>3
<1>19. Along(h, g)'
  BY <1>7, <1>14, <1>15, <1>16, <1>18 DEF Along
<1> QED
  BY <1>11, <1>19 DEF Agreed

\* The root makes a call that it decides and leaves at once.
LEMMA RootAgrees ==
    ASSUME HInv, pc[Root] = "idle", Mine(Root) > Len(coll),
           NEW a, NEW c \in Calls, c.op = "truncate", c.root = a, c.size \in Nat,
           a \in {Failed, c.size},
           coll' = Append(coll, c), Leave(Root, a),
           DOMAIN global' = Ranks, \A q \in Ranks : q # Root => global'[q] = global[q],
           global'[Root] = Effect(c, global[Root])
    PROVE  RootAhead' /\ Agreed'
<1>1. IInv /\ Shape /\ InCalls /\ RootAhead /\ Root \in Ranks
  BY RanksAre DEF HInv, IInv
<1>2. a \in Nat \cup {Failed}
  OBVIOUS
<1>3. PICK k \in Nat : k = Len(coll) + 1
  BY <1>1 DEF Shape
<1>4. coll \in Seq(Calls) /\ Len(coll) \in Nat /\ done[Root] = k - 1 /\ k # 0 /\ k - 1 \in Nat
  BY <1>1, <1>3 DEF Shape, InCalls, Mine
<1>5. PICK cs, ds : cs = coll' /\ ds = coll
  OBVIOUS
<1>6. Len(cs) = k /\ Len(ds) = k - 1 /\ cs[k] = c
      /\ \A j \in 1 .. k - 1 : j \in 1 .. Len(ds) /\ cs[j] = ds[j]
  BY <1>3, <1>4, <1>5
<1>7. /\ pc'[Root] = "idle" /\ done'[Root] = k
      /\ dsize'[Root] = IF a = Failed THEN dsize[Root] ELSE a
      /\ \A q \in Ranks : q # Root =>
            pc'[q] = pc[q] /\ done'[q] = done[q] /\ dsize'[q] = dsize[q]
  BY <1>1, <1>2, <1>4, LeaveIs
<1>8. RootAhead'
  <2>1. \A q \in Ranks : done'[q] <= done'[Root]
    BY <1>1, <1>4, <1>7 DEF RootAhead, Shape
  <2>2. ASSUME NEW j \in 1 .. k, cs[j].op = "truncate"
        PROVE  cs[j].root \in {Failed, cs[j].size}
    <3>1. CASE j = k
      BY <1>6, <3>1
    <3>2. CASE j # k
      <4>1. j \in 1 .. k - 1
        BY <3>2
      <4> QED
        BY <1>1, <1>5, <1>6, <2>2, <4>1 DEF RootAhead
    <3> QED
      BY <3>1, <3>2
  <2> QED
    BY <1>5, <1>6, <2>1, <2>2 DEF RootAhead
<1>9. PICK h, d : Along(h, d)
  BY DEF HInv, Agreed
<1>10. PICK f : f = With(h, k, Effect(cs[k], h[k - 1]))
  OBVIOUS
<1>11. PICK g : g = With(d, k, Told(cs[k], d[k - 1]))
  OBVIOUS
<1>12. Trail(f, cs)
  <2>1. \A j \in 1 .. k - 1 : Alike(cs[j], ds[j])
    BY <1>6 DEF Alike
  <2>2. Trail(h, ds)
    BY <1>5, <1>9 DEF Along
  <2>3. Trail(With(h, k, Effect(cs[k], h[k - 1])), cs)
    BY <1>4, <1>6, <2>1, <2>2, TrailExtends
  <2> QED
    BY <1>10, <2>3
<1>13. Sizes(g, cs)
  <2>1. \A j \in 1 .. Len(cs) : cs[j].root # Pending =>
           j = k \/ (j < k /\ j \in 1 .. Len(ds) /\ cs[j].root = ds[j].root)
    BY <1>4, <1>6
  <2>2. Sizes(d, ds)
    BY <1>5, <1>9 DEF Along
  <2>3. Sizes(With(d, k, Told(cs[k], d[k - 1])), cs)
    BY <1>4, <2>1, <2>2, SizesExtend
  <2> QED
    BY <1>11, <2>3
<1>14. /\ f[k] = Effect(c, h[k - 1]) /\ \A j \in Nat : j # k => f[j] = h[j]
       /\ g[k] = Told(c, d[k - 1]) /\ \A j \in Nat : j # k => g[j] = d[j]
  BY <1>6, <1>10, <1>11 DEF With
<1>15. ASSUME NEW q \in Ranks
       PROVE  global'[q] = f[Merged(q)'] /\ dsize'[q] = g[done'[q]]
  <2>1. global[q] = h[Merged(q)] /\ dsize[q] = d[done[q]]
    BY <1>9 DEF Along
  <2>2. CASE q = Root
    <3>1. Merged(Root) = k - 1 /\ Merged(Root)' = k
      BY <1>4, <1>7 DEF Merged
    <3>2. global'[Root] = f[k]
      BY <1>14, <2>1, <2>2, <3>1
    <3>3. dsize'[Root] = g[k]
      BY <1>4, <1>7, <1>14, <2>1, <2>2 DEF Told
    <3> QED
      BY <1>7, <2>2, <3>1, <3>2, <3>3
  <2>3. CASE q # Root
    <3>1. Merged(q)' = Merged(q)
      BY <1>7, <2>3 DEF Merged
    <3>2. Merged(q) \in Nat /\ Merged(q) <= Len(coll)
      BY <1>1, MergedIs
    <3>3. done[q] \in Nat /\ done[q] <= Len(coll)
      BY <1>1 DEF Shape, InCalls
    <3> QED
      BY <1>3, <1>4, <1>7, <1>14, <2>1, <2>3, <3>1, <3>2, <3>3
  <2> QED
    BY <2>2, <2>3
<1>16. Along(f, g)'
  BY <1>5, <1>12, <1>13, <1>15 DEF Along
<1> QED
  BY <1>8, <1>16 DEF Agreed

LEMMA TruncateRootAgreed ==
    ASSUME HInv, NEW size \in TruncSizes, TruncateRoot(size)
    PROVE  RootAhead' /\ Agreed'
<1>1. size \in Nat
  BY BurstBufferAssumption
<1>2. PICK c : c = Truncation(size, size)
  OBVIOUS
<1>3. c \in Calls /\ c.op = "truncate" /\ c.root = size /\ c.size = size /\ size # Failed
  BY <1>1, <1>2, TruncationIs DEF Failed
<1>4. /\ pc[Root] = "idle" /\ Mine(Root) > Len(coll)
      /\ coll' = Append(coll, c) /\ Leave(Root, size)
  BY <1>2 DEF TruncateRoot, TrimTrees, Truncation
<1>5. PICK G : G = Trim(global[Root], size)
  OBVIOUS
<1>6. global' = [global EXCEPT ![Root] = G]
  BY <1>5 DEF TruncateRoot, TrimTrees
<1>7. DOMAIN global' = Ranks /\ global'[Root] = G
      /\ \A q \in Ranks : q # Root => global'[q] = global[q]
  BY <1>6, RanksAre DEF HInv, IInv, Shape
<1>8. G = Effect(c, global[Root])
  BY <1>3, <1>5 DEF Effect
<1> QED
  BY <1>1, <1>3, <1>4, <1>7, <1>8, RootAgrees

LEMMA TruncateRootFailsAgreed ==
    ASSUME HInv, NEW size \in TruncSizes, TruncateRootFails(size)
    PROVE  RootAhead' /\ Agreed'
<1>1. size \in Nat
  BY BurstBufferAssumption
<1>2. PICK a \in Nat \cup {Failed} : a = Failed
  OBVIOUS
<1>3. PICK c : c = Truncation(size, a)
  OBVIOUS
<1>4. c \in Calls /\ c.op = "truncate" /\ c.root = a /\ c.size = size
  BY <1>1, <1>3, TruncationIs
<1>5. /\ pc[Root] = "idle" /\ Mine(Root) > Len(coll)
      /\ coll' = Append(coll, c) /\ Leave(Root, a) /\ global' = global
  BY <1>2, <1>3 DEF TruncateRootFails, Truncation
<1>6. DOMAIN global' = Ranks
  BY <1>5 DEF HInv, IInv, Shape
<1>7. global'[Root] = Effect(c, global[Root])
  BY <1>2, <1>4, <1>5 DEF Effect
<1> QED
  BY <1>1, <1>2, <1>4, <1>5, <1>6, <1>7, RootAgrees

\* Along every behaviour there is one sequence of trees and one of sizes that
\* all ranks go through (sync and truncate, bb.hpp:85-174).
THEOREM OneTrail == ~ Alone /\ Spec => []HInv
<1>1. HInv /\ [Next]_vars => HInv'
  <2> SUFFICES ASSUME HInv, [Next]_vars PROVE HInv'
    OBVIOUS
  <2>1. IInv'
    BY IndexStep DEF HInv
  <2>2. ASSUME NEW r \in Ranks, NEW w \in Writes, Pwrite(r, w[1], w[2])
        PROVE  RootAhead' /\ Agreed'
    BY <2>2, PwriteAgreed
  <2>3. ASSUME NEW r \in Ranks, SyncEnter(r) PROVE RootAhead' /\ Agreed'
    BY <2>3, SyncEnterAgreed DEF HInv, SyncEnter
  <2>4. ASSUME NEW r \in Ranks, SyncMerge(r) PROVE RootAhead' /\ Agreed'
    BY <2>4, SyncMergeAgreed
  <2>5. ASSUME NEW r \in Ranks, SyncSize(r) PROVE RootAhead' /\ Agreed'
    BY <2>5, SyncSizeAgreed
  <2>6. ASSUME NEW r \in Ranks, Truncate(r) PROVE RootAhead' /\ Agreed'
    BY <2>6, TruncateAgreed
  <2>7. ASSUME SyncSizeRoot PROVE RootAhead' /\ Agreed'
    BY <2>7, SyncSizeRootAgreed
  <2>8. ASSUME NEW size \in TruncSizes, TruncateRoot(size) PROVE RootAhead' /\ Agreed'
    BY <2>8, TruncateRootAgreed
  <2>9. ASSUME NEW size \in TruncSizes, TruncateRootFails(size) PROVE RootAhead' /\ Agreed'
    BY <2>9, TruncateRootFailsAgreed
  <2>10. ASSUME UNCHANGED vars PROVE RootAhead' /\ Agreed'
    BY <2>10 DEF vars, HInv, RootAhead, Agreed, Along, Merged
  <2>11. ASSUME Finished PROVE RootAhead' /\ Agreed'
    BY <2>10, <2>11 DEF Finished
  <2>12. RootAhead' /\ Agreed'
    BY <2>2, <2>3, <2>4, <2>5, <2>6, <2>7, <2>8, <2>9, <2>10, <2>11 DEF Next
  <2> QED
    BY <2>1, <2>12 DEF HInv
<1> QED
  BY <1>1, InitHInv, PTL DEF Spec

\* The ranks agree: those that have merged and trimmed after the same number of
\* collective calls have the same global tree, although each computed it from
\* what was gathered by itself, and those that have returned from the same
\* number have the same size of the file (bb.hpp:85-174).
THEOREM Convergence == Spec => []Converged
<1>1. HInv => Converged
  BY DEF HInv, Agreed, Along, Converged
<1>2. Alone => Converged
  BY DEF Alone, Ranks, Converged
<1>3. Alone => Alone'
  BY DEF Alone
<1> QED
  BY <1>1, <1>2, <1>3, OneTrail, PTL DEF Spec

-----------------------------------------------------------------------------
(* Merging the single pieces of all ranks.                                 *)

\* What the rings log have for the bytes that T finds in them.
Content(log, T) ==
    [o \in Offsets |->
        LET loc == LocationOf(T, o)
        IN  IF loc = Hole THEN None ELSE log[loc[1]][loc[2] + 1]]

\* T has bytes of r's ring only.
OwnBytes(T, r) == \A o \in Nat : LocationOf(T, o) # Hole => LocationOf(T, o)[1] = r

\* r wrote the bytes of its ring that T has before those that U has.
Older(T, U, r) ==
    \A o, p \in Nat :
        /\ LocationOf(T, o) # Hole /\ LocationOf(T, o)[1] = r
        /\ LocationOf(U, p) # Hole /\ LocationOf(U, p)[1] = r
        => LocationOf(T, o)[2] < LocationOf(U, p)[2]

OneNode(T) == \A m, k \in T : m = k

\* A merge loses nothing of a tree of one node whose bytes are newer than those
\* of the same rank in the other tree.
LEMMA PieceOverlays ==
    ASSUME NEW log, NEW S, Sound(log, S), NEW U, Sound(log, U), MaxOffset \in Nat,
           NEW r, OwnBytes(U, r), OneNode(U), NEW T, Older(T, U, r),
           \A o \in Nat : LocationOf(S, o) # Hole /\ LocationOf(S, o)[1] = r =>
               LocationOf(S, o) = LocationOf(T, o)
    PROVE  \A o \in Nat : LocationOf(Merge(S, U), o) =
               IF LocationOf(U, o) # Hole THEN LocationOf(U, o) ELSE LocationOf(S, o)
<1>1. Tree(S) /\ Tree(U) /\ IsFiniteSet(U)
  BY SoundFinite DEF Sound
<1>2. ~ MissedBy(S, U)
  <2> SUFFICES ASSUME NEW u \in U, NEW v \in U, NEW m \in S, u.e < m.e, m.e <= v.b PROVE FALSE
    BY DEF MissedBy
  <2>1. u = v
    BY DEF OneNode
  <2>2. v.b \in Nat /\ v.e \in Nat /\ v.b < v.e /\ m.e \in Nat
    BY <1>1 DEF Tree, NonEmpty, TreeNodes
  <2> QED
    BY <2>1, <2>2
<1>3. ~ ContinuedBy(S, U)
  <2> SUFFICES ASSUME NEW v \in U, NEW m \in S, v.client = m.client, v.ptr - v.b = m.ptr - m.b,
                      m.b <= v.e, v.e < m.e
               PROVE  FALSE
    BY DEF ContinuedBy
  <2>1. /\ v.b \in Nat /\ v.e \in Nat /\ v.b < v.e /\ v.ptr \in Int
        /\ m.b \in Nat /\ m.e \in Nat /\ m.ptr \in Int
    BY <1>1 DEF Tree, NonEmpty, TreeNodes
  <2>2. Covers(m, v.e) /\ Covers(v, v.b)
    BY <2>1 DEF Covers
  <2>3. LocationOf(S, v.e) = <<m.client, m.ptr + (v.e - m.b)>>
    BY <1>1, <2>1, <2>2, LocationIs DEF Location
  <2>4. LocationOf(U, v.b) = <<v.client, v.ptr + (v.b - v.b)>>
    BY <1>1, <2>1, <2>2, LocationIs DEF Location
  <2>5. LocationOf(U, v.b) # Hole /\ LocationOf(U, v.b)[1] = v.client
        /\ LocationOf(U, v.b)[2] = v.ptr + (v.b - v.b)
    BY <2>4 DEF Hole
  <2>6. v.client = r
    BY <2>1, <2>5 DEF OwnBytes
  <2>7. LocationOf(S, v.e) # Hole /\ LocationOf(S, v.e)[1] = r
        /\ LocationOf(S, v.e)[2] = m.ptr + (v.e - m.b)
    BY <2>3, <2>6 DEF Hole
  <2>8. LocationOf(T, v.e) = LocationOf(S, v.e)
    BY <2>1, <2>7
  <2>9. LocationOf(T, v.e)[2] < LocationOf(U, v.b)[2]
    BY <2>1, <2>5, <2>6, <2>7, <2>8 DEF Older
  <2>10. m.ptr + (v.e - m.b) < v.ptr + (v.b - v.b)
    BY <2>5, <2>7, <2>8, <2>9
  <2> QED
    BY <2>1, <2>10
<1> QED
  BY <1>1, <1>2, <1>3, MergeOverlays

\* x is where offset o is after the offers of the first n ranks are laid on T.
OnTop(T, offered, n, o, x) ==
    \/ /\ x = LocationOf(T, o)
       /\ \A q \in 0 .. n - 1 : LocationOf(offered[q], o) = Hole
    \/ \E q \in 0 .. n - 1 :
          /\ x = LocationOf(offered[q], o) /\ x # Hole
          /\ \A p \in q + 1 .. n - 1 : LocationOf(offered[p], o) = Hole

LEMMA NextOnTop ==
    ASSUME NEW T, NEW offered, NEW n \in Nat, NEW o, NEW x, OnTop(T, offered, n, o, x)
    PROVE  OnTop(T, offered, n + 1, o,
                 IF LocationOf(offered[n], o) # Hole THEN LocationOf(offered[n], o) ELSE x)
<1>1. CASE LocationOf(offered[n], o) # Hole
  <2>1. n \in 0 .. (n + 1) - 1 /\ \A p \in n + 1 .. (n + 1) - 1 : FALSE
    OBVIOUS
  <2> QED
    BY <1>1, <2>1 DEF OnTop
<1>2. CASE LocationOf(offered[n], o) = Hole
  <2>1. \A q \in 0 .. (n + 1) - 1 : q \in 0 .. n - 1 \/ q = n
    OBVIOUS
  <2>2. CASE /\ x = LocationOf(T, o)
             /\ \A q \in 0 .. n - 1 : LocationOf(offered[q], o) = Hole
    BY <1>2, <2>1, <2>2 DEF OnTop
  <2>3. CASE \E q \in 0 .. n - 1 :
                 /\ x = LocationOf(offered[q], o) /\ x # Hole
                 /\ \A p \in q + 1 .. n - 1 : LocationOf(offered[p], o) = Hole
    <3>1. PICK q \in 0 .. n - 1 :
                 /\ x = LocationOf(offered[q], o) /\ x # Hole
                 /\ \A p \in q + 1 .. n - 1 : LocationOf(offered[p], o) = Hole
      BY <2>3
    <3>2. q \in 0 .. (n + 1) - 1
      OBVIOUS
    <3>3. \A p \in q + 1 .. (n + 1) - 1 : LocationOf(offered[p], o) = Hole
      <4>1. \A p \in q + 1 .. (n + 1) - 1 : p \in q + 1 .. n - 1 \/ p = n
        OBVIOUS
      <4> QED
        BY <1>2, <3>1, <4>1
    <3> QED
      BY <1>2, <3>1, <3>2, <3>3 DEF OnTop
  <2> QED
    BY <2>2, <2>3 DEF OnTop
<1> QED
  BY <1>1, <1>2

\* Trees that can be merged into T one after the other.
Mergeable(log, T, offered) ==
    \A r \in Ranks : /\ Sound(log, offered[r]) /\ OwnBytes(offered[r], r) /\ OneNode(offered[r])
                     /\ Older(T, offered[r], r)

\* The offers of higher ranks are on top of those of lower ones and of T.
LEMMA AllOnTop ==
    ASSUME NEW log, NEW T, Sound(log, T), NEW offered, Mergeable(log, T, offered),
           MaxOffset \in Nat, NRanks \in Nat
    PROVE  \A o \in Nat : OnTop(T, offered, NRanks, o, LocationOf(MergeAll(T, offered), o))
<1>1. PICK f : f = CHOOSE g : Merges(g, NRanks, T, offered)
  OBVIOUS
<1>2. f = [n \in 0 .. NRanks |-> IF n = 0 THEN T ELSE Merge(f[n - 1], offered[n - 1])]
  <2>1. \E g : Merges(g, NRanks, T, offered)
    BY MergesExist
  <2>2. Merges(f, NRanks, T, offered)
    BY <1>1, <2>1
  <2> QED
    BY <2>2 DEF Merges
<1>3. MergeAll(T, offered) = f[NRanks]
  BY <1>1 DEF MergeAll, Merges
<1> DEFINE Laid(n) == /\ Sound(log, f[n])
                      /\ \A o \in Nat : OnTop(T, offered, n, o, LocationOf(f[n], o))
           Bad == {n \in 0 .. NRanks : ~ Laid(n)}
<1>4. CASE Bad = {}
  BY <1>3, <1>4
<1>5. CASE Bad # {}
  <2>1. PICK n \in Bad : \A m \in Bad : n <= m
    <3>1. Bad \in SUBSET Nat
      OBVIOUS
    <3> HIDE DEF Bad
    <3> QED
      BY <1>5, <3>1, SmallestExists
  <2>2. n # 0
    <3>1. f[0] = T
      BY <1>2
    <3>2. Laid(0)
      BY <3>1 DEF OnTop
    <3> QED
      BY <2>1, <3>2
  <2>3. PICK k \in Ranks : k = n - 1
    BY <2>1, <2>2 DEF Ranks
  <2>4. k \in 0 .. NRanks /\ k \notin Bad /\ k \in Nat /\ n = k + 1
    BY <2>1, <2>2, <2>3
  <2>5. Laid(k)
    BY <2>4
  <2>6. f[n] = Merge(f[k], offered[k])
    BY <1>2, <2>1, <2>2, <2>3
  <2>7. Sound(log, offered[k]) /\ OwnBytes(offered[k], k) /\ OneNode(offered[k]) /\ Older(T, offered[k], k)
    BY DEF Mergeable
  <2>8. Sound(log, f[n])
    BY <2>5, <2>6, <2>7, SoundAfterMerge
  <2>9. ASSUME NEW o \in Nat, LocationOf(f[k], o) # Hole, LocationOf(f[k], o)[1] = k
        PROVE  LocationOf(f[k], o) = LocationOf(T, o)
    <3>1. PICK x : x = LocationOf(f[k], o)
      OBVIOUS
    <3>2. OnTop(T, offered, k, o, x)
      BY <2>5, <3>1
    <3>3. ASSUME NEW q \in 0 .. k - 1, x = LocationOf(offered[q], o) PROVE FALSE
      <4>1. q \in Ranks /\ q # k
        BY <2>3 DEF Ranks
      <4>2. OwnBytes(offered[q], q)
        BY <4>1 DEF Mergeable
      <4>3. x[1] = q
        BY <2>9, <3>1, <3>3, <4>2 DEF OwnBytes
      <4> QED
        BY <2>9, <3>1, <4>1, <4>3
    <3> QED
      BY <3>1, <3>2, <3>3 DEF OnTop
  <2>10. PICK S, U : S = f[k] /\ U = offered[k]
    OBVIOUS
  <2>11. \A o \in Nat : LocationOf(Merge(S, U), o) =
               IF LocationOf(U, o) # Hole THEN LocationOf(U, o) ELSE LocationOf(S, o)
    <3>1. Sound(log, S) /\ Sound(log, U) /\ OwnBytes(U, k) /\ OneNode(U) /\ Older(T, U, k)
      BY <2>5, <2>7, <2>10
    <3>2. \A o \in Nat : LocationOf(S, o) # Hole /\ LocationOf(S, o)[1] = k =>
               LocationOf(S, o) = LocationOf(T, o)
      BY <2>9, <2>10
    <3> QED
      BY <3>1, <3>2, PieceOverlays
  <2>12. ASSUME NEW o \in Nat PROVE OnTop(T, offered, n, o, LocationOf(f[n], o))
    <3>1. PICK x : x = LocationOf(S, o)
      OBVIOUS
    <3>2. OnTop(T, offered, k, o, x)
      BY <2>5, <2>10, <3>1
    <3>3. OnTop(T, offered, k + 1, o,
                 IF LocationOf(offered[k], o) # Hole THEN LocationOf(offered[k], o) ELSE x)
      BY <2>4, <3>2, NextOnTop
    <3> QED
      BY <2>4, <2>6, <2>10, <2>11, <3>1, <3>3
  <2> QED
    BY <2>1, <2>8, <2>12
<1> QED
  BY <1>4, <1>5

-----------------------------------------------------------------------------
(* The files that the calls leave.                                         *)

CutOf(c) == IF c.root = Failed \/ c.size > MaxOffset THEN MaxOffset ELSE c.size

\* The file f with what a call offers on top of it, and cut by a call.
PublishedOn(log, c, f) ==
    LET offer == [r \in Ranks |-> Content(log, c.offered[r])]
    IN  [o \in Offsets |->
            LET writers == {r \in Ranks : offer[r][o] # None}
            IN  IF writers = {} THEN f[o]
                ELSE offer[CHOOSE r \in writers : \A q \in writers : q <= r][o]]

CutDown(c, f) == [o \in Offsets |-> IF o < CutOf(c) THEN f[o] ELSE None]

\* f has the file after each of the first n calls.
Files(f, cs, log, n) ==
    f = [k \in 0 .. n |->
            IF k = 0 THEN [o \in Offsets |-> None]
            ELSE IF cs[k].op = "sync" THEN PublishedOn(log, cs[k], f[k - 1])
                 ELSE CutDown(cs[k], f[k - 1])]

LEMMA FileAfterIs == FileAfter = CHOOSE f : Files(f, coll, ring, NumDecided)
  BY DEF FileAfter, Files, PublishedOn, CutDown, CutOf, CutSize, ContentOf, Content

LEMMA FileAfterNext == FileAfter' = CHOOSE f : Files(f, coll', ring', NumDecided')
  BY DEF FileAfter, Files, PublishedOn, CutDown, CutOf, CutSize, ContentOf, Content

\* A byte is found just where a tree has a location for it.
LEMMA FoundIs ==
    ASSUME NEW log \in [Ranks -> Seq(Bytes)], NEW T, Sound(log, T), NEW o \in Offsets
    PROVE  /\ o \in Nat
           /\ Content(log, T)[o] = None <=> LocationOf(T, o) = Hole
           /\ Content(log, T)[o] =
                IF LocationOf(T, o) = Hole THEN None
                ELSE log[LocationOf(T, o)[1]][LocationOf(T, o)[2] + 1]
<1>1. o \in Nat
  BY BurstBufferAssumption DEF Offsets
<1>2. PICK loc : loc = LocationOf(T, o)
  OBVIOUS
<1>3. Content(log, T)[o] = IF loc = Hole THEN None ELSE log[loc[1]][loc[2] + 1]
  BY <1>2 DEF Content
<1>4. ASSUME loc # Hole PROVE log[loc[1]][loc[2] + 1] # None
  <2>1. loc[1] \in Ranks /\ loc[2] \in Nat /\ loc[2] < Len(log[loc[1]])
    BY <1>1, <1>2, <1>4 DEF Sound, Holds
  <2>2. PICK s \in Seq(Bytes) : s = log[loc[1]]
    BY <2>1
  <2>3. loc[2] + 1 \in 1 .. Len(s)
    BY <2>1, <2>2
  <2>4. s[loc[2] + 1] \in Bytes
    BY <2>2, <2>3
  <2>5. \A x \in Bytes : x # None
    <3>1. ASSUME NEW a \in Ranks, NEW b \in Nat, NEW c \in Nat PROVE <<a, b, c>> # None
      BY DEF None
    <3> QED
      BY <3>1 DEF Bytes
  <2> QED
    BY <2>2, <2>4, <2>5
<1> QED
  BY <1>1, <1>2, <1>3, <1>4

LEMMA TrimIs ==
    ASSUME NEW log, NEW T, Sound(log, T), NEW size \in Nat, MaxOffset \in Nat, NEW o \in Nat
    PROVE  LocationOf(Trim(T, size), o) = IF o < size THEN LocationOf(T, o) ELSE Hole
<1>1. CASE T # {} /\ BackEnd(T) > size
  <2>1. PICK v : v = Node(size, MaxOffset, 0, 0)
    OBVIOUS
  <2>2. v.b = size /\ v.e = MaxOffset
    BY <2>1 DEF Node
  <2>3. size <= MaxOffset
    BY <1>1, SoundBackEnd
  <2>4. IsExtent(v)
    BY <2>2, <2>3 DEF IsExtent
  <2>5. Tree(T)
    BY DEF Sound
  <2>6. LocationOf(Remove(T, v), o) = IF v.b <= o /\ o < v.e THEN Hole ELSE LocationOf(T, o)
    BY <2>4, <2>5, RemoveErases
  <2>7. LocationOf(T, o) # Hole => o < MaxOffset
    BY DEF Sound
  <2>8. Trim(T, size) = Remove(T, v)
    BY <1>1, <2>1 DEF Trim
  <2> QED
    BY <2>2, <2>6, <2>7, <2>8
<1>2. CASE ~ (T # {} /\ BackEnd(T) > size)
  <2>1. Trim(T, size) = T
    BY <1>2 DEF Trim
  <2>2. ASSUME LocationOf(T, o) # Hole PROVE o < size
    <3>1. o < BackEnd(T) /\ BackEnd(T) \in Nat
      BY <2>2, SoundBefore, SoundBackEnd
    <3>2. T # {}
      BY <2>2, HoleIs
    <3> QED
      BY <1>2, <3>1, <3>2
  <2> QED
    BY <2>1, <2>2
<1> QED
  BY <1>1, <1>2

\* cs are calls whose first n are settled, after which the trees are those of h;
\* what the ranks offered are single pieces, each newer than those before it.
Chronicle(cs, log, n, h) ==
    /\ n \in Nat /\ log \in [Ranks -> Seq(Bytes)]
    /\ h[0] = {}
    /\ \A k \in 1 .. n : cs[k] \in Calls /\ Settled(cs[k]) /\ h[k] = Effect(cs[k], h[k - 1])
    /\ \A k \in 1 .. n : cs[k].op = "sync" => \A r \in Ranks :
          /\ Sound(log, cs[k].offered[r]) /\ OwnBytes(cs[k].offered[r], r) /\ OneNode(cs[k].offered[r])
          /\ \A j \in 1 .. k - 1 : cs[j].op = "sync" => Older(cs[j].offered[r], cs[k].offered[r], r)

\* Each byte of h[k] is where some rank had it in one of the calls up to k.
FromOffers(cs, T, k) ==
    \A o \in Nat : LocationOf(T, o) # Hole =>
        \E j \in 1 .. k : /\ cs[j].op = "sync"
                          /\ \E r \in Ranks : LocationOf(T, o) = LocationOf(cs[j].offered[r], o)

LEMMA NextMergeable ==
    ASSUME NEW cs, NEW log, NEW n, NEW h, Chronicle(cs, log, n, h), NEW k \in 1 .. n,
           cs[k].op = "sync", FromOffers(cs, h[k - 1], k - 1)
    PROVE  Mergeable(log, h[k - 1], cs[k].offered)
<1> SUFFICES ASSUME NEW r \in Ranks
             PROVE  /\ Sound(log, cs[k].offered[r]) /\ OwnBytes(cs[k].offered[r], r)
                    /\ OneNode(cs[k].offered[r]) /\ Older(h[k - 1], cs[k].offered[r], r)
  BY DEF Mergeable
<1>1. /\ Sound(log, cs[k].offered[r]) /\ OwnBytes(cs[k].offered[r], r) /\ OneNode(cs[k].offered[r])
      /\ \A j \in 1 .. k - 1 : cs[j].op = "sync" => Older(cs[j].offered[r], cs[k].offered[r], r)
  BY DEF Chronicle
<1>2. PICK T, U : T = h[k - 1] /\ U = cs[k].offered[r]
  OBVIOUS
<1>3. ASSUME NEW o \in Nat, NEW p \in Nat,
             LocationOf(T, o) # Hole, LocationOf(T, o)[1] = r,
             LocationOf(U, p) # Hole, LocationOf(U, p)[1] = r
      PROVE  LocationOf(T, o)[2] < LocationOf(U, p)[2]
  <2>1. PICK j \in 1 .. k - 1, q \in Ranks :
            cs[j].op = "sync" /\ LocationOf(T, o) = LocationOf(cs[j].offered[q], o)
    BY <1>2, <1>3 DEF FromOffers
  <2>2. j \in 1 .. n
    BY DEF Chronicle
  <2>3. OwnBytes(cs[j].offered[q], q)
    BY <2>1, <2>2 DEF Chronicle
  <2>4. q = r
    BY <1>3, <2>1, <2>3 DEF OwnBytes
  <2>5. Older(cs[j].offered[r], U, r)
    BY <1>1, <1>2, <2>1
  <2> QED
    BY <1>3, <2>1, <2>4, <2>5 DEF Older
<1>4. Older(T, U, r)
  BY <1>3 DEF Older
<1> QED
  BY <1>1, <1>2, <1>4

LEMMA ChronicleSound ==
    ASSUME NEW cs, NEW log, NEW n, NEW h, Chronicle(cs, log, n, h),
           MaxOffset \in Nat, NRanks \in Nat
    PROVE  \A k \in 0 .. n : Sound(log, h[k]) /\ FromOffers(cs, h[k], k)
<1> DEFINE Bad == {k \in 0 .. n : ~ (Sound(log, h[k]) /\ FromOffers(cs, h[k], k))}
<1>1. n \in Nat
  BY DEF Chronicle
<1>2. CASE Bad = {}
  BY <1>2
<1>3. CASE Bad # {}
  <2>1. PICK k \in Bad : \A m \in Bad : k <= m
    <3>1. Bad \in SUBSET Nat
      OBVIOUS
    <3> HIDE DEF Bad
    <3> QED
      BY <1>3, <3>1, SmallestExists
  <2>2. k # 0
    <3>1. h[0] = {} /\ Sound(log, {})
      BY EmptyIsSound DEF Chronicle
    <3>2. \A o \in Nat : LocationOf({}, o) = Hole
      BY HoleIs
    <3>3. Sound(log, h[0]) /\ FromOffers(cs, h[0], 0)
      BY <3>1, <3>2 DEF FromOffers
    <3> QED
      BY <2>1, <3>3
  <2>3. k \in 1 .. n /\ k - 1 \in 0 .. n /\ k - 1 \notin Bad
    BY <1>1, <2>1, <2>2
  <2>4. PICK T, c : T = h[k - 1] /\ c = cs[k]
    OBVIOUS
  <2>5. Sound(log, T) /\ FromOffers(cs, T, k - 1)
    BY <2>3, <2>4
  <2>6. c \in Calls /\ Settled(c) /\ h[k] = Effect(c, T) /\ c.size \in Nat
    BY <2>3, <2>4 DEF Chronicle, Calls
  <2>7. \A j \in 1 .. k - 1 : j \in 1 .. k
    BY <2>3
  <2>8. ASSUME NEW S, Sound(log, S), h[k] = S,
               \A o \in Nat : LocationOf(S, o) \in {Hole, LocationOf(T, o)}
        PROVE  FALSE
    <3>1. FromOffers(cs, S, k)
      BY <2>5, <2>7, <2>8 DEF FromOffers
    <3> QED
      BY <2>1, <2>8, <3>1
  <2>9. CASE c.op # "sync"
    <3>1. CASE c.root = Failed
      <4>1. h[k] = T
        BY <2>6, <2>9, <3>1 DEF Effect
      <4> QED
        BY <2>5, <2>8, <4>1
    <3>2. CASE c.root # Failed
      <4>1. h[k] = Trim(T, c.size)
        BY <2>6, <2>9, <3>2 DEF Effect
      <4>2. Sound(log, Trim(T, c.size))
        BY <2>5, <2>6, SoundAfterTrim
      <4>3. \A o \in Nat : LocationOf(Trim(T, c.size), o) \in {Hole, LocationOf(T, o)}
        BY <2>5, <2>6, TrimIs
      <4> QED
        BY <2>8, <4>1, <4>2, <4>3
    <3> QED
      BY <3>1, <3>2
  <2>10. CASE c.op = "sync"
    <3>1. Mergeable(log, T, c.offered)
      BY <2>3, <2>4, <2>5, <2>10, NextMergeable
    <3>2. h[k] = MergeAll(T, c.offered)
      BY <2>6, <2>10 DEF Effect
    <3>3. PICK S : S = h[k]
      OBVIOUS
    <3>4. Sound(log, S)
      BY <2>5, <3>1, <3>2, <3>3, SoundAfterAll DEF Mergeable
    <3>5. ASSUME NEW o \in Nat, LocationOf(S, o) # Hole
          PROVE  \E j \in 1 .. k : /\ cs[j].op = "sync"
                                   /\ \E r \in Ranks : LocationOf(S, o) = LocationOf(cs[j].offered[r], o)
      <4>1. PICK x : x = LocationOf(S, o)
        OBVIOUS
      <4>2. OnTop(T, c.offered, NRanks, o, x)
        BY <2>5, <3>1, <3>2, <3>3, <4>1, AllOnTop
      <4>3. CASE x = LocationOf(T, o)
        BY <2>5, <2>7, <3>5, <4>1, <4>3 DEF FromOffers
      <4>4. CASE \E q \in 0 .. NRanks - 1 : x = LocationOf(c.offered[q], o)
        <5>1. PICK q \in Ranks : x = LocationOf(c.offered[q], o)
          BY <4>4 DEF Ranks
        <5>2. k \in 1 .. k
          BY <2>3
        <5> QED
          BY <2>4, <2>10, <4>1, <5>1, <5>2
      <4> QED
        BY <4>2, <4>3, <4>4 DEF OnTop
    <3>6. FromOffers(cs, S, k)
      BY <3>5 DEF FromOffers
    <3> QED
      BY <2>1, <3>3, <3>4, <3>6
  <2> QED
    BY <2>9, <2>10
<1> QED
  BY <1>2, <1>3

\* What a settled call leaves for the ranks to find: the bytes that are offered
\* on top of those before, a higher rank's on a lower one's, and a file cut.
LEMMA CallLeaves ==
    ASSUME NEW cs, NEW log, NEW n, NEW h, Chronicle(cs, log, n, h), NEW k \in 1 .. n,
           MaxOffset \in Nat, NRanks \in Nat
    PROVE  Content(log, h[k]) =
              IF cs[k].op = "sync" THEN PublishedOn(log, cs[k], Content(log, h[k - 1]))
              ELSE CutDown(cs[k], Content(log, h[k - 1]))
<1>1. log \in [Ranks -> Seq(Bytes)] /\ n \in Nat
  BY DEF Chronicle
<1>2. PICK T, S, c : T = h[k - 1] /\ S = h[k] /\ c = cs[k]
  OBVIOUS
<1>3. Sound(log, T) /\ Sound(log, S) /\ FromOffers(cs, T, k - 1)
  <2>1. k \in 0 .. n /\ k - 1 \in 0 .. n
    BY <1>1
  <2> QED
    BY <1>2, <2>1, ChronicleSound
<1>4. c \in Calls /\ Settled(c) /\ S = Effect(c, T) /\ c.size \in Nat
  BY <1>2 DEF Chronicle, Calls
<1>5. PICK A, B : A = Content(log, T) /\ B = Content(log, S)
  OBVIOUS
<1>6. B = [o \in Offsets |-> B[o]]
  BY <1>5 DEF Content
<1>7. CASE c.op = "sync"
  <2>1. Mergeable(log, T, c.offered) /\ S = MergeAll(T, c.offered)
    <3>1. Mergeable(log, T, c.offered)
      BY <1>2, <1>3, <1>7, NextMergeable
    <3> QED
      BY <1>4, <1>7, <3>1 DEF Effect
  <2>2. PICK offer : offer = [r \in Ranks |-> Content(log, c.offered[r])]
    OBVIOUS
  <2>3. ASSUME NEW o \in Offsets, NEW W, W = {r \in Ranks : offer[r][o] # None}
        PROVE  B[o] = IF W = {} THEN A[o]
                      ELSE offer[CHOOSE r \in W : \A q \in W : q <= r][o]
    <3>1. o \in Nat /\ A[o] = (IF LocationOf(T, o) = Hole THEN None
                                ELSE log[LocationOf(T, o)[1]][LocationOf(T, o)[2] + 1])
          /\ B[o] = (IF LocationOf(S, o) = Hole THEN None
                      ELSE log[LocationOf(S, o)[1]][LocationOf(S, o)[2] + 1])
      BY <1>1, <1>3, <1>5, FoundIs
    <3>2. ASSUME NEW r \in Ranks
          PROVE  /\ r \in W <=> LocationOf(c.offered[r], o) # Hole
                 /\ offer[r][o] = IF LocationOf(c.offered[r], o) = Hole THEN None
                                  ELSE log[LocationOf(c.offered[r], o)[1]][LocationOf(c.offered[r], o)[2] + 1]
      <4>1. Sound(log, c.offered[r])
        BY <2>1 DEF Mergeable
      <4>2. offer[r] = Content(log, c.offered[r])
        BY <2>2
      <4> QED
        BY <1>1, <2>3, <4>1, <4>2, FoundIs
    <3>3. PICK x : x = LocationOf(S, o)
      OBVIOUS
    <3>4. OnTop(T, c.offered, NRanks, o, x)
      BY <1>3, <2>1, <3>1, <3>3, AllOnTop
    <3>5. CASE x = LocationOf(T, o) /\ \A q \in 0 .. NRanks - 1 : LocationOf(c.offered[q], o) = Hole
      <4>1. W = {}
        BY <2>3, <3>2, <3>5 DEF Ranks
      <4> QED
        BY <3>1, <3>3, <3>5, <4>1
    <3>6. CASE \E q \in 0 .. NRanks - 1 :
                  /\ x = LocationOf(c.offered[q], o) /\ x # Hole
                  /\ \A p \in q + 1 .. NRanks - 1 : LocationOf(c.offered[p], o) = Hole
      <4>1. PICK q \in Ranks :
                  /\ x = LocationOf(c.offered[q], o) /\ x # Hole
                  /\ \A p \in q + 1 .. NRanks - 1 : LocationOf(c.offered[p], o) = Hole
        BY <3>6 DEF Ranks
      <4>2. q \in W
        BY <3>2, <4>1
      <4>3. ASSUME NEW p \in W PROVE p <= q
        <5>1. p \in Ranks /\ LocationOf(c.offered[p], o) # Hole
          BY <2>3, <3>2
        <5> QED
          BY <4>1, <5>1 DEF Ranks
      <4>4. \A r \in W : (\A p \in W : p <= r) => r = q
        <5>1. \A r \in W : r \in Nat
          BY <2>3, RanksAre
        <5> QED
          BY <4>2, <4>3, <5>1
      <4>5. (CHOOSE r \in W : \A p \in W : p <= r) = q
        BY <4>2, <4>3, <4>4
      <4> QED
        BY <3>1, <3>2, <3>3, <4>1, <4>2, <4>5
    <3> QED
      BY <3>4, <3>5, <3>6 DEF OnTop
  <2>4. B = [o \in Offsets |->
               LET writers == {r \in Ranks : offer[r][o] # None}
               IN  IF writers = {} THEN A[o]
                   ELSE offer[CHOOSE r \in writers : \A q \in writers : q <= r][o]]
    BY <1>6, <2>3
  <2>5. B = PublishedOn(log, c, A)
    BY <2>2, <2>4 DEF PublishedOn
  <2> QED
    BY <1>2, <1>5, <1>7, <2>5
<1>8. CASE c.op # "sync"
  <2>1. ASSUME NEW o \in Offsets
        PROVE  B[o] = IF o < CutOf(c) THEN A[o] ELSE None
    <3>1. o \in Nat /\ o < MaxOffset
      BY DEF Offsets
    <3>2. A[o] = (IF LocationOf(T, o) = Hole THEN None
                  ELSE log[LocationOf(T, o)[1]][LocationOf(T, o)[2] + 1])
          /\ B[o] = (IF LocationOf(S, o) = Hole THEN None
                      ELSE log[LocationOf(S, o)[1]][LocationOf(S, o)[2] + 1])
      BY <1>1, <1>3, <1>5, FoundIs
    <3>3. CASE c.root = Failed
      BY <1>4, <1>8, <3>1, <3>2, <3>3 DEF CutOf, Effect
    <3>4. CASE c.root # Failed
      <4>1. S = Trim(T, c.size)
        BY <1>4, <1>8, <3>4 DEF Effect
      <4>2. LocationOf(S, o) = IF o < c.size THEN LocationOf(T, o) ELSE Hole
        BY <1>3, <1>4, <3>1, <4>1, TrimIs
      <4>3. o < CutOf(c) <=> o < c.size
        BY <1>4, <3>1, <3>4 DEF CutOf
      <4> QED
        BY <3>2, <4>2, <4>3
    <3> QED
      BY <3>3, <3>4
  <2>2. B = CutDown(c, A)
    BY <1>6, <2>1 DEF CutDown
  <2> QED
    BY <1>2, <1>5, <1>8, <2>2
<1> QED
  BY <1>7, <1>8

\* So the files are what the trees of the chronicle find, call after call.
LEMMA FilesAre ==
    ASSUME NEW cs, NEW log, NEW n, NEW h, Chronicle(cs, log, n, h),
           MaxOffset \in Nat, NRanks \in Nat
    PROVE  (CHOOSE f : Files(f, cs, log, n)) = [k \in 0 .. n |-> Content(log, h[k])]
<1>1. n \in Nat
  BY DEF Chronicle
<1>2. PICK g : g = [k \in 0 .. n |-> Content(log, h[k])]
  OBVIOUS
<1>3. Content(log, h[0]) = [o \in Offsets |-> None]
  <2>1. h[0] = {} /\ \A o : LocationOf({}, o) = Hole
    BY HoleIs DEF Chronicle
  <2> QED
    BY <2>1 DEF Content
<1>4. ASSUME NEW k \in 0 .. n
      PROVE  g[k] = IF k = 0 THEN [o \in Offsets |-> None]
                    ELSE IF cs[k].op = "sync" THEN PublishedOn(log, cs[k], g[k - 1])
                         ELSE CutDown(cs[k], g[k - 1])
  <2>1. CASE k = 0
    BY <1>2, <1>3, <2>1
  <2>2. CASE k # 0
    <3>1. k \in 1 .. n /\ k - 1 \in 0 .. n
      BY <1>1, <2>2
    <3>2. g[k] = Content(log, h[k]) /\ g[k - 1] = Content(log, h[k - 1])
      BY <1>2, <3>1
    <3> QED
      BY <2>2, <3>1, <3>2, CallLeaves
  <2> QED
    BY <2>1, <2>2
<1>5. Files(g, cs, log, n)
  BY <1>2, <1>4 DEF Files
<1>6. PICK f : f = CHOOSE x : Files(x, cs, log, n)
  OBVIOUS
<1>7. Files(f, cs, log, n)
  BY <1>5, <1>6
<1> DEFINE Bad == {k \in 0 .. n : f[k] # g[k]}
<1>8. CASE Bad = {}
  <2>1. f = [k \in 0 .. n |-> f[k]] /\ g = [k \in 0 .. n |-> g[k]]
    BY <1>2, <1>7 DEF Files
  <2> QED
    BY <1>2, <1>6, <1>8, <2>1
<1>9. CASE Bad # {}
  <2>1. PICK k \in Bad : \A m \in Bad : k <= m
    <3>1. Bad \in SUBSET Nat
      OBVIOUS
    <3> HIDE DEF Bad
    <3> QED
      BY <1>9, <3>1, SmallestExists
  <2>2. f[k] = IF k = 0 THEN [o \in Offsets |-> None]
               ELSE IF cs[k].op = "sync" THEN PublishedOn(log, cs[k], f[k - 1])
                    ELSE CutDown(cs[k], f[k - 1])
    BY <1>7, <2>1 DEF Files
  <2>3. CASE k = 0
    BY <1>4, <2>1, <2>2, <2>3
  <2>4. CASE k # 0
    <3>1. k - 1 \in 0 .. n /\ k - 1 \notin Bad
      BY <1>1, <2>1, <2>4
    <3>2. f[k - 1] = g[k - 1]
      BY <3>1
    <3> QED
      BY <1>4, <2>1, <2>2, <3>2
  <2> QED
    BY <2>3, <2>4
<1> QED
  BY <1>8, <1>9

-----------------------------------------------------------------------------
(* What a rank has written since it last merged, and what it offered.      *)

\* The bytes a rank offers, and those of its local tree, are its own; it wrote
\* those of an earlier call before those of a later one, and those of its local
\* tree after those of the calls whose trees it has merged; and the tree it is
\* waiting to have merged is the one it offered.
OwnTrees ==
    /\ \A r \in Ranks : OwnBytes(local[r], r)
    /\ \A k \in 1 .. Len(coll) : \A r \in DOMAIN coll[k].offered : OwnBytes(coll[k].offered[r], r)

InOrder ==
    /\ \A k \in 1 .. Len(coll) : \A j \in 1 .. k - 1 :
          \A r \in DOMAIN coll[j].offered \cap DOMAIN coll[k].offered :
              Older(coll[j].offered[r], coll[k].offered[r], r)
    /\ \A r \in Ranks : \A j \in 1 .. Merged(r) :
          r \in DOMAIN coll[j].offered => Older(coll[j].offered[r], local[r], r)

InFlight ==
    \A r \in Ranks : pc[r] = "gather" =>
        r \in DOMAIN coll[Mine(r)].offered /\ coll[Mine(r)].offered[r] = local[r]

Pieces ==
    /\ \A r \in Ranks : OneNode(local[r])
    /\ \A k \in 1 .. Len(coll) : \A r \in DOMAIN coll[k].offered : OneNode(coll[k].offered[r])

PieceInv == OwnTrees /\ InOrder /\ InFlight /\ (onepiece => Pieces)

LEMMA NothingFound == \A o : LocationOf({}, o) = Hole
  BY HoleIs

LEMMA OneNodeTrimmed ==
    ASSUME NEW log, NEW T, Sound(log, T), OneNode(T), NEW size \in Nat, MaxOffset \in Nat
    PROVE  OneNode(Trim(T, size))
<1>1. CASE T # {} /\ BackEnd(T) > size
  <2>1. PICK v : v = Node(size, MaxOffset, 0, 0)
    OBVIOUS
  <2>2. v.b = size /\ v.e = MaxOffset
    BY <2>1 DEF Node
  <2>3. PICK hit : hit = Hit(T, LowerBound(T, v), v)
    OBVIOUS
  <2>4. hit \subseteq T
    BY <2>3 DEF Hit
  <2>5. PICK m \in T : T = {m}
    BY <1>1 DEF OneNode
  <2>6. Rear(m, v) = {}
    <3>1. m.e \in Nat /\ m.e <= BackEnd(T) /\ BackEnd(T) <= MaxOffset /\ BackEnd(T) \in Nat
      BY SoundBackEnd DEF Sound, Tree, TreeNodes
    <3>2. ~ (v.e < m.e)
      BY <2>2, <3>1
    <3> QED
      BY <3>2 DEF Rear
  <2>7. Trim(T, size) = (T \ hit) \cup UNION {Front(k, v) \cup Rear(k, v) : k \in hit}
    BY <1>1, <2>1, <2>3 DEF Trim, Remove, Carve
  <2>8. CASE hit = {}
    BY <2>7, <2>8
  <2>9. CASE hit # {}
    <3>1. hit = {m}
      BY <2>4, <2>5, <2>9
    <3>2. Trim(T, size) = Front(m, v)
      BY <2>5, <2>6, <2>7, <3>1
    <3> QED
      BY <3>2 DEF Front, OneNode
  <2> QED
    BY <2>8, <2>9
<1>2. CASE ~ (T # {} /\ BackEnd(T) > size)
  BY <1>2 DEF Trim
<1> QED
  BY <1>1, <1>2

LEMMA InitPieces == Init => PieceInv
<1> SUFFICES ASSUME Init PROVE PieceInv
  OBVIOUS
<1>1. \A r \in Ranks : local[r] = {}
  BY DEF Init
<1>2. coll = <<>> /\ Len(coll) = 0
  BY DEF Init
<1>3. OwnTrees
  <2>1. \A r \in Ranks : OwnBytes(local[r], r)
    BY <1>1, NothingFound DEF OwnBytes
  <2> QED
    BY <1>2, <2>1 DEF OwnTrees
<1>4. InOrder
  <2>1. \A r \in Ranks : Merged(r) = 0
    BY DEF Init, Merged
  <2> QED
    BY <1>2, <2>1 DEF InOrder
<1>5. InFlight
  BY DEF Init, InFlight
<1>6. Pieces
  BY <1>1, <1>2 DEF Pieces, OneNode
<1> QED
  BY <1>3, <1>4, <1>5, <1>6 DEF PieceInv

LEMMA PwritePieces ==
    ASSUME IInv, PieceInv, NEW r \in Ranks, NEW w \in Writes, Pwrite(r, w[1], w[2])
    PROVE  PieceInv'
<1>1. PICK b, e : b = w[1] /\ e = w[2]
  OBVIOUS
<1>2. b \in Nat /\ e \in Nat /\ b < e /\ e <= MaxOffset /\ MaxOffset \in Nat
  BY <1>1, BurstBufferAssumption
<1>3. PICK lsn \in Nat : lsn = Len(ring[r])
  BY DEF IInv, Shape
<1>4. PICK v : v = Node(b, e, lsn, r)
  OBVIOUS
<1>5. v \in TreeNodes /\ v.b = b /\ v.e = e /\ v.ptr = lsn /\ v.client = r
  BY <1>2, <1>4, RanksAre DEF Node, TreeNodes
<1>6. PICK T, S : T = local[r] /\ S = Add(T, v)
  OBVIOUS
<1>7. Tree(T)
  BY <1>6 DEF IInv, AllSound, Sound
<1>8. \A o \in Nat : LocationOf(S, o) = IF Covers(v, o) THEN Location(v, o) ELSE LocationOf(T, o)
  BY <1>2, <1>5, <1>6, <1>7, AddAssigns
<1>9. /\ local' = [local EXCEPT ![r] = S] /\ pc[r] = "idle" /\ pc' = pc /\ coll' = coll /\ done' = done
      /\ onepiece' = (onepiece /\ Cardinality(S) = 1)
  BY <1>1, <1>3, <1>4, <1>6 DEF Pwrite
<1>10. local'[r] = S /\ \A q \in Ranks : q # r => local'[q] = local[q]
  BY <1>9 DEF IInv, Shape
<1>11. \A q \in Ranks : Merged(q)' = Merged(q) /\ Mine(q)' = Mine(q)
  BY <1>9 DEF Merged, Mine
<1>12. ASSUME NEW o \in Nat, LocationOf(S, o) # Hole, LocationOf(S, o) # LocationOf(T, o)
       PROVE  LocationOf(S, o)[1] = r /\ LocationOf(S, o)[2] \in Int /\ LocationOf(S, o)[2] >= lsn
  <2>1. Covers(v, o)
    BY <1>8, <1>12
  <2>2. LocationOf(S, o) = <<r, lsn + (o - b)>>
    BY <1>5, <1>8, <2>1 DEF Location
  <2>3. b <= o
    BY <1>5, <2>1 DEF Covers
  <2> QED
    BY <1>2, <2>2, <2>3
<1>13. OwnTrees'
  <2>1. OwnBytes(S, r)
    BY <1>6, <1>12 DEF PieceInv, OwnTrees, OwnBytes
  <2> QED
    BY <1>9, <1>10, <2>1 DEF PieceInv, OwnTrees
<1>14. ASSUME NEW j \in 1 .. Merged(r), r \in DOMAIN coll[j].offered
       PROVE  Older(coll[j].offered[r], S, r)
  <2>1. PICK U : U = coll[j].offered[r]
    OBVIOUS
  <2>2. Merged(r) \in Nat /\ Merged(r) <= Len(coll) /\ Len(coll) \in Nat
    BY MergedIs DEF IInv, Shape
  <2>3. Sound(ring, U)
    BY <1>14, <2>1, <2>2 DEF IInv, AllSound
  <2>4. Older(U, T, r)
    BY <1>6, <1>14, <2>1 DEF PieceInv, InOrder
  <2>5. ASSUME NEW o \in Nat, NEW p \in Nat, LocationOf(U, o) # Hole, LocationOf(U, o)[1] = r,
               LocationOf(S, p) # Hole, LocationOf(S, p)[1] = r
        PROVE  LocationOf(U, o)[2] < LocationOf(S, p)[2]
    <3>1. LocationOf(U, o)[2] \in Nat /\ LocationOf(U, o)[2] < lsn
      BY <1>3, <2>3, <2>5 DEF Sound, Holds
    <3>2. CASE LocationOf(S, p) = LocationOf(T, p)
      BY <2>4, <2>5, <3>2 DEF Older
    <3>3. CASE LocationOf(S, p) # LocationOf(T, p)
      <4>1. LocationOf(S, p)[2] \in Int /\ LocationOf(S, p)[2] >= lsn
        BY <1>12, <2>5, <3>3
      <4> QED
        BY <3>1, <4>1
    <3> QED
      BY <3>2, <3>3
  <2> QED
    BY <2>1, <2>5 DEF Older
<1>15. InOrder'
  <2>1. ASSUME NEW q \in Ranks, NEW j \in 1 .. Merged(q), q \in DOMAIN coll[j].offered
        PROVE  Older(coll[j].offered[q], local'[q], q)
    <3>1. CASE q = r
      BY <1>10, <1>14, <2>1, <3>1
    <3>2. CASE q # r
      BY <1>10, <2>1, <3>2 DEF PieceInv, InOrder
    <3> QED
      BY <3>1, <3>2
  <2> QED
    BY <1>9, <1>11, <2>1 DEF PieceInv, InOrder
<1>16. InFlight'
  BY <1>9, <1>10, <1>11 DEF PieceInv, InFlight
<1>17. ASSUME onepiece' PROVE Pieces'
  <2>1. onepiece /\ Cardinality(S) = 1
    BY <1>9, <1>17
  <2>2. IsFiniteSet(S)
    <3>1. Sound(ring', S)
      BY <1>6, <1>10, PwriteStep DEF IInv, AllSound
    <3> QED
      BY <1>2, <3>1, SoundFinite
  <2>3. OneNode(S)
    BY <2>1, <2>2, FS_Singleton DEF OneNode
  <2> QED
    BY <1>9, <1>10, <2>1, <2>3 DEF PieceInv, Pieces
<1> QED
  BY <1>13, <1>15, <1>16, <1>17 DEF PieceInv

\* Entering a synchronisation: call k is the last one and was not settled, and
\* the trees that others have offered in it stay.
LEMMA EnterIs ==
    ASSUME ~ Alone, IInv, NEW r \in Ranks, SyncOffers(r)
    PROVE  \E k \in Nat :
             /\ k = Mine(r) /\ k = done[r] + 1 /\ Merged(r) = k - 1
             /\ Len(coll') = k /\ Len(coll) \in {k - 1, k}
             /\ k = Len(coll) => ~ Settled(coll[k])
             /\ \A j \in 1 .. k - 1 : j \in 1 .. Len(coll) /\ coll'[j] = coll[j]
             /\ coll'[k].op = "sync" /\ r \in DOMAIN coll'[k].offered
             /\ coll'[k].offered[r] = local[r]
             /\ \A q \in DOMAIN coll'[k].offered : q # r =>
                   /\ k = Len(coll) /\ q \in DOMAIN coll[k].offered
                   /\ coll'[k].offered[q] = coll[k].offered[q]
             /\ k = Len(coll) => DOMAIN coll'[k].offered = DOMAIN coll[k].offered \cup {r}
<1>1. PICK T : T = local[r]
  OBVIOUS
<1>2. PICK k \in Nat : k = Mine(r)
  BY DEF IInv, Shape, Mine
<1>3. coll \in Seq(Calls) /\ Len(coll) \in Nat /\ k = done[r] + 1 /\ done[r] \in Nat
      /\ done[r] <= Len(coll) /\ T \in Trees /\ pc[r] = "idle"
  BY <1>1, <1>2 DEF IInv, Shape, InCalls, Mine, SyncOffers
<1>4. Merged(r) = k - 1
  BY <1>3 DEF Merged
<1>5. CASE k <= Len(coll)
  <2>1. k \in 1 .. Len(coll)
    BY <1>3, <1>5
  <2>2. coll[k].op = "sync" /\ coll' = [coll EXCEPT ![k].offered = WithOffer(@, r, T)]
    BY <1>1, <1>2, <1>5 DEF SyncOffers
  <2>3. Offered(coll', coll, k, r, T)
    BY <1>3, <2>1, <2>2, OfferedIs
  <2>4. ~ Settled(coll[k])
    <3>1. r \in DOMAIN coll[k].offered => k <= done[r] \/ pc[r] # "idle"
      BY <2>1 DEF IInv, InCalls
    <3>2. r \notin DOMAIN coll[k].offered
      BY <1>3, <3>1
    <3> QED
      BY <2>2, <3>2 DEF Settled
  <2>5. k = Len(coll)
    BY <1>3, <2>1, <2>4 DEF IInv, InCalls
  <2>6. \A j \in 1 .. k - 1 : j \in 1 .. Len(coll) /\ coll'[j] = coll[j]
    BY <1>3, <2>1, <2>2
  <2>7. Len(coll') = Len(coll) /\ coll'[k].op = "sync"
        /\ coll'[k].offered = WithOffer(coll[k].offered, r, T)
    BY <2>1, <2>2, <2>3 DEF Offered
  <2>8. coll[k].offered \in Offers
    <3>1. coll[k] \in Calls
      BY <1>3, <2>1
    <3> QED
      BY <3>1 DEF Calls
  <2>9. /\ DOMAIN coll'[k].offered = DOMAIN coll[k].offered \cup {r}
        /\ coll'[k].offered[r] = T
        /\ \A q \in DOMAIN coll[k].offered : q # r => coll'[k].offered[q] = coll[k].offered[q]
    <3>1. PICK f \in Offers : f = coll[k].offered
      BY <2>8
    <3>2. /\ DOMAIN WithOffer(f, r, T) = DOMAIN f \cup {r}
          /\ WithOffer(f, r, T)[r] = T
          /\ \A q \in DOMAIN f : q # r => WithOffer(f, r, T)[q] = f[q]
      BY <1>3, OneMoreOffer
    <3> QED
      BY <2>7, <3>1, <3>2
  <2>10. \A q \in DOMAIN coll'[k].offered : q # r =>
              /\ k = Len(coll) /\ q \in DOMAIN coll[k].offered
              /\ coll'[k].offered[q] = coll[k].offered[q]
    BY <2>5, <2>9
  <2>11. Len(coll) \in {k - 1, k} /\ Len(coll') = k
    BY <2>5, <2>7
  <2> QED
    BY <1>1, <1>2, <1>3, <1>4, <2>4, <2>6, <2>7, <2>9, <2>10, <2>11
<1>6. CASE ~ k <= Len(coll)
  <2>1. PICK c : c = [Call("sync", 0) EXCEPT !.offered = WithOffer(@, r, T)]
    OBVIOUS
  <2>2. coll' = Append(coll, c) /\ k = Len(coll) + 1
    BY <1>1, <1>2, <1>3, <1>6, <2>1 DEF SyncOffers
  <2>3. PICK f : f = WithOffer(NoRank, r, T)
    OBVIOUS
  <2>4. c = [op |-> "sync", size |-> 0, offered |-> f, root |-> Pending]
    BY <2>1, <2>3 DEF Call
  <2>5. DOMAIN f = {r} /\ f[r] = T
    <3>1. f = [q \in {r} |-> T]
      BY <2>3 DEF WithOffer, NoRank
    <3> QED
      BY <3>1
  <2>6. c.op = "sync" /\ c.offered = f
    BY <2>4
  <2>7. Len(coll') = k /\ coll'[k] = c /\ \A j \in 1 .. Len(coll) : coll'[j] = coll[j]
    BY <1>3, <2>2
  <2>8. \A j \in 1 .. k - 1 : j \in 1 .. Len(coll) /\ coll'[j] = coll[j]
    BY <1>3, <2>2, <2>7
  <2>9. k # Len(coll) /\ Len(coll) \in {k - 1, k}
    BY <1>3, <2>2
  <2>10. \A q \in DOMAIN coll'[k].offered : q = r
    BY <2>5, <2>6, <2>7
  <2> QED
    BY <1>1, <1>2, <1>3, <1>4, <2>5, <2>6, <2>7, <2>8, <2>9, <2>10
<1> QED
  BY <1>5, <1>6

LEMMA SyncEnterPieces ==
    ASSUME ~ Alone, IInv, PieceInv, NEW r \in Ranks, SyncOffers(r)
    PROVE  PieceInv'
<1>1. PICK k \in Nat :
             /\ k = Mine(r) /\ k = done[r] + 1 /\ Merged(r) = k - 1
             /\ Len(coll') = k /\ Len(coll) \in {k - 1, k}
             /\ k = Len(coll) => ~ Settled(coll[k])
             /\ \A j \in 1 .. k - 1 : j \in 1 .. Len(coll) /\ coll'[j] = coll[j]
             /\ coll'[k].op = "sync" /\ r \in DOMAIN coll'[k].offered
             /\ coll'[k].offered[r] = local[r]
             /\ \A q \in DOMAIN coll'[k].offered : q # r =>
                   /\ k = Len(coll) /\ q \in DOMAIN coll[k].offered
                   /\ coll'[k].offered[q] = coll[k].offered[q]
             /\ k = Len(coll) => DOMAIN coll'[k].offered = DOMAIN coll[k].offered \cup {r}
  BY EnterIs
<1>2. /\ local' = local /\ done' = done /\ pc[r] = "idle" /\ pc' = [pc EXCEPT ![r] = "gather"]
      /\ onepiece' = onepiece
  BY DEF SyncOffers
<1>3. pc'[r] = "gather" /\ \A q \in Ranks : q # r => pc'[q] = pc[q]
  BY <1>2 DEF IInv, Shape
<1>4. \A q \in Ranks : Merged(q)' = Merged(q) /\ Mine(q)' = Mine(q)
  BY <1>2, <1>3 DEF Merged, Mine
<1>5. \A j \in 1 .. k : j = k \/ j \in 1 .. k - 1
  OBVIOUS
<1>6. k \in 1 .. k
  BY <1>1 DEF IInv, Shape
<1>7. ASSUME NEW q \in DOMAIN coll'[k].offered
      PROVE  q = r \/ (/\ k = Len(coll) /\ k \in 1 .. Len(coll) /\ q \in DOMAIN coll[k].offered
                       /\ coll'[k].offered[q] = coll[k].offered[q])
  BY <1>1, <1>6
<1>8. OwnTrees'
  <2>1. ASSUME NEW j \in 1 .. k, NEW q \in DOMAIN coll'[j].offered
        PROVE  OwnBytes(coll'[j].offered[q], q)
    <3>1. CASE j = k /\ q = r
      BY <1>1, <3>1 DEF PieceInv, OwnTrees
    <3>2. CASE j = k /\ q # r
      BY <1>7, <2>1, <3>2 DEF PieceInv, OwnTrees
    <3>3. CASE j # k
      BY <1>1, <1>5, <2>1, <3>3 DEF PieceInv, OwnTrees
    <3> QED
      BY <3>1, <3>2, <3>3
  <2> QED
    BY <1>1, <1>2, <2>1 DEF PieceInv, OwnTrees
<1>9. InOrder'
  <2>1. ASSUME NEW i \in 1 .. k, NEW j \in 1 .. i - 1,
               NEW q \in DOMAIN coll'[j].offered \cap DOMAIN coll'[i].offered
        PROVE  Older(coll'[j].offered[q], coll'[i].offered[q], q)
    <3>1. j \in 1 .. k - 1 /\ j \in 1 .. Len(coll) /\ coll'[j] = coll[j]
      <4>1. j \in 1 .. k - 1
        OBVIOUS
      <4> QED
        BY <1>1, <4>1
    <3>2. CASE i = k /\ q = r
      <4>1. Older(coll[j].offered[r], local[r], r)
        BY <1>1, <2>1, <3>1, <3>2 DEF PieceInv, InOrder
      <4> QED
        BY <1>1, <3>1, <3>2, <4>1
    <3>3. CASE i = k /\ q # r
      <4>1. /\ k \in 1 .. Len(coll) /\ q \in DOMAIN coll[k].offered
            /\ coll'[k].offered[q] = coll[k].offered[q]
        BY <1>7, <2>1, <3>3
      <4>2. Older(coll[j].offered[q], coll[k].offered[q], q)
        BY <2>1, <3>1, <4>1 DEF PieceInv, InOrder
      <4> QED
        BY <3>1, <3>3, <4>1, <4>2
    <3>4. CASE i # k
      <4>1. i \in 1 .. Len(coll) /\ coll'[i] = coll[i]
        BY <1>1, <1>5, <3>4
      <4> QED
        BY <2>1, <3>1, <4>1 DEF PieceInv, InOrder
    <3> QED
      BY <3>2, <3>3, <3>4
  <2>2. ASSUME NEW q \in Ranks, NEW j \in 1 .. Merged(q), q \in DOMAIN coll'[j].offered
        PROVE  Older(coll'[j].offered[q], local[q], q)
    <3>1. Merged(q) \in Nat /\ Merged(q) <= Len(coll) /\ (Merged(q) # 0 => Settled(coll[Merged(q)]))
      BY MergedIs
    <3>2. Merged(q) <= k - 1
      BY <1>1, <3>1
    <3>3. j \in 1 .. k - 1
      BY <3>1, <3>2
    <3>4. coll'[j] = coll[j]
      BY <1>1, <3>3
    <3> QED
      BY <2>2, <3>4 DEF PieceInv, InOrder
  <2> QED
    BY <1>1, <1>2, <1>4, <2>1, <2>2 DEF InOrder
<1>10. InFlight'
  <2>1. ASSUME NEW q \in Ranks, pc'[q] = "gather"
        PROVE  q \in DOMAIN coll'[Mine(q)].offered /\ coll'[Mine(q)].offered[q] = local[q]
    <3>1. CASE q = r
      BY <1>1, <3>1
    <3>2. CASE q # r
      <4>1. pc[q] = "gather"
        BY <1>3, <2>1, <3>2
      <4>2. q \in DOMAIN coll[Mine(q)].offered /\ coll[Mine(q)].offered[q] = local[q]
        BY <4>1 DEF PieceInv, InFlight
      <4>3. Mine(q) <= Len(coll) /\ Mine(q) \in Nat /\ Mine(q) # 0 /\ Len(coll) \in Nat
        BY <4>1 DEF IInv, InCalls, Shape, Mine
      <4>4. CASE Mine(q) = k
        <5>1. k = Len(coll)
          BY <1>1, <4>3, <4>4
        <5>2. q \in DOMAIN coll'[k].offered
          BY <1>1, <4>2, <4>4, <5>1
        <5> QED
          BY <1>1, <3>2, <4>2, <4>4, <5>2
      <4>5. CASE Mine(q) # k
        <5>1. Mine(q) \in 1 .. k - 1
          BY <1>1, <4>3, <4>5
        <5> QED
          BY <1>1, <4>2, <5>1
      <4> QED
        BY <4>4, <4>5
    <3> QED
      BY <3>1, <3>2
  <2> QED
    BY <1>2, <1>4, <2>1 DEF InFlight
<1>11. ASSUME onepiece' PROVE Pieces'
  <2>1. Pieces
    BY <1>2, <1>11 DEF PieceInv
  <2>2. ASSUME NEW j \in 1 .. k, NEW q \in DOMAIN coll'[j].offered
        PROVE  OneNode(coll'[j].offered[q])
    <3>1. CASE j = k /\ q = r
      BY <1>1, <2>1, <3>1 DEF Pieces
    <3>2. CASE j = k /\ q # r
      BY <1>7, <2>1, <2>2, <3>2 DEF Pieces
    <3>3. CASE j # k
      BY <1>1, <1>5, <2>1, <2>2, <3>3 DEF Pieces
    <3> QED
      BY <3>1, <3>2, <3>3
  <2> QED
    BY <1>1, <1>2, <2>1, <2>2 DEF Pieces
<1> QED
  BY <1>8, <1>9, <1>10, <1>11 DEF PieceInv

LEMMA SyncMergePieces ==
    ASSUME IInv, PieceInv, NEW r \in Ranks, SyncMerge(r)
    PROVE  PieceInv'
<1>1. /\ local' = [local EXCEPT ![r] = {}] /\ pc' = [pc EXCEPT ![r] = "size"]
      /\ coll' = coll /\ done' = done /\ onepiece' = onepiece
  BY DEF SyncMerge
<1>2. /\ pc'[r] = "size" /\ local'[r] = {}
      /\ \A q \in Ranks : q # r => pc'[q] = pc[q] /\ local'[q] = local[q]
  BY <1>1 DEF IInv, Shape
<1>3. \A q \in Ranks : Mine(q)' = Mine(q) /\ (q # r => Merged(q)' = Merged(q))
  BY <1>1, <1>2 DEF Merged, Mine
<1>4. OwnBytes({}, r) /\ OneNode({}) /\ \A U : Older(U, {}, r)
  BY NothingFound DEF OwnBytes, OneNode, Older
<1>5. OwnTrees'
  BY <1>1, <1>2, <1>4 DEF PieceInv, OwnTrees
<1>6. InOrder'
  <2>1. ASSUME NEW q \in Ranks, NEW j \in 1 .. Merged(q)', q \in DOMAIN coll[j].offered
        PROVE  Older(coll[j].offered[q], local'[q], q)
    BY <1>2, <1>3, <1>4, <2>1 DEF PieceInv, InOrder
  <2> QED
    BY <1>1, <2>1 DEF PieceInv, InOrder
<1>7. InFlight'
  BY <1>1, <1>2, <1>3 DEF PieceInv, InFlight
<1>8. onepiece' => Pieces'
  BY <1>1, <1>2, <1>4 DEF PieceInv, Pieces
<1> QED
  BY <1>5, <1>6, <1>7, <1>8 DEF PieceInv

\* A rank leaves a call, having cut its local tree or not; a call that is new
\* offers nothing.
LEMMA LeavePieces ==
    ASSUME IInv, PieceInv, NEW r \in Ranks, NEW a \in Nat \cup {Failed}, Leave(r, a),
           pc[r] # "gather", onepiece' = onepiece,
           Len(coll') \in Nat, Len(coll) <= Len(coll'),
           \A j \in 1 .. Len(coll) : coll'[j].offered = coll[j].offered,
           \A j \in 1 .. Len(coll') : j > Len(coll) => coll'[j].offered = NoRank,
           done[r] + 1 <= Len(coll'),
           NEW L, local'[r] = L, \A q \in Ranks : q # r => local'[q] = local[q],
           \A o \in Nat : LocationOf(L, o) \in {Hole, LocationOf(local[r], o)},
           OneNode(local[r]) => OneNode(L)
    PROVE  PieceInv'
<1>1. /\ pc'[r] = "idle" /\ done'[r] = done[r] + 1
      /\ \A q \in Ranks : q # r => pc'[q] = pc[q] /\ done'[q] = done[q]
  BY LeaveIs DEF IInv
<1>2. Len(coll) \in Nat /\ done[r] \in Nat
  BY DEF IInv, Shape
<1>3. Merged(r)' = done[r] + 1 /\ \A q \in Ranks : q # r => Merged(q)' = Merged(q) /\ Mine(q)' = Mine(q)
  BY <1>1, <1>2 DEF Merged, Mine
<1>4. ASSUME NEW j \in 1 .. Len(coll'), NEW q \in DOMAIN coll'[j].offered
      PROVE  j \in 1 .. Len(coll) /\ q \in DOMAIN coll[j].offered /\ coll'[j].offered = coll[j].offered
             /\ q \in Ranks
  <2>1. j \in 1 .. Len(coll)
    <3>1. j > Len(coll) => coll'[j].offered = NoRank
      OBVIOUS
    <3>2. DOMAIN NoRank = {}
      BY DEF NoRank
    <3>3. ~ j > Len(coll)
      BY <1>4, <3>1, <3>2
    <3> QED
      BY <1>2, <3>3
  <2> QED
    BY <1>4, <2>1, OffersOfRanks DEF IInv
<1>5. OwnTrees'
  <2>1. OwnBytes(L, r)
    BY DEF PieceInv, OwnTrees, OwnBytes
  <2> QED
    BY <1>4, <2>1 DEF PieceInv, OwnTrees
<1>6. InOrder'
  <2>1. ASSUME NEW i \in 1 .. Len(coll'), NEW j \in 1 .. i - 1,
               NEW q \in DOMAIN coll'[j].offered \cap DOMAIN coll'[i].offered
        PROVE  Older(coll'[j].offered[q], coll'[i].offered[q], q)
    <3>1. i \in 1 .. Len(coll) /\ q \in DOMAIN coll[i].offered /\ coll'[i].offered = coll[i].offered
      BY <1>4
    <3>2. j \in 1 .. Len(coll')
      OBVIOUS
    <3>3. j \in 1 .. Len(coll) /\ q \in DOMAIN coll[j].offered /\ coll'[j].offered = coll[j].offered
      BY <1>4, <3>2
    <3> QED
      BY <3>1, <3>3 DEF PieceInv, InOrder
  <2>2. ASSUME NEW q \in Ranks, NEW j \in 1 .. Merged(q)', q \in DOMAIN coll'[j].offered
        PROVE  Older(coll'[j].offered[q], local'[q], q)
    <3>1. CASE q = r
      <4>1. j \in 1 .. Len(coll')
        BY <1>2, <1>3, <3>1
      <4>2. j \in 1 .. Len(coll) /\ r \in DOMAIN coll[j].offered /\ coll'[j].offered = coll[j].offered
        BY <1>4, <2>2, <3>1, <4>1
      <4>3. j \in 1 .. Merged(r)
        <5>1. CASE pc[r] = "size"
          BY <1>3, <3>1, <5>1 DEF Merged
        <5>2. CASE pc[r] # "size"
          <6>1. pc[r] = "idle"
            BY <5>2 DEF IInv, Shape
          <6>2. j <= done[r]
            BY <4>2, <6>1 DEF IInv, InCalls
          <6> QED
            BY <1>2, <5>2, <6>2 DEF Merged
        <5> QED
          BY <5>1, <5>2
      <4>4. PICK U : U = coll[j].offered[r]
        OBVIOUS
      <4>5. Older(U, local[r], r)
        BY <4>2, <4>3, <4>4 DEF PieceInv, InOrder
      <4>6. Older(U, L, r)
        BY <4>5 DEF Older
      <4> QED
        BY <3>1, <4>2, <4>4, <4>6
    <3>2. CASE q # r
      <4>1. j \in 1 .. Merged(q) /\ Merged(q) \in Nat /\ Merged(q) <= Len(coll)
        BY <1>3, <3>2, MergedIs
      <4>2. j \in 1 .. Len(coll)
        BY <1>2, <4>1
      <4> QED
        BY <2>2, <3>2, <4>1, <4>2 DEF PieceInv, InOrder
    <3> QED
      BY <3>1, <3>2
  <2> QED
    BY <2>1, <2>2 DEF InOrder
<1>7. InFlight'
  <2>1. ASSUME NEW q \in Ranks, pc'[q] = "gather"
        PROVE  q \in DOMAIN coll'[Mine(q)'].offered /\ coll'[Mine(q)'].offered[q] = local'[q]
    <3>1. q # r /\ pc[q] = "gather" /\ Mine(q)' = Mine(q) /\ local'[q] = local[q]
      BY <1>1, <1>3, <2>1
    <3>2. q \in DOMAIN coll[Mine(q)].offered /\ coll[Mine(q)].offered[q] = local[q]
      BY <3>1 DEF PieceInv, InFlight
    <3>3. Mine(q) \in 1 .. Len(coll)
      BY <1>2, <3>1 DEF IInv, InCalls, Shape, Mine
    <3> QED
      BY <3>1, <3>2, <3>3
  <2> QED
    BY <2>1 DEF InFlight
<1>8. ASSUME onepiece' PROVE Pieces'
  BY <1>4, <1>8 DEF PieceInv, Pieces
<1> QED
  BY <1>5, <1>6, <1>7, <1>8 DEF PieceInv

LEMMA SyncSizePieces ==
    ASSUME IInv, PieceInv, NEW r \in Ranks, SyncSize(r)
    PROVE  PieceInv'
<1>1. pc[r] = "size" /\ Leave(r, coll[Mine(r)].root) /\ coll[Mine(r)].root # Pending
      /\ local' = local /\ coll' = coll /\ onepiece' = onepiece
  BY DEF SyncSize
<1>2. done[r] \in Nat /\ Len(coll) \in Nat /\ Mine(r) = done[r] + 1 /\ Mine(r) <= Len(coll)
  BY <1>1 DEF IInv, Shape, InCalls, Mine
<1>3. PICK a \in Nat \cup {Failed} : a = coll[Mine(r)].root
  <2>1. Mine(r) \in 1 .. Len(coll)
    BY <1>2
  <2> QED
    BY <1>1, <2>1, OffersOfRanks DEF IInv
<1>4. PICK L : L = local[r]
  OBVIOUS
<1>5. Leave(r, a)
  BY <1>1, <1>3
<1> QED
  BY <1>1, <1>2, <1>4, <1>5, LeavePieces

LEMMA SyncSizeRootPieces ==
    ASSUME IInv, PieceInv, SyncSizeRoot
    PROVE  PieceInv'
<1>1. PICK a \in {file.size, Failed} :
         coll' = [coll EXCEPT ![Mine(Root)].root = a] /\ Leave(Root, a)
  BY DEF SyncSizeRoot
<1>2. pc[Root] = "size" /\ local' = local /\ onepiece' = onepiece /\ Root \in Ranks
      /\ a \in Nat \cup {Failed} /\ coll \in Seq(Calls)
  BY RanksAre DEF SyncSizeRoot, IInv, Shape
<1>3. done[Root] \in Nat /\ Len(coll) \in Nat /\ Mine(Root) = done[Root] + 1
      /\ Mine(Root) <= Len(coll)
  BY <1>2 DEF IInv, Shape, InCalls, Mine
<1>4. Mine(Root) \in 1 .. Len(coll)
  BY <1>3
<1>5. Answered(coll', coll, Mine(Root), a)
  BY <1>1, <1>2, <1>4, AnsweredIs
<1>6. Len(coll') = Len(coll) /\ \A j \in 1 .. Len(coll) : coll'[j].offered = coll[j].offered
  BY <1>5 DEF Answered
<1>7. PICK L : L = local[Root]
  OBVIOUS
<1>8. \A j \in 1 .. Len(coll') : j > Len(coll) => coll'[j].offered = NoRank
  BY <1>3, <1>6
<1> QED
  BY <1>1, <1>2, <1>3, <1>6, <1>7, <1>8, LeavePieces

\* What a rank has left of its local tree.
LEMMA TrimmedPiece ==
    ASSUME IInv, NEW r \in Ranks, NEW size \in Nat
    PROVE  /\ \A o \in Nat : LocationOf(Trim(local[r], size), o) \in {Hole, LocationOf(local[r], o)}
           /\ OneNode(local[r]) => OneNode(Trim(local[r], size))
<1>1. Sound(ring, local[r]) /\ MaxOffset \in Nat
  BY BurstBufferAssumption DEF IInv, AllSound
<1> QED
  BY <1>1, TrimIs, OneNodeTrimmed

\* The root makes a call that it decides and leaves at once.
LEMMA RootPieces ==
    ASSUME IInv, PieceInv, pc[Root] = "idle", Mine(Root) > Len(coll),
           NEW c \in Calls, c.offered = NoRank, coll' = Append(coll, c),
           NEW a \in Nat \cup {Failed}, Leave(Root, a), onepiece' = onepiece,
           NEW L, local'[Root] = L, \A q \in Ranks : q # Root => local'[q] = local[q],
           \A o \in Nat : LocationOf(L, o) \in {Hole, LocationOf(local[Root], o)},
           OneNode(local[Root]) => OneNode(L)
    PROVE  PieceInv'
<1>1. coll \in Seq(Calls) /\ Len(coll) \in Nat /\ Root \in Ranks
  BY RanksAre DEF IInv, Shape
<1>2. Len(coll') = Len(coll) + 1 /\ coll'[Len(coll) + 1] = c
      /\ \A j \in 1 .. Len(coll) : coll'[j] = coll[j]
  BY <1>1, AppendedIs DEF Appended
<1>3. \A j \in 1 .. Len(coll') : j > Len(coll) => coll'[j].offered = NoRank
  <2>1. \A j \in 1 .. Len(coll') : j > Len(coll) => j = Len(coll) + 1
    BY <1>1, <1>2
  <2> QED
    BY <1>2, <2>1
<1>4. done[Root] \in Nat /\ done[Root] + 1 <= Len(coll')
  BY <1>1, <1>2 DEF IInv, Shape, InCalls
<1>5. Len(coll') \in Nat /\ Len(coll) <= Len(coll')
  BY <1>1, <1>2
<1>6. pc[Root] # "gather"
  OBVIOUS
<1>7. \A j \in 1 .. Len(coll) : coll'[j].offered = coll[j].offered
  BY <1>2
<1> QED
  BY <1>1, <1>3, <1>4, <1>5, <1>6, <1>7, LeavePieces

LEMMA TruncateRootPieces ==
    ASSUME IInv, PieceInv, NEW size \in TruncSizes, TruncateRoot(size)
    PROVE  PieceInv'
<1>1. size \in Nat
  BY BurstBufferAssumption
<1>2. PICK c : c = Truncation(size, size)
  OBVIOUS
<1>3. c \in Calls /\ c.offered = NoRank
  BY <1>1, <1>2, TruncationIs
<1>4. PICK L : L = Trim(local[Root], size)
  OBVIOUS
<1>5. /\ pc[Root] = "idle" /\ Mine(Root) > Len(coll) /\ coll' = Append(coll, c)
      /\ Leave(Root, size) /\ onepiece' = onepiece
      /\ local' = [local EXCEPT ![Root] = L]
  BY <1>2, <1>4 DEF TruncateRoot, TrimTrees, Truncation
<1>6. local'[Root] = L /\ \A q \in Ranks : q # Root => local'[q] = local[q]
  BY <1>5, RanksAre DEF IInv, Shape
<1>7. /\ \A o \in Nat : LocationOf(L, o) \in {Hole, LocationOf(local[Root], o)}
      /\ OneNode(local[Root]) => OneNode(L)
  BY <1>1, <1>4, RanksAre, TrimmedPiece
<1> QED
  BY <1>1, <1>3, <1>5, <1>6, <1>7, RootPieces

LEMMA TruncateRootFailsPieces ==
    ASSUME IInv, PieceInv, NEW size \in TruncSizes, TruncateRootFails(size)
    PROVE  PieceInv'
<1>1. size \in Nat
  BY BurstBufferAssumption
<1>2. PICK a \in Nat \cup {Failed} : a = Failed
  OBVIOUS
<1>3. PICK c : c = Truncation(size, a)
  OBVIOUS
<1>4. c \in Calls /\ c.offered = NoRank
  BY <1>1, <1>3, TruncationIs
<1>5. PICK L : L = local[Root]
  OBVIOUS
<1>6. /\ pc[Root] = "idle" /\ Mine(Root) > Len(coll) /\ coll' = Append(coll, c)
      /\ Leave(Root, a) /\ onepiece' = onepiece
      /\ local' = local
  BY <1>2, <1>3 DEF TruncateRootFails, Truncation
<1> QED
  BY <1>4, <1>5, <1>6, RootPieces

LEMMA TruncatePieces ==
    ASSUME IInv, PieceInv, NEW r \in Ranks, Truncate(r)
    PROVE  PieceInv'
<1>1. PICK k \in 1 .. Len(coll) : k = Mine(r) /\ k = done[r] + 1
  BY DEF Truncate, IInv, Shape, Mine
<1>2. PICK c : c = coll[k]
  OBVIOUS
<1>3. c.size \in Nat /\ pc[r] = "idle" /\ coll' = coll /\ onepiece' = onepiece
      /\ Len(coll) \in Nat
  BY <1>1, <1>2, OffersOfRanks DEF Truncate, IInv, Shape
<1>4. CASE c.root = Failed
  <2>1. PICK a \in Nat \cup {Failed} : a = Failed
    OBVIOUS
  <2>2. Leave(r, a) /\ local' = local
    BY <1>1, <1>2, <1>4, <2>1 DEF Truncate
  <2>3. PICK L : L = local[r]
    OBVIOUS
  <2> QED
    BY <1>1, <1>3, <2>2, <2>3, LeavePieces
<1>5. CASE c.root # Failed
  <2>1. TrimTrees(r, c.size) /\ Leave(r, c.size)
    BY <1>1, <1>2, <1>5 DEF Truncate, TrimTrees
  <2>2. PICK L : L = Trim(local[r], c.size)
    OBVIOUS
  <2>3. local' = [local EXCEPT ![r] = L]
    BY <2>1, <2>2 DEF TrimTrees
  <2>4. local'[r] = L /\ \A q \in Ranks : q # r => local'[q] = local[q]
    BY <2>3 DEF IInv, Shape
  <2>5. /\ \A o \in Nat : LocationOf(L, o) \in {Hole, LocationOf(local[r], o)}
        /\ OneNode(local[r]) => OneNode(L)
    BY <1>3, <2>2, TrimmedPiece
  <2> QED
    BY <1>1, <1>3, <2>1, <2>4, <2>5, LeavePieces
<1> QED
  BY <1>4, <1>5

LEMMA PieceStep ==
    ASSUME ~ Alone, IInv, PieceInv, [Next]_vars
    PROVE  PieceInv'
<1>1. ASSUME NEW r \in Ranks, NEW w \in Writes, Pwrite(r, w[1], w[2]) PROVE PieceInv'
  BY <1>1, PwritePieces
<1>2. ASSUME NEW r \in Ranks, SyncEnter(r) PROVE PieceInv'
  BY <1>2, SyncEnterPieces DEF SyncEnter
<1>3. ASSUME NEW r \in Ranks, SyncMerge(r) PROVE PieceInv'
  BY <1>3, SyncMergePieces
<1>4. ASSUME NEW r \in Ranks, SyncSize(r) PROVE PieceInv'
  BY <1>4, SyncSizePieces
<1>5. ASSUME NEW r \in Ranks, Truncate(r) PROVE PieceInv'
  BY <1>5, TruncatePieces
<1>6. CASE SyncSizeRoot
  BY <1>6, SyncSizeRootPieces
<1>7. ASSUME NEW size \in TruncSizes, TruncateRoot(size) PROVE PieceInv'
  BY <1>7, TruncateRootPieces
<1>8. ASSUME NEW size \in TruncSizes, TruncateRootFails(size) PROVE PieceInv'
  BY <1>8, TruncateRootFailsPieces
<1>9. CASE UNCHANGED vars
  BY <1>9 DEF vars, PieceInv, OwnTrees, InOrder, InFlight, Pieces, Mine, Merged
<1>10. CASE Finished
  BY <1>9, <1>10 DEF Finished
<1> QED
  BY <1>1, <1>2, <1>3, <1>4, <1>5, <1>6, <1>7, <1>8, <1>9, <1>10 DEF Next

EInv == HInv /\ PieceInv

\* A rank offers bytes of its own ring only, in the order it wrote them, and
\* single pieces as long as its writes were contiguous (bb.hpp:85-150).
THEOREM OffersInOrder == ~ Alone /\ Spec => []EInv
<1>2. PieceInv /\ HInv /\ [Next]_vars => PieceInv'
  BY PieceStep DEF HInv
<1>3. ~ Alone /\ Spec => []HInv
  BY OneTrail
<1>4. Init => PieceInv
  BY InitPieces
<1> QED
  BY <1>2, <1>3, <1>4, PTL DEF Spec, EInv

-----------------------------------------------------------------------------
(* The rounds that are decided, and the file of each.                      *)

\* The settled ones of the calls cs are the first n, which are all but the last
\* at least.
FirstSettled(cs, n) ==
    /\ n \in Nat /\ Len(cs) \in Nat /\ n <= Len(cs) /\ Len(cs) - 1 <= n
    /\ \A k \in 1 .. Len(cs) : Settled(cs[k]) <=> k <= n

LEMMA NumDecidedIs == IInv => FirstSettled(coll, NumDecided)
<1> SUFFICES ASSUME IInv PROVE FirstSettled(coll, NumDecided)
  OBVIOUS
<1>1. Len(coll) \in Nat /\ DOMAIN coll = 1 .. Len(coll)
  BY DEF IInv, Shape
<1>2. PICK S : S = {k \in DOMAIN coll : Decided(k)}
  OBVIOUS
<1>3. S = {k \in 1 .. Len(coll) : Settled(coll[k])}
  BY <1>1, <1>2 DEF Decided, Settled
<1>4. \A k \in 1 .. Len(coll) : k < Len(coll) => Settled(coll[k])
  BY DEF IInv, InCalls
<1>5. PICK n \in Nat : /\ n <= Len(coll) /\ Len(coll) - 1 <= n
                       /\ \A k \in 1 .. Len(coll) : Settled(coll[k]) <=> k <= n
  <2>1. PICK l \in Nat : l = Len(coll)
    BY <1>1
  <2>2. CASE l = 0 \/ Settled(coll[l])
    <3>1. ASSUME NEW k \in 1 .. l PROVE Settled(coll[k])
      BY <1>4, <2>1, <2>2
    <3>2. l <= l /\ l - 1 <= l /\ \A k \in 1 .. l : Settled(coll[k]) <=> k <= l
      BY <3>1
    <3> QED
      BY <2>1, <3>2
  <2>3. CASE l # 0 /\ ~ Settled(coll[l])
    <3>1. l - 1 \in Nat
      BY <2>3
    <3>2. ASSUME NEW k \in 1 .. l PROVE Settled(coll[k]) <=> k <= l - 1
      <4>1. CASE k = l
        BY <2>3, <4>1
      <4>2. CASE k # l
        <5>1. k < l /\ k <= l - 1
          BY <4>2
        <5> QED
          BY <1>4, <2>1, <5>1
      <4> QED
        BY <4>1, <4>2
    <3>3. l - 1 <= l /\ l - 1 <= l - 1
      OBVIOUS
    <3> QED
      BY <2>1, <3>1, <3>2, <3>3
  <2> QED
    BY <2>2, <2>3
<1>6. S = 1 .. n
  BY <1>1, <1>3, <1>5
<1>7. Cardinality(1 .. n) = n
  BY FS_Interval
<1>8. NumDecided = n
  BY <1>2, <1>6, <1>7 DEF NumDecided
<1> QED
  BY <1>1, <1>5, <1>8 DEF FirstSettled

\* What a tree finds in the rings stays when they grow.
LEMMA SameContent ==
    ASSUME NEW log, NEW log2, Grows(log2, log), NEW T, Sound(log, T), MaxOffset \in Nat
    PROVE  Content(log2, T) = Content(log, T)
<1>1. ASSUME NEW o \in Offsets, LocationOf(T, o) # Hole
      PROVE  log2[LocationOf(T, o)[1]][LocationOf(T, o)[2] + 1]
                = log[LocationOf(T, o)[1]][LocationOf(T, o)[2] + 1]
  <2>1. PICK loc : loc = LocationOf(T, o)
    OBVIOUS
  <2>2. Holds(log, loc, o)
    BY <1>1, <2>1 DEF Sound, Offsets
  <2>3. loc[1] \in Ranks /\ loc[2] + 1 \in 1 .. Len(log[loc[1]])
    BY <2>2 DEF Holds, Grows
  <2>4. log2[loc[1]][loc[2] + 1] = log[loc[1]][loc[2] + 1]
    BY <2>3 DEF Grows
  <2> QED
    BY <2>1, <2>4
<1> QED
  BY <1>1 DEF Content

\* Two chronicles of the same calls have the same trees and the same files.
LEMMA ChroniclesMeet ==
    ASSUME NEW ds, NEW log, NEW n, NEW h, Chronicle(ds, log, n, h),
           NEW cs, NEW log2, NEW m, NEW g, Chronicle(cs, log2, m, g),
           Grows(log2, log), n <= m, \A k \in 1 .. n : Alike(cs[k], ds[k]),
           MaxOffset \in Nat, NRanks \in Nat
    PROVE  \A k \in 0 .. n : g[k] = h[k] /\ Content(log2, g[k]) = Content(log, h[k])
<1>1. n \in Nat /\ m \in Nat
  BY DEF Chronicle
<1> DEFINE Bad == {k \in 0 .. n : g[k] # h[k]}
<1>2. Bad = {}
  <2> SUFFICES ASSUME Bad # {} PROVE FALSE
    OBVIOUS
  <2>1. PICK k \in Bad : \A j \in Bad : k <= j
    <3>1. Bad \in SUBSET Nat
      OBVIOUS
    <3> HIDE DEF Bad
    <3> QED
      BY <3>1, SmallestExists
  <2>2. k # 0
    BY <2>1 DEF Chronicle
  <2>3. k \in 1 .. n /\ k \in 1 .. m /\ k - 1 \in 0 .. n /\ k - 1 \notin Bad
    BY <1>1, <2>1, <2>2
  <2>4. h[k] = Effect(ds[k], h[k - 1]) /\ g[k] = Effect(cs[k], g[k - 1])
    BY <2>3 DEF Chronicle
  <2>5. Alike(cs[k], ds[k]) /\ g[k - 1] = h[k - 1]
    BY <2>3
  <2>6. Effect(ds[k], h[k - 1]) = Effect(cs[k], h[k - 1])
    BY <2>5 DEF Alike, Effect
  <2> QED
    BY <2>1, <2>4, <2>5, <2>6
<1>3. ASSUME NEW k \in 0 .. n
      PROVE  g[k] = h[k] /\ Content(log2, g[k]) = Content(log, h[k])
  <2>1. g[k] = h[k]
    BY <1>2
  <2>2. Sound(log, h[k])
    BY ChronicleSound
  <2> QED
    BY <2>1, <2>2, SameContent
<1> QED
  BY <1>3

\* The round of call c that leaves the file f, and the rounds of n calls.
RoundOf(c, f) ==
    [op |-> c.op, size |-> IF c.op = "sync" THEN 0 ELSE CutOf(c), file |-> f]

RoundsOf(cs, log, n, h) == [k \in 1 .. n |-> RoundOf(cs[k], Content(log, h[k]))]

IsList(s, n) == s = [k \in 1 .. n |-> s[k]]

LEMMA OneLonger ==
    ASSUME NEW n \in Nat, NEW s, NEW t, IsList(s, n), IsList(t, n + 1),
           \A k \in 1 .. n : t[k] = s[k]
    PROVE  t = Append(s, t[n + 1])
<1>1. PICK S : S = {t[k] : k \in 1 .. n + 1}
  OBVIOUS
<1>2. s \in [1 .. n -> S]
  <2>1. \A k \in 1 .. n : s[k] \in S
    <3>1. \A k \in 1 .. n : k \in 1 .. n + 1
      OBVIOUS
    <3> QED
      BY <1>1, <3>1
  <2> QED
    BY <2>1 DEF IsList
<1>3. s \in Seq(S) /\ Len(s) = n
  BY <1>2
<1>4. PICK x : x = t[n + 1]
  OBVIOUS
<1>5. x \in S
  BY <1>1, <1>4
<1>6. PICK u : u = Append(s, x)
  OBVIOUS
<1>7. u \in Seq(S) /\ Len(u) = n + 1 /\ u[n + 1] = x /\ \A k \in 1 .. n : u[k] = s[k]
  BY <1>3, <1>5, <1>6
<1>8. u = [k \in 1 .. n + 1 |-> u[k]]
  BY <1>7
<1>9. ASSUME NEW k \in 1 .. n + 1 PROVE u[k] = t[k]
  <2>1. CASE k = n + 1
    BY <1>4, <1>7, <2>1
  <2>2. CASE k # n + 1
    <3>1. k \in 1 .. n
      BY <2>2
    <3> QED
      BY <1>7, <3>1
  <2> QED
    BY <2>1, <2>2
<1>10. t = [k \in 1 .. n + 1 |-> t[k]]
  BY DEF IsList
<1> QED
  BY <1>4, <1>6, <1>8, <1>9, <1>10

\* More calls leave the rounds there were.
LEMMA RoundsGrow ==
    ASSUME NEW ds, NEW log, NEW n, NEW h, Chronicle(ds, log, n, h),
           NEW cs, NEW log2, NEW m, NEW g, Chronicle(cs, log2, m, g),
           Grows(log2, log), n <= m, \A k \in 1 .. n : Alike(cs[k], ds[k]),
           MaxOffset \in Nat, NRanks \in Nat
    PROVE  /\ m = n => RoundsOf(cs, log2, m, g) = RoundsOf(ds, log, n, h)
           /\ m = n + 1 => RoundsOf(cs, log2, m, g) =
                 Append(RoundsOf(ds, log, n, h), RoundOf(cs[m], Content(log2, g[m])))
<1>1. n \in Nat /\ m \in Nat
  BY DEF Chronicle
<1>2. PICK s, t : s = RoundsOf(ds, log, n, h) /\ t = RoundsOf(cs, log2, m, g)
  OBVIOUS
<1>3. s = [k \in 1 .. n |-> s[k]] /\ t = [k \in 1 .. m |-> t[k]]
  BY <1>2 DEF RoundsOf
<1>4. ASSUME NEW k \in 1 .. n PROVE t[k] = s[k]
  <2>1. k \in 1 .. m /\ k \in 0 .. n
    BY <1>1
  <2>2. s[k] = RoundOf(ds[k], Content(log, h[k])) /\ t[k] = RoundOf(cs[k], Content(log2, g[k]))
    BY <1>2, <2>1 DEF RoundsOf
  <2>3. Content(log2, g[k]) = Content(log, h[k])
    BY <2>1, ChroniclesMeet
  <2>4. Alike(cs[k], ds[k])
    OBVIOUS
  <2> QED
    BY <2>2, <2>3, <2>4 DEF Alike, RoundOf, CutOf
<1>5. CASE m = n
  BY <1>1, <1>2, <1>3, <1>4, <1>5
<1>6. CASE m = n + 1
  <2>1. t = Append(s, t[n + 1])
    <3>1. IsList(s, n) /\ IsList(t, n + 1)
      BY <1>3, <1>6 DEF IsList
    <3>2. \A k \in 1 .. n : t[k] = s[k]
      BY <1>4
    <3> QED
      BY <1>1, <3>1, <3>2, OneLonger
  <2>2. t[n + 1] = RoundOf(cs[m], Content(log2, g[m]))
    BY <1>1, <1>2, <1>6 DEF RoundsOf
  <2> QED
    BY <1>1, <1>2, <1>6, <2>1, <2>2
<1> QED
  BY <1>5, <1>6

\* The rounds and the global trees as a chronicle tells them.
View(h) ==
    /\ Chronicle(coll, ring, NumDecided, h)
    /\ FirstSettled(coll, NumDecided)
    /\ RoundsDecided = RoundsOf(coll, ring, NumDecided, h)
    /\ \A r \in Ranks : global[r] = h[Merged(r)]

LEMMA ViewIs == EInv /\ onepiece => \E h : View(h)
<1> SUFFICES ASSUME EInv, onepiece PROVE \E h : View(h)
  OBVIOUS
<1>1. ~ Alone /\ IInv /\ PieceInv /\ Pieces
  BY DEF EInv, HInv, PieceInv
<1>2. PICK h, d : Along(h, d)
  BY DEF EInv, HInv, Agreed
<1>3. PICK n : n = NumDecided
  OBVIOUS
<1>4. FirstSettled(coll, n)
  BY <1>1, <1>3, NumDecidedIs
<1>5. n \in Nat /\ \A k \in 1 .. n : k \in 1 .. Len(coll) /\ Settled(coll[k])
  BY <1>4 DEF FirstSettled
<1>6. ASSUME NEW k \in 1 .. n, coll[k].op = "sync" PROVE DOMAIN coll[k].offered = Ranks
  BY <1>1, <1>5, <1>6 DEF Settled
<1>7. Chronicle(coll, ring, n, h)
  <2>1. ring \in [Ranks -> Seq(Bytes)] /\ \A k \in 1 .. n : coll[k] \in Calls
    BY <1>1, <1>5 DEF IInv, Shape
  <2>2. h[0] = {} /\ \A k \in 1 .. n : h[k] = Effect(coll[k], h[k - 1])
    BY <1>2, <1>5 DEF Along, Trail
  <2>3. ASSUME NEW k \in 1 .. n, coll[k].op = "sync", NEW r \in Ranks
        PROVE  /\ Sound(ring, coll[k].offered[r]) /\ OwnBytes(coll[k].offered[r], r)
               /\ OneNode(coll[k].offered[r])
               /\ \A j \in 1 .. k - 1 : coll[j].op = "sync" =>
                     Older(coll[j].offered[r], coll[k].offered[r], r)
    <3>1. r \in DOMAIN coll[k].offered /\ k \in 1 .. Len(coll)
      BY <1>5, <1>6, <2>3
    <3>2. Sound(ring, coll[k].offered[r])
      BY <1>1, <3>1 DEF IInv, AllSound
    <3>3. OwnBytes(coll[k].offered[r], r)
      BY <1>1, <3>1 DEF PieceInv, OwnTrees
    <3>4. OneNode(coll[k].offered[r])
      BY <1>1, <3>1 DEF Pieces
    <3>5. ASSUME NEW j \in 1 .. k - 1, coll[j].op = "sync"
          PROVE  Older(coll[j].offered[r], coll[k].offered[r], r)
      <4>1. j \in 1 .. n
        BY <1>5
      <4>2. r \in DOMAIN coll[j].offered
        BY <1>6, <3>5, <4>1
      <4> QED
        BY <1>1, <3>1, <4>2 DEF PieceInv, InOrder
    <3> QED
      BY <3>2, <3>3, <3>4, <3>5
  <2> QED
    BY <1>5, <2>1, <2>2, <2>3 DEF Chronicle
<1>8. MaxOffset \in Nat /\ NRanks \in Nat
  BY BurstBufferAssumption
<1>9. PICK F : F = FileAfter
  OBVIOUS
<1>10. F = [k \in 0 .. n |-> Content(ring, h[k])]
  BY <1>3, <1>7, <1>8, <1>9, FileAfterIs, FilesAre
<1>11. RoundsDecided = [k \in 1 .. n |->
                          [op |-> coll[k].op,
                           size |-> IF coll[k].op = "sync" THEN 0 ELSE CutSize(k),
                           file |-> F[k]]]
  BY <1>3, <1>9 DEF RoundsDecided
<1>12. RoundsDecided = RoundsOf(coll, ring, n, h)
  <2>1. \A k \in 1 .. n : F[k] = Content(ring, h[k]) /\ CutSize(k) = CutOf(coll[k])
    <3>1. \A k \in 1 .. n : k \in 0 .. n
      BY <1>5
    <3> QED
      BY <1>10, <3>1 DEF CutSize, CutOf
  <2> QED
    BY <1>11, <2>1 DEF RoundsOf, RoundOf
<1>13. \A r \in Ranks : global[r] = h[Merged(r)]
  BY <1>2 DEF Along
<1> QED
  BY <1>3, <1>4, <1>7, <1>12, <1>13 DEF View

LEMMA ViewNext == EInv' /\ onepiece' => \E h : View(h)'
<1>1. (EInv /\ onepiece => \E h : View(h))'
  BY ViewIs, PTL
<1> QED
  BY <1>1

-----------------------------------------------------------------------------
(* Every step of the handlers is a step of EpochFile, or changes nothing it *)
(* tells of.                                                               *)

LEMMA ViewStep ==
    ASSUME EInv, EInv', onepiece, onepiece', Grows(ring', ring), NumDecided <= NumDecided',
           \A k \in 1 .. NumDecided : Alike(coll'[k], coll[k])
    PROVE  \E h, g :
             /\ View(h)
             /\ Chronicle(coll', ring', NumDecided', g)
             /\ \A r \in Ranks : global'[r] = g[Merged(r)']
             /\ \A k \in 0 .. NumDecided : g[k] = h[k] /\ Content(ring', g[k]) = Content(ring, h[k])
             /\ NumDecided' = NumDecided => RoundsDecided' = RoundsDecided
             /\ NumDecided' = NumDecided + 1 => RoundsDecided' =
                   Append(RoundsDecided, RoundOf(coll'[NumDecided'], Content(ring', g[NumDecided'])))
<1>1. PICK h : View(h)
  BY ViewIs
<1>2. PICK g : View(g)'
  BY ViewNext
<1>3. /\ Chronicle(coll', ring', NumDecided', g)
      /\ RoundsDecided' = RoundsOf(coll', ring', NumDecided', g)
      /\ \A r \in Ranks : global'[r] = g[Merged(r)']
  BY <1>2 DEF View
<1>4. /\ Chronicle(coll, ring, NumDecided, h)
      /\ RoundsDecided = RoundsOf(coll, ring, NumDecided, h)
  BY <1>1 DEF View
<1>5. MaxOffset \in Nat /\ NRanks \in Nat
  BY BurstBufferAssumption
<1>6. PICK ds, log, n, cs, log2, m : ds = coll /\ log = ring /\ n = NumDecided
                                  /\ cs = coll' /\ log2 = ring' /\ m = NumDecided'
  OBVIOUS
<1>7. /\ Chronicle(ds, log, n, h) /\ Chronicle(cs, log2, m, g) /\ Grows(log2, log) /\ n <= m
      /\ \A k \in 1 .. n : Alike(cs[k], ds[k])
  BY <1>3, <1>4, <1>6
<1>8. \A k \in 0 .. n : g[k] = h[k] /\ Content(log2, g[k]) = Content(log, h[k])
  BY <1>5, <1>7, ChroniclesMeet
<1>9. /\ m = n => RoundsOf(cs, log2, m, g) = RoundsOf(ds, log, n, h)
      /\ m = n + 1 => RoundsOf(cs, log2, m, g) =
            Append(RoundsOf(ds, log, n, h), RoundOf(cs[m], Content(log2, g[m])))
  BY <1>5, <1>7, RoundsGrow
<1> QED
  BY <1>1, <1>3, <1>4, <1>6, <1>8, <1>9

\* The handlers' trees and the promise speak of the same files.
LEMMA FilesOfRounds ==
    ASSUME NEW h, View(h)
    PROVE  /\ Len(RoundsDecided) = NumDecided /\ NumDecided \in Nat
           /\ \A k \in 0 .. NumDecided : Epoch!FileOf(k) = Content(ring, h[k])
           /\ \A k \in 1 .. NumDecided :
                 RoundsDecided[k] = RoundOf(coll[k], Content(ring, h[k]))
<1>1. PICK n : n = NumDecided
  OBVIOUS
<1>2. Chronicle(coll, ring, n, h) /\ RoundsDecided = RoundsOf(coll, ring, n, h)
  BY <1>1 DEF View
<1>3. n \in Nat /\ h[0] = {}
  BY <1>2 DEF Chronicle
<1>4. Len(RoundsDecided) = n
  BY <1>2, <1>3 DEF RoundsOf
<1>5. \A k \in 1 .. n : RoundsDecided[k] = RoundOf(coll[k], Content(ring, h[k]))
  BY <1>2 DEF RoundsOf
<1>6. ASSUME NEW k \in 0 .. n PROVE Epoch!FileOf(k) = Content(ring, h[k])
  <2>1. CASE k = 0
    <3>1. Content(ring, {}) = [o \in Offsets |-> None]
      BY NothingFound DEF Content
    <3> QED
      BY <1>3, <2>1, <3>1 DEF Epoch!FileOf, Epoch!Nothing
  <2>2. CASE k # 0
    <3>1. k \in 1 .. n
      BY <1>3, <2>2
    <3>2. PICK f, x : f = Content(ring, h[k]) /\ x = RoundsDecided[k]
      OBVIOUS
    <3>3. x = RoundOf(coll[k], f)
      BY <1>5, <3>1, <3>2
    <3>4. x.file = f
      BY <3>3 DEF RoundOf
    <3>5. Epoch!FileOf(k) = RoundsDecided[k].file
      BY <2>2 DEF Epoch!FileOf
    <3> QED
      BY <3>2, <3>4, <3>5
  <2> QED
    BY <2>1, <2>2
<1> QED
  BY <1>1, <1>3, <1>4, <1>5, <1>6

LEMMA MergedDecided ==
    ASSUME IInv, NEW r \in Ranks
    PROVE  Merged(r) \in Nat /\ Merged(r) <= NumDecided /\ NumDecided \in Nat
<1>1. Merged(r) \in Nat /\ Merged(r) <= Len(coll) /\ (Merged(r) # 0 => Settled(coll[Merged(r)]))
  BY MergedIs
<1>2. FirstSettled(coll, NumDecided)
  BY NumDecidedIs
<1> QED
  BY <1>1, <1>2 DEF FirstSettled

LEMMA MappedState ==
    /\ Unpublished = [r \in Ranks |-> Content(ring, local[r])]
    /\ Visible = [r \in Ranks |-> Content(ring, global[r])]
    /\ Unpublished' = [r \in Ranks |-> Content(ring', local'[r])]
    /\ Visible' = [r \in Ranks |-> Content(ring', global'[r])]
  BY DEF Unpublished, Visible, ContentOf, Content

LEMMA SameRings == IInv => Grows(ring, ring)
  BY DEF IInv, Shape, Grows

\* Calls whose number and effects stay leave the rounds as they are.
LEMMA RoundsStay ==
    ASSUME EInv, EInv', onepiece, onepiece', Grows(ring', ring), Len(coll') = Len(coll),
           \A k \in 1 .. Len(coll) : Alike(coll'[k], coll[k])
    PROVE  RoundsDecided' = RoundsDecided
<1>1. PICK n, m, cs, ds : n = NumDecided /\ m = NumDecided' /\ cs = coll' /\ ds = coll
  OBVIOUS
<1>2. FirstSettled(ds, n)
  BY <1>1, NumDecidedIs DEF EInv, HInv
<1>3. FirstSettled(cs, m)
  <2>1. (IInv => FirstSettled(coll, NumDecided))'
    BY NumDecidedIs, PTL
  <2> QED
    BY <1>1, <2>1 DEF EInv, HInv
<1>4. \A k \in 1 .. Len(ds) : Settled(cs[k]) <=> Settled(ds[k])
  BY <1>1 DEF Alike, Settled
<1>5. n = m
  <2>1. n \in Nat /\ m \in Nat /\ n <= Len(ds) /\ m <= Len(ds) /\ Len(ds) \in Nat
    BY <1>1, <1>2, <1>3 DEF FirstSettled
  <2>2. \A k \in 1 .. Len(ds) : k <= n <=> k <= m
    BY <1>1, <1>2, <1>3, <1>4 DEF FirstSettled
  <2>3. (n # 0 => n <= m) /\ (m # 0 => m <= n)
    BY <2>1, <2>2
  <2> QED
    BY <2>1, <2>3
<1>6. \A k \in 1 .. n : k \in 1 .. Len(ds)
  BY <1>2 DEF FirstSettled
<1>7. NumDecided <= NumDecided' /\ NumDecided' = NumDecided
      /\ \A k \in 1 .. NumDecided : Alike(coll'[k], coll[k])
  BY <1>1, <1>2, <1>5, <1>6 DEF FirstSettled
<1> QED
  BY <1>7, ViewStep

LEMMA SameIsAlike ==
    ASSUME coll' = coll
    PROVE  Len(coll') = Len(coll) /\ \A k \in 1 .. Len(coll) : Alike(coll'[k], coll[k])
  BY DEF Alike

LEMMA PwriteGrows ==
    ASSUME IInv, NEW r \in Ranks, NEW b \in Nat, NEW e \in Nat, b < e, Pwrite(r, b, e)
    PROVE  /\ Grows(ring', ring)
           /\ \A i \in 1 .. e - b : ring'[r][Len(ring[r]) + i] = Byte(r, nwrites[r], b + i - 1)
<1>1. PICK s : s = [i \in 1 .. e - b |-> Byte(r, nwrites[r], b + i - 1)]
  OBVIOUS
<1>2. s \in Seq(Bytes) /\ Len(s) = e - b
  <2>1. \A i \in 1 .. e - b : b + i - 1 \in Nat /\ nwrites[r] \in Nat
    BY DEF IInv, Shape
  <2>2. \A i \in 1 .. e - b : s[i] \in Bytes
    BY <1>1, <2>1 DEF Byte, Bytes
  <2>3. e - b \in Nat
    OBVIOUS
  <2> QED
    BY <1>1, <2>2, <2>3
<1>3. PICK l \in Seq(Bytes) : l = ring[r]
  BY DEF IInv, Shape
<1>4. ring' = [ring EXCEPT ![r] = l \o s]
  BY <1>1, <1>3 DEF Pwrite
<1>5. /\ Len(l \o s) = Len(l) + Len(s) /\ Len(l) \in Nat
      /\ \A i \in 1 .. Len(l) : (l \o s)[i] = l[i]
      /\ \A i \in 1 .. Len(s) : (l \o s)[Len(l) + i] = s[i]
  BY <1>2
<1>6. ring'[r] = l \o s /\ \A q \in Ranks : q # r => ring'[q] = ring[q]
  BY <1>4 DEF IInv, Shape
<1>7. ASSUME NEW q \in Ranks
      PROVE  /\ Len(ring[q]) \in Nat /\ Len(ring'[q]) \in Nat /\ Len(ring[q]) <= Len(ring'[q])
             /\ \A i \in 1 .. Len(ring[q]) : ring'[q][i] = ring[q][i]
  <2>1. CASE q = r
    <3>1. Len(l) + Len(s) \in Nat /\ Len(l) <= Len(l) + Len(s)
      BY <1>2, <1>5
    <3> QED
      BY <1>3, <1>5, <1>6, <2>1, <3>1
  <2>2. CASE q # r
    BY <1>6, <2>2 DEF IInv, Shape
  <2> QED
    BY <2>1, <2>2
<1>8. ASSUME NEW i \in 1 .. e - b
      PROVE  ring'[r][Len(ring[r]) + i] = Byte(r, nwrites[r], b + i - 1)
  BY <1>1, <1>2, <1>3, <1>5, <1>6
<1> QED
  BY <1>7, <1>8 DEF Grows

LEMMA PwriteIsWrite ==
    ASSUME EInv, EInv', onepiece, onepiece', NEW r \in Ranks, NEW w \in Writes,
           Pwrite(r, w[1], w[2])
    PROVE  \E b, e \in Offsets : Epoch!Write(r, b, e + 1)
<1>1. PICK b, e : b = w[1] /\ e = w[2]
  OBVIOUS
<1>2. b \in Nat /\ e \in Nat /\ b < e /\ e <= MaxOffset /\ MaxOffset \in Nat
  BY <1>1, BurstBufferAssumption
<1>3. IInv
  BY DEF EInv, HInv
<1>4. /\ Grows(ring', ring)
      /\ \A i \in 1 .. e - b : ring'[r][Len(ring[r]) + i] = Byte(r, nwrites[r], b + i - 1)
  BY <1>1, <1>2, <1>3, PwriteGrows
<1>5. PICK lsn \in Nat : lsn = Len(ring[r])
  BY <1>3 DEF IInv, Shape
<1>6. PICK v : v = Node(b, e, lsn, r)
  OBVIOUS
<1>7. v \in TreeNodes /\ v.b = b /\ v.e = e /\ v.ptr = lsn /\ v.client = r
  BY <1>2, <1>6, RanksAre DEF Node, TreeNodes
<1>8. PICK T, S : T = local[r] /\ S = Add(T, v)
  OBVIOUS
<1>9. Sound(ring, T) /\ Tree(T)
  BY <1>3, <1>8 DEF IInv, AllSound, Sound
<1>10. /\ local' = [local EXCEPT ![r] = S] /\ pc[r] = "idle" /\ pc' = pc /\ coll' = coll
       /\ done' = done /\ global' = global /\ nwrites' = [nwrites EXCEPT ![r] = @ + 1]
  BY <1>1, <1>5, <1>6, <1>8 DEF Pwrite
<1>11. local'[r] = S /\ \A q \in Ranks : q # r => local'[q] = local[q]
  BY <1>3, <1>10 DEF IInv, Shape
<1>12. ASSUME NEW o \in Offsets
       PROVE  Content(ring', S)[o] =
                 IF b <= o /\ o < e THEN <<r, nwrites[r], o>> ELSE Content(ring, T)[o]
  <2>1. o \in Nat
    BY DEF Offsets
  <2>2. LocationOf(S, o) = IF Covers(v, o) THEN Location(v, o) ELSE LocationOf(T, o)
    BY <1>2, <1>7, <1>8, <1>9, <2>1, AddAssigns
  <2>3. CASE b <= o /\ o < e
    <3>1. LocationOf(S, o) = <<r, lsn + (o - b)>>
      BY <1>7, <2>2, <2>3 DEF Covers, Location
    <3>2. PICK loc : loc = LocationOf(S, o)
      OBVIOUS
    <3>3. loc # Hole /\ loc[1] = r /\ loc[2] = lsn + (o - b)
      BY <3>1, <3>2 DEF Hole
    <3>4. Content(ring', S)[o] = ring'[loc[1]][loc[2] + 1]
      BY <3>2, <3>3 DEF Content
    <3>5. PICK i \in 1 .. e - b : i = (o - b) + 1
      BY <1>2, <2>1, <2>3
    <3>6. loc[2] + 1 = lsn + i /\ b + i - 1 = o
      BY <1>2, <2>1, <3>3, <3>5
    <3>7. ring'[r][lsn + i] = Byte(r, nwrites[r], o)
      BY <1>4, <1>5, <3>6
    <3> QED
      BY <2>3, <3>3, <3>4, <3>6, <3>7 DEF Byte
  <2>4. CASE ~ (b <= o /\ o < e)
    <3>1. LocationOf(S, o) = LocationOf(T, o)
      BY <1>7, <2>2, <2>4 DEF Covers
    <3>2. Content(ring', S)[o] = Content(ring', T)[o]
      BY <3>1 DEF Content
    <3>3. Content(ring', T) = Content(ring, T)
      BY <1>2, <1>4, <1>9, SameContent
    <3> QED
      BY <2>4, <3>2, <3>3
  <2> QED
    BY <2>3, <2>4
<1>13. ASSUME NEW q \in Ranks
       PROVE  /\ Content(ring', global[q]) = Content(ring, global[q])
              /\ Content(ring', local[q]) = Content(ring, local[q])
  BY <1>2, <1>3, <1>4, SameContent DEF IInv, AllSound
<1>14. Visible' = Visible
  BY <1>10, <1>13, MappedState
<1>15. Unpublished' = [Unpublished EXCEPT ![r] =
            [o \in Offsets |-> IF b <= o /\ o < e THEN <<r, nwrites[r], o>> ELSE @[o]]]
  <2>1. Content(ring', S) =
           [o \in Offsets |-> IF b <= o /\ o < e THEN <<r, nwrites[r], o>> ELSE Content(ring, T)[o]]
    <3>1. PICK f : f = Content(ring', S)
      OBVIOUS
    <3>2. f = [o \in Offsets |-> f[o]]
      BY <3>1 DEF Content
    <3> QED
      BY <1>12, <3>1, <3>2
  <2>2. Unpublished[r] = Content(ring, T)
    BY <1>8, MappedState
  <2>3. PICK U, V : U = Unpublished /\ V = Unpublished'
    OBVIOUS
  <2>4. U = [q \in Ranks |-> U[q]] /\ V = [q \in Ranks |-> V[q]]
    BY <2>3, MappedState
  <2>5. V[r] = [o \in Offsets |-> IF b <= o /\ o < e THEN <<r, nwrites[r], o>> ELSE U[r][o]]
    BY <1>11, <2>1, <2>2, <2>3, MappedState
  <2>6. \A q \in Ranks : q # r => V[q] = U[q]
    BY <1>11, <1>13, <2>3, MappedState
  <2> QED
    BY <2>3, <2>4, <2>5, <2>6
<1>16. RoundsDecided' = RoundsDecided
  BY <1>4, <1>10, SameIsAlike, RoundsStay
<1>17. Gathering' = Gathering /\ RoundsMerged' = RoundsMerged /\ r \notin Gathering
  BY <1>10 DEF Gathering, RoundsMerged, Merged
<1>18. PICK x \in Offsets : x + 1 = e
  <2>1. e - 1 \in Offsets /\ (e - 1) + 1 = e
    BY <1>2 DEF Offsets
  <2> QED
    BY <2>1
<1>19. Epoch!Write(r, b, e)
  BY <1>10, <1>14, <1>15, <1>16, <1>17 DEF Epoch!Write
<1>20. b \in Offsets
  BY <1>2 DEF Offsets
<1> QED
  BY <1>18, <1>19, <1>20

\* Who has offered a tree in the last call when a rank enters it: just the ranks
\* that wait for it, which have merged all the calls before.
LEMMA EnteredIs ==
    ASSUME ~ Alone, IInv, PieceInv, IInv', PieceInv', NEW r \in Ranks, SyncOffers(r),
           NEW k \in Nat, k = done[r] + 1, Len(coll') = k, Len(coll) \in {k - 1, k},
           k = Len(coll) => ~ Settled(coll[k]), NEW q \in Ranks
    PROVE  /\ q \in DOMAIN coll'[k].offered <=> pc'[q] = "gather" /\ Merged(q) = k - 1
           /\ q \in DOMAIN coll'[k].offered => coll'[k].offered[q] = local[q]
<1>1. /\ done' = done /\ local' = local /\ pc[r] = "idle" /\ pc' = [pc EXCEPT ![r] = "gather"]
  BY DEF SyncOffers
<1>2. pc'[r] = "gather" /\ \A p \in Ranks : p # r => pc'[p] = pc[p]
  BY <1>1 DEF IInv, Shape
<1>3. done[q] \in Nat /\ done[q] <= Len(coll) /\ Len(coll) \in Nat /\ k # 0 /\ done[r] \in Nat
      /\ k \in 1 .. Len(coll')
  <2>1. done[q] \in Nat /\ done[q] <= Len(coll) /\ Len(coll) \in Nat /\ done[r] \in Nat
    BY DEF IInv, Shape, InCalls
  <2>2. k # 0
    BY <2>1
  <2> QED
    BY <2>1, <2>2
<1>4. Merged(q) \in Nat /\ Merged(q) <= Len(coll) /\ (Merged(q) # 0 => Settled(coll[Merged(q)]))
  BY MergedIs
<1>5. Merged(q) # k
  BY <1>3, <1>4
<1>6. ASSUME q \in DOMAIN coll'[k].offered
      PROVE  pc'[q] = "gather" /\ Merged(q) = k - 1 /\ done[q] = k - 1
  <2>1. k <= done'[q] \/ (k = done'[q] + 1 /\ pc'[q] # "idle")
    BY <1>3, <1>6 DEF IInv, InCalls, Mine
  <2>2. done[q] # k
    <3>1. pc[q] = "size" => Merged(q) = done[q] + 1
      BY DEF Merged
    <3>2. pc[q] # "size" => Merged(q) = done[q]
      BY <1>3 DEF Merged
    <3>3. done[q] = k => k = Len(coll) /\ Merged(q) <= k
      BY <1>3, <1>4
    <3> QED
      BY <1>3, <1>5, <3>1, <3>2, <3>3
  <2>3. done[q] <= k
    BY <1>3
  <2>4. k = done[q] + 1 /\ pc'[q] # "idle"
    BY <1>1, <1>3, <2>1, <2>2, <2>3
  <2>5. pc'[q] # "size"
    <3>1. ASSUME pc'[q] = "size" PROVE FALSE
      <4>1. pc[q] = "size"
        BY <1>2, <3>1
      <4>2. Merged(q) = k
        BY <2>4, <4>1 DEF Merged
      <4> QED
        BY <1>5, <4>2
    <3> QED
      BY <3>1
  <2>6. pc'[q] = "gather"
    BY <2>4, <2>5 DEF IInv, Shape
  <2>7. pc[q] # "size"
    BY <1>1, <1>2, <2>5
  <2>8. Merged(q) = done[q]
    BY <1>3, <2>7 DEF Merged
  <2> QED
    BY <1>3, <2>4, <2>6, <2>8
<1>7. ASSUME pc'[q] = "gather" PROVE Merged(q) = done[q]
  <2>1. pc[q] # "size"
    BY <1>1, <1>2, <1>7
  <2> QED
    BY <1>3, <2>1 DEF Merged
<1>8. ASSUME pc'[q] = "gather", Merged(q) = k - 1
      PROVE  q \in DOMAIN coll'[k].offered /\ coll'[k].offered[q] = local[q]
  <2>1. done'[q] + 1 = k
    BY <1>1, <1>3, <1>7, <1>8
  <2>2. q \in DOMAIN coll'[done'[q] + 1].offered /\ coll'[done'[q] + 1].offered[q] = local'[q]
    BY <1>8 DEF PieceInv, InFlight, Mine
  <2> QED
    BY <1>1, <2>1, <2>2
<1> QED
  BY <1>6, <1>8

LEMMA SyncEnterIsEnterSync ==
    ASSUME EInv, EInv', onepiece, onepiece', NEW r \in Ranks, SyncOffers(r)
    PROVE  Epoch!EnterSync(r)
<1>1. ~ Alone /\ IInv /\ PieceInv /\ IInv' /\ PieceInv'
  BY DEF EInv, HInv
<1>2. PICK k \in Nat :
             /\ k = Mine(r) /\ k = done[r] + 1 /\ Merged(r) = k - 1
             /\ Len(coll') = k /\ Len(coll) \in {k - 1, k}
             /\ k = Len(coll) => ~ Settled(coll[k])
             /\ \A j \in 1 .. k - 1 : j \in 1 .. Len(coll) /\ coll'[j] = coll[j]
             /\ coll'[k].op = "sync" /\ r \in DOMAIN coll'[k].offered
             /\ coll'[k].offered[r] = local[r]
             /\ \A q \in DOMAIN coll'[k].offered : q # r =>
                   /\ k = Len(coll) /\ q \in DOMAIN coll[k].offered
                   /\ coll'[k].offered[q] = coll[k].offered[q]
             /\ k = Len(coll) => DOMAIN coll'[k].offered = DOMAIN coll[k].offered \cup {r}
  BY <1>1, EnterIs
<1>3. /\ ring' = ring /\ global' = global /\ done' = done /\ local' = local /\ nwrites' = nwrites
      /\ pc[r] = "idle" /\ pc' = [pc EXCEPT ![r] = "gather"]
  BY DEF SyncOffers
<1>4. pc'[r] = "gather" /\ \A q \in Ranks : q # r => pc'[q] = pc[q]
  BY <1>1, <1>3 DEF IInv, Shape
<1>5. k # 0 /\ k \in 1 .. k /\ MaxOffset \in Nat
  BY <1>1, <1>2, BurstBufferAssumption DEF IInv, Shape
<1>6. FirstSettled(coll, NumDecided)
  BY <1>1, NumDecidedIs
<1>7. FirstSettled(coll', NumDecided')
  <2>1. (IInv => FirstSettled(coll, NumDecided))'
    BY NumDecidedIs, PTL
  <2> QED
    BY <1>1, <2>1
<1>8. NumDecided = k - 1
  <2>1. Merged(r) <= NumDecided /\ NumDecided \in Nat
    BY <1>1, MergedDecided
  <2>2. NumDecided <= Len(coll) /\ (k = Len(coll) => NumDecided # k)
    BY <1>2, <1>5, <1>6 DEF FirstSettled
  <2> QED
    BY <1>2, <2>1, <2>2
<1>9. NumDecided' \in {k - 1, k} /\ (NumDecided' = k <=> DOMAIN coll'[k].offered = Ranks)
  <2>1. NumDecided' \in Nat /\ NumDecided' <= k /\ k - 1 <= NumDecided'
    BY <1>2, <1>7 DEF FirstSettled
  <2>2. Settled(coll'[k]) <=> k <= NumDecided'
    BY <1>2, <1>5, <1>7 DEF FirstSettled
  <2> QED
    BY <1>1, <1>2, <2>1, <2>2 DEF Settled
<1>10. \A j \in 1 .. NumDecided : Alike(coll'[j], coll[j])
  BY <1>2, <1>8 DEF Alike
<1>11. Grows(ring', ring)
  BY <1>1, <1>3, SameRings
<1>12. NumDecided <= NumDecided'
  BY <1>8, <1>9
<1>13. PICK h, g :
             /\ View(h)
             /\ Chronicle(coll', ring', NumDecided', g)
             /\ \A q \in Ranks : global'[q] = g[Merged(q)']
             /\ \A j \in 0 .. NumDecided : g[j] = h[j] /\ Content(ring', g[j]) = Content(ring, h[j])
             /\ NumDecided' = NumDecided => RoundsDecided' = RoundsDecided
             /\ NumDecided' = NumDecided + 1 => RoundsDecided' =
                   Append(RoundsDecided, RoundOf(coll'[NumDecided'], Content(ring', g[NumDecided'])))
  BY <1>10, <1>11, <1>12, ViewStep
<1>14. /\ Len(RoundsDecided) = k - 1
       /\ \A j \in 0 .. NumDecided : Epoch!FileOf(j) = Content(ring, h[j])
  BY <1>8, <1>13, FilesOfRounds
<1>15. \A q \in Ranks : Merged(q)' = Merged(q)
  BY <1>3, <1>4 DEF Merged
<1>16. /\ Visible' = Visible /\ Unpublished' = Unpublished /\ RoundsMerged' = RoundsMerged
       /\ Gathering' = Gathering \cup {r} /\ r \notin Gathering
       /\ RoundsMerged[r] = k - 1
  <2>1. Visible' = Visible /\ Unpublished' = Unpublished
    BY <1>3, MappedState
  <2>2. RoundsMerged' = RoundsMerged /\ RoundsMerged[r] = k - 1
    BY <1>2, <1>15 DEF RoundsMerged
  <2>3. Gathering' = Gathering \cup {r} /\ r \notin Gathering
    BY <1>3, <1>4 DEF Gathering
  <2> QED
    BY <2>1, <2>2, <2>3
<1>17. ASSUME NEW q \in Ranks
       PROVE  /\ q \in DOMAIN coll'[k].offered <=> pc'[q] = "gather" /\ Merged(q) = k - 1
              /\ q \in DOMAIN coll'[k].offered => coll'[k].offered[q] = local[q]
  BY <1>1, <1>2, EnteredIs
<1>18. DOMAIN coll'[k].offered \subseteq Ranks
  <2>1. coll'[k] \in Calls
    BY <1>1, <1>2, <1>5 DEF IInv, Shape
  <2>2. coll'[k].offered \in Offers
    BY <2>1 DEF Calls
  <2> QED
    BY <2>2 DEF Offers
<1>19. (\A q \in Ranks : q \in Gathering' /\ RoundsMerged[q] = RoundsMerged[r])
          <=> DOMAIN coll'[k].offered = Ranks
  <2>1. ASSUME NEW q \in Ranks
        PROVE  (q \in Gathering' /\ RoundsMerged[q] = RoundsMerged[r]) <=> q \in DOMAIN coll'[k].offered
    BY <1>16, <1>17 DEF Gathering, RoundsMerged
  <2> QED
    BY <1>18, <2>1
<1>20. CASE DOMAIN coll'[k].offered # Ranks
  <2>1. RoundsDecided' = RoundsDecided
    BY <1>8, <1>9, <1>13, <1>20
  <2> QED
    BY <1>3, <1>14, <1>16, <1>19, <1>20, <2>1 DEF Epoch!EnterSync
<1>21. CASE DOMAIN coll'[k].offered = Ranks
  <2>1. NumDecided' = k /\ NumDecided' = NumDecided + 1
    BY <1>5, <1>8, <1>9, <1>21
  <2>2. PICK cs, log, F, f : /\ cs = coll' /\ log = ring'
                             /\ F = Content(ring', g[k]) /\ f = Content(ring', g[k - 1])
    OBVIOUS
  <2>3. F = PublishedOn(log, cs[k], f)
    <3>1. Chronicle(cs, log, k, g)
      BY <1>13, <2>1, <2>2
    <3>2. k \in 1 .. k /\ NRanks \in Nat
      BY <1>5, BurstBufferAssumption
    <3>3. cs[k].op = "sync"
      BY <1>2, <2>2
    <3>4. Content(log, g[k]) = PublishedOn(log, cs[k], Content(log, g[k - 1]))
      BY <1>5, <3>1, <3>2, <3>3, CallLeaves
    <3> QED
      BY <2>2, <3>4
  <2>4. f = Epoch!FileOf(k - 1)
    <3>1. k - 1 \in 0 .. NumDecided
      BY <1>5, <1>8
    <3> QED
      BY <1>13, <1>14, <2>2, <3>1
  <2>5. [q \in Ranks |-> Content(log, cs[k].offered[q])] = Unpublished
    <3>1. \A q \in Ranks : cs[k].offered[q] = local[q]
      BY <1>17, <1>21, <2>2
    <3> QED
      BY <1>3, <2>2, <3>1, MappedState
  <2>6. F = Epoch!Published(Epoch!FileOf(k - 1), Unpublished, Ranks)
    <3>1. PICK U, P, c : U = Unpublished /\ P = Epoch!FileOf(k - 1) /\ c = cs[k]
      OBVIOUS
    <3>2. U = [q \in Ranks |-> Content(log, c.offered[q])] /\ F = PublishedOn(log, c, P)
      BY <2>3, <2>4, <2>5, <3>1
    <3>3. F = [o \in Offsets |->
                LET writers == {q \in Ranks : U[q][o] # None}
                IN  IF writers = {} THEN P[o]
                    ELSE U[CHOOSE q \in writers : \A p \in writers : p <= q][o]]
      BY <3>2 DEF PublishedOn
    <3>4. F = Epoch!Published(P, U, Ranks)
      BY <3>3 DEF Epoch!Published
    <3> QED
      BY <3>1, <3>4
  <2>7. RoundOf(cs[k], F) = Epoch!Round("sync", 0, F)
    BY <1>2, <2>2 DEF RoundOf, Epoch!Round
  <2>8. RoundsDecided' = Append(RoundsDecided, Epoch!Round("sync", 0, F))
    BY <1>13, <2>1, <2>2, <2>7
  <2> QED
    BY <1>3, <1>14, <1>16, <1>19, <1>21, <2>6, <2>8 DEF Epoch!EnterSync
<1> QED
  BY <1>20, <1>21

LEMMA SyncMergeIsLeaveSync ==
    ASSUME EInv, EInv', onepiece, onepiece', NEW r \in Ranks, SyncMerge(r)
    PROVE  Epoch!LeaveSync(r)
<1>1. IInv
  BY DEF EInv, HInv
<1>2. PICK k \in Nat : k = Mine(r) /\ k = done[r] + 1
  BY <1>1 DEF IInv, Shape, Mine
<1>3. /\ ring' = ring /\ done' = done /\ nwrites' = nwrites /\ coll' = coll
      /\ pc[r] = "gather" /\ pc' = [pc EXCEPT ![r] = "size"]
      /\ local' = [local EXCEPT ![r] = {}]
      /\ global' = [global EXCEPT ![r] = MergeAll(@, coll[k].offered)]
      /\ DOMAIN coll[k].offered = Ranks
  BY <1>2 DEF SyncMerge
<1>4. /\ pc'[r] = "size" /\ local'[r] = {}
      /\ \A q \in Ranks : q # r => pc'[q] = pc[q] /\ local'[q] = local[q] /\ global'[q] = global[q]
  BY <1>1, <1>3 DEF IInv, Shape
<1>5. done[r] \in Nat /\ k <= Len(coll) /\ Len(coll) \in Nat /\ Settled(coll[k])
  <2>1. pc[r] # "idle"
    BY <1>3
  <2>2. k <= Len(coll)
    BY <1>1, <1>2, <2>1 DEF IInv, InCalls
  <2>3. Settled(coll[k])
    BY <1>3 DEF Settled
  <2> QED
    BY <1>1, <2>2, <2>3 DEF IInv, Shape
<1>6. Merged(r) = k - 1 /\ Merged(r)' = k /\ \A q \in Ranks : q # r => Merged(q)' = Merged(q)
  BY <1>2, <1>3, <1>4, <1>5 DEF Merged
<1>7. Grows(ring', ring)
  BY <1>1, <1>3, SameRings
<1>8. \A j \in 1 .. NumDecided : Alike(coll'[j], coll[j])
  BY <1>3 DEF Alike
<1>9. NumDecided' = NumDecided
  BY <1>3 DEF NumDecided, Decided
<1>10. FirstSettled(coll, NumDecided)
  BY <1>1, NumDecidedIs
<1>11. NumDecided \in Nat /\ k <= NumDecided /\ k \in 0 .. NumDecided
  <2>1. k \in 1 .. Len(coll)
    BY <1>2, <1>5
  <2> QED
    BY <1>5, <1>10, <2>1 DEF FirstSettled
<1>12. NumDecided <= NumDecided'
  BY <1>9, <1>11
<1>13. PICK h, g :
             /\ View(h)
             /\ \A q \in Ranks : global'[q] = g[Merged(q)']
             /\ \A j \in 0 .. NumDecided : g[j] = h[j] /\ Content(ring', g[j]) = Content(ring, h[j])
             /\ NumDecided' = NumDecided => RoundsDecided' = RoundsDecided
  BY <1>7, <1>8, <1>12, ViewStep
<1>14. RoundsDecided' = RoundsDecided
  BY <1>9, <1>13
<1>15. /\ Len(RoundsDecided) = NumDecided
       /\ \A j \in 0 .. NumDecided : Epoch!FileOf(j) = Content(ring, h[j])
  BY <1>13, FilesOfRounds
<1>16. Content(ring', {}) = Epoch!Nothing
  BY NothingFound DEF Content, Epoch!Nothing
<1>17. Content(ring', global'[r]) = Epoch!FileOf(k)
  BY <1>6, <1>11, <1>13, <1>15
<1>18. Unpublished' = [Unpublished EXCEPT ![r] = Epoch!Nothing]
  <2>1. PICK U, V : U = Unpublished /\ V = Unpublished'
    OBVIOUS
  <2>2. U = [q \in Ranks |-> U[q]] /\ V = [q \in Ranks |-> V[q]]
    BY <2>1, MappedState
  <2>3. V[r] = Epoch!Nothing /\ \A q \in Ranks : q # r => V[q] = U[q]
    BY <1>3, <1>4, <1>16, <2>1, MappedState
  <2> QED
    BY <2>1, <2>2, <2>3
<1>19. Visible' = [Visible EXCEPT ![r] = Epoch!FileOf(k)]
  <2>1. PICK U, V : U = Visible /\ V = Visible'
    OBVIOUS
  <2>2. U = [q \in Ranks |-> U[q]] /\ V = [q \in Ranks |-> V[q]]
    BY <2>1, MappedState
  <2>3. V[r] = Epoch!FileOf(k) /\ \A q \in Ranks : q # r => V[q] = U[q]
    BY <1>3, <1>4, <1>17, <2>1, MappedState
  <2> QED
    BY <2>1, <2>2, <2>3
<1>20. /\ r \in Gathering /\ Gathering' = Gathering \ {r}
       /\ RoundsMerged[r] = k - 1
       /\ RoundsMerged' = [RoundsMerged EXCEPT ![r] = @ + 1]
  <2>1. r \in Gathering /\ Gathering' = Gathering \ {r}
    BY <1>3, <1>4 DEF Gathering
  <2>2. RoundsMerged[r] = k - 1 /\ k = (k - 1) + 1
    BY <1>6 DEF RoundsMerged
  <2>3. PICK U, V : U = RoundsMerged /\ V = RoundsMerged'
    OBVIOUS
  <2>4. U = [q \in Ranks |-> U[q]] /\ V = [q \in Ranks |-> V[q]]
    BY <2>3 DEF RoundsMerged
  <2>5. V[r] = U[r] + 1 /\ \A q \in Ranks : q # r => V[q] = U[q]
    BY <1>6, <2>2, <2>3 DEF RoundsMerged
  <2> QED
    BY <2>1, <2>2, <2>3, <2>4, <2>5
<1>21. RoundsMerged[r] < Len(RoundsDecided) /\ RoundsMerged[r] + 1 = k
  BY <1>11, <1>15, <1>20
<1> QED
  BY <1>3, <1>14, <1>18, <1>19, <1>20, <1>21 DEF Epoch!LeaveSync

\* A rank that has merged leaves with the size, which the promise does not tell.
LEMMA LeaveIsStutter ==
    ASSUME EInv, EInv', onepiece, onepiece', NEW r \in Ranks, NEW a \in Nat \cup {Failed},
           Leave(r, a), pc[r] = "size", ring' = ring, local' = local, global' = global,
           nwrites' = nwrites, Len(coll') = Len(coll),
           \A k \in 1 .. Len(coll) : Alike(coll'[k], coll[k])
    PROVE  UNCHANGED Epoch!vars
<1>1. IInv
  BY DEF EInv, HInv
<1>2. /\ pc'[r] = "idle" /\ done'[r] = done[r] + 1 /\ done[r] \in Nat
      /\ \A q \in Ranks : q # r => pc'[q] = pc[q] /\ done'[q] = done[q]
  BY <1>1, LeaveIs DEF IInv, Shape
<1>3. \A q \in Ranks : Merged(q)' = Merged(q)
  BY <1>2 DEF Merged
<1>4. RoundsMerged' = RoundsMerged
  BY <1>3 DEF RoundsMerged
<1>5. Gathering' = Gathering
  BY <1>2 DEF Gathering
<1>6. Visible' = Visible /\ Unpublished' = Unpublished
  BY MappedState
<1>7. RoundsDecided' = RoundsDecided
  BY <1>1, SameRings, RoundsStay
<1> QED
  BY <1>4, <1>5, <1>6, <1>7 DEF Epoch!vars

LEMMA SyncSizeIsStutter ==
    ASSUME EInv, EInv', onepiece, onepiece', NEW r \in Ranks, SyncSize(r)
    PROVE  UNCHANGED Epoch!vars
<1>1. IInv
  BY DEF EInv, HInv
<1>2. /\ pc[r] = "size" /\ Leave(r, coll[Mine(r)].root) /\ coll[Mine(r)].root # Pending
      /\ ring' = ring /\ local' = local /\ global' = global /\ coll' = coll /\ nwrites' = nwrites
  BY DEF SyncSize
<1>3. done[r] \in Nat /\ Len(coll) \in Nat /\ Mine(r) = done[r] + 1 /\ Mine(r) <= Len(coll)
  BY <1>1, <1>2 DEF IInv, Shape, InCalls, Mine
<1>4. PICK a \in Nat \cup {Failed} : a = coll[Mine(r)].root
  <2>1. Mine(r) \in 1 .. Len(coll)
    BY <1>3
  <2> QED
    BY <1>1, <1>2, <2>1, OffersOfRanks DEF IInv
<1>5. Leave(r, a)
  BY <1>2, <1>4
<1> QED
  BY <1>2, <1>5, SameIsAlike, LeaveIsStutter

LEMMA SyncSizeRootIsStutter ==
    ASSUME EInv, EInv', onepiece, onepiece', SyncSizeRoot
    PROVE  UNCHANGED Epoch!vars
<1>1. IInv
  BY DEF EInv, HInv
<1>2. PICK a \in {file.size, Failed} :
         coll' = [coll EXCEPT ![Mine(Root)].root = a] /\ Leave(Root, a)
  BY DEF SyncSizeRoot
<1>3. /\ pc[Root] = "size" /\ ring' = ring /\ local' = local /\ global' = global
      /\ nwrites' = nwrites /\ Root \in Ranks /\ a \in Nat \cup {Failed} /\ coll \in Seq(Calls)
  BY <1>1, RanksAre DEF SyncSizeRoot, IInv, Shape
<1>4. done[Root] \in Nat /\ Len(coll) \in Nat /\ Mine(Root) = done[Root] + 1
      /\ Mine(Root) <= Len(coll) /\ coll[Mine(Root)].op = "sync"
  BY <1>1, <1>3 DEF IInv, Shape, InCalls, Mine
<1>5. Mine(Root) \in 1 .. Len(coll)
  BY <1>4
<1>6. Answered(coll', coll, Mine(Root), a)
  BY <1>2, <1>3, <1>5, AnsweredIs
<1>7. Len(coll') = Len(coll) /\ \A k \in 1 .. Len(coll) : Alike(coll'[k], coll[k])
  BY <1>4, <1>6 DEF Answered, Alike
<1> QED
  BY <1>2, <1>3, <1>7, LeaveIsStutter

\* What a truncation leaves of a tree holds what is before the cut.
LEMMA CutTree ==
    ASSUME NEW log \in [Ranks -> Seq(Bytes)], NEW T, Sound(log, T), NEW c \in Calls,
           c.op # "sync", MaxOffset \in Nat
    PROVE  Content(log, Effect(c, T)) = Epoch!Cut(Content(log, T), CutOf(c))
<1>1. c.size \in Nat
  BY DEF Calls
<1>2. PICK A, S, B : A = Content(log, T) /\ S = Effect(c, T) /\ B = Content(log, S)
  OBVIOUS
<1>3. Sound(log, S)
  BY <1>1, <1>2, SoundAfterTrim DEF Effect
<1>4. ASSUME NEW o \in Offsets
      PROVE  B[o] = IF o < CutOf(c) THEN A[o] ELSE None
  <2>1. o \in Nat /\ o < MaxOffset
    BY DEF Offsets
  <2>2. A[o] = (IF LocationOf(T, o) = Hole THEN None
                ELSE log[LocationOf(T, o)[1]][LocationOf(T, o)[2] + 1])
        /\ B[o] = (IF LocationOf(S, o) = Hole THEN None
                    ELSE log[LocationOf(S, o)[1]][LocationOf(S, o)[2] + 1])
    BY <1>2, <1>3, FoundIs
  <2>3. CASE c.root = Failed
    BY <1>2, <2>1, <2>3 DEF CutOf, Effect
  <2>4. CASE c.root # Failed
    <3>1. S = Trim(T, c.size)
      BY <1>2, <2>4 DEF Effect
    <3>2. LocationOf(S, o) = IF o < c.size THEN LocationOf(T, o) ELSE Hole
      BY <1>1, <2>1, <3>1, TrimIs
    <3>3. o < CutOf(c) <=> o < c.size
      BY <1>1, <2>1, <2>4 DEF CutOf
    <3> QED
      BY <2>2, <3>2, <3>3
  <2> QED
    BY <2>3, <2>4
<1>5. B = [o \in Offsets |-> B[o]]
  BY <1>2 DEF Content
<1> QED
  BY <1>2, <1>4, <1>5 DEF Epoch!Cut

\* A rank makes the truncation c and leaves it.
LEMMA TruncatingIsCutAt ==
    ASSUME IInv, NEW r \in Ranks, pc[r] = "idle", NEW a \in Nat \cup {Failed}, Leave(r, a),
           ring' = ring, NEW c \in Calls, c.op # "sync",
           local' = [local EXCEPT ![r] = Effect(c, local[r])],
           global' = [global EXCEPT ![r] = Effect(c, global[r])]
    PROVE  Epoch!CutAt(r, CutOf(c)) /\ Gathering' = Gathering /\ r \notin Gathering
<1>1. /\ pc'[r] = "idle" /\ done'[r] = done[r] + 1 /\ done[r] \in Nat
      /\ \A q \in Ranks : q # r => pc'[q] = pc[q] /\ done'[q] = done[q]
  BY LeaveIs DEF IInv, Shape
<1>2. MaxOffset \in Nat /\ ring \in [Ranks -> Seq(Bytes)]
  BY BurstBufferAssumption DEF IInv, Shape
<1>3. PICK L, G : L = local[r] /\ G = global[r]
  OBVIOUS
<1>4. Sound(ring, L) /\ Sound(ring, G)
  BY <1>3 DEF IInv, AllSound
<1>5. PICK L2, G2 : L2 = Effect(c, L) /\ G2 = Effect(c, G)
  OBVIOUS
<1>6. Content(ring, L2) = Epoch!Cut(Content(ring, L), CutOf(c))
      /\ Content(ring, G2) = Epoch!Cut(Content(ring, G), CutOf(c))
  BY <1>2, <1>4, <1>5, CutTree
<1>7. /\ local'[r] = L2 /\ global'[r] = G2
      /\ \A q \in Ranks : q # r => local'[q] = local[q] /\ global'[q] = global[q]
  BY <1>3, <1>5 DEF IInv, Shape
<1>8. Unpublished' = [Unpublished EXCEPT ![r] = Epoch!Cut(@, CutOf(c))]
  <2>1. PICK U, V, x : U = Unpublished /\ V = Unpublished' /\ x = Epoch!Cut(Unpublished[r], CutOf(c))
    OBVIOUS
  <2>2. U = [q \in Ranks |-> U[q]] /\ V = [q \in Ranks |-> V[q]]
    BY <2>1, MappedState
  <2>3. U[r] = Content(ring, L) /\ V[r] = Content(ring, L2)
    BY <1>3, <1>7, <2>1, MappedState
  <2>4. V[r] = x
    BY <1>6, <2>1, <2>3
  <2>5. \A q \in Ranks : q # r => V[q] = U[q]
    BY <1>7, <2>1, MappedState
  <2>6. V = [U EXCEPT ![r] = x]
    BY <2>2, <2>4, <2>5
  <2> QED
    BY <2>1, <2>6
<1>9. Visible' = [Visible EXCEPT ![r] = Epoch!Cut(@, CutOf(c))]
  <2>1. PICK U, V, x : U = Visible /\ V = Visible' /\ x = Epoch!Cut(Visible[r], CutOf(c))
    OBVIOUS
  <2>2. U = [q \in Ranks |-> U[q]] /\ V = [q \in Ranks |-> V[q]]
    BY <2>1, MappedState
  <2>3. U[r] = Content(ring, G) /\ V[r] = Content(ring, G2)
    BY <1>3, <1>7, <2>1, MappedState
  <2>4. V[r] = x
    BY <1>6, <2>1, <2>3
  <2>5. \A q \in Ranks : q # r => V[q] = U[q]
    BY <1>7, <2>1, MappedState
  <2>6. V = [U EXCEPT ![r] = x]
    BY <2>2, <2>4, <2>5
  <2> QED
    BY <2>1, <2>6
<1>10. RoundsMerged' = [RoundsMerged EXCEPT ![r] = @ + 1]
  <2>1. Merged(r) = done[r] /\ Merged(r)' = done[r] + 1
        /\ \A q \in Ranks : q # r => Merged(q)' = Merged(q)
    BY <1>1 DEF Merged
  <2>2. PICK U, V : U = RoundsMerged /\ V = RoundsMerged'
    OBVIOUS
  <2>3. U = [q \in Ranks |-> U[q]] /\ V = [q \in Ranks |-> V[q]]
    BY <2>2 DEF RoundsMerged
  <2>4. V[r] = U[r] + 1 /\ \A q \in Ranks : q # r => V[q] = U[q]
    BY <2>1, <2>2 DEF RoundsMerged
  <2> QED
    BY <2>2, <2>3, <2>4
<1>11. Gathering' = Gathering /\ r \notin Gathering
  BY <1>1 DEF Gathering
<1> QED
  BY <1>8, <1>9, <1>10, <1>11 DEF Epoch!CutAt

\* A size no larger than the largest offset is one the promise knows.
LEMMA CutOfIs ==
    ASSUME NEW c \in Calls
    PROVE  CutOf(c) \in {0} \cup {o + 1 : o \in Offsets}
<1>1. c.size \in Nat /\ MaxOffset \in Nat
  BY BurstBufferAssumption DEF Calls
<1>2. CutOf(c) \in Nat /\ CutOf(c) <= MaxOffset
  BY <1>1 DEF CutOf
<1>3. CutOf(c) # 0 => CutOf(c) - 1 \in Offsets /\ CutOf(c) = (CutOf(c) - 1) + 1
  BY <1>1, <1>2 DEF Offsets
<1> QED
  BY <1>3

\* The root's truncation is a round of its own, decided when it makes it.
LEMMA RootTruncates ==
    ASSUME EInv, EInv', onepiece, onepiece', pc[Root] = "idle", Mine(Root) > Len(coll),
           NEW c \in Calls, c.op = "truncate", coll' = Append(coll, c),
           NEW a \in Nat \cup {Failed}, Leave(Root, a), ring' = ring, nwrites' = nwrites,
           local' = [local EXCEPT ![Root] = Effect(c, local[Root])],
           global' = [global EXCEPT ![Root] = Effect(c, global[Root])]
    PROVE  \E size \in {0} \cup {o + 1 : o \in Offsets} : Epoch!Truncate(size)
<1>1. IInv /\ IInv' /\ Root \in Ranks
  BY RanksAre DEF EInv, HInv
<1>2. Epoch!CutAt(Root, CutOf(c)) /\ Gathering' = Gathering /\ Root \notin Gathering
  BY <1>1, TruncatingIsCutAt
<1>3. PICK n \in Nat : n = NumDecided
  BY <1>1, NumDecidedIs DEF FirstSettled
<1>4. Len(coll) \in Nat /\ done[Root] = Len(coll) /\ coll \in Seq(Calls)
      /\ Merged(Root) = Len(coll)
  BY <1>1 DEF IInv, Shape, InCalls, Mine, Merged
<1>5. n = Len(coll)
  <2>1. Merged(Root) <= n
    BY <1>1, <1>3, MergedDecided
  <2>2. n <= Len(coll)
    BY <1>1, <1>3, NumDecidedIs DEF FirstSettled
  <2> QED
    BY <1>3, <1>4, <2>1, <2>2
<1>6. PICK cs, ds : cs = coll' /\ ds = coll
  OBVIOUS
<1>7. Len(cs) = n + 1 /\ cs[n + 1] = c /\ \A k \in 1 .. n : cs[k] = ds[k]
  BY <1>4, <1>5, <1>6, AppendedIs DEF Appended
<1>8. NumDecided' = n + 1
  <2>1. (IInv => FirstSettled(coll, NumDecided))'
    BY NumDecidedIs, PTL
  <2>2. FirstSettled(cs, NumDecided')
    BY <1>1, <1>6, <2>1
  <2>3. Settled(cs[n + 1])
    BY <1>7 DEF Settled
  <2>4. n + 1 \in 1 .. Len(cs)
    BY <1>7
  <2>5. n + 1 <= NumDecided' /\ NumDecided' <= n + 1 /\ NumDecided' \in Nat
    BY <1>7, <2>2, <2>3, <2>4 DEF FirstSettled
  <2> QED
    BY <2>5
<1>9. Grows(ring', ring)
  BY <1>1, SameRings
<1>10. \A k \in 1 .. NumDecided : Alike(coll'[k], coll[k])
  BY <1>3, <1>6, <1>7 DEF Alike
<1>11. NumDecided <= NumDecided' /\ NumDecided' = NumDecided + 1
  BY <1>3, <1>8
<1>12. PICK h, g :
             /\ View(h)
             /\ Chronicle(coll', ring', NumDecided', g)
             /\ \A k \in 0 .. NumDecided : g[k] = h[k] /\ Content(ring', g[k]) = Content(ring, h[k])
             /\ NumDecided' = NumDecided + 1 => RoundsDecided' =
                   Append(RoundsDecided, RoundOf(coll'[NumDecided'], Content(ring', g[NumDecided'])))
  BY <1>9, <1>10, <1>11, ViewStep
<1>13. PICK F, f, log : F = Content(ring', g[n + 1]) /\ f = Content(ring', g[n]) /\ log = ring'
  OBVIOUS
<1>14. F = CutDown(c, f)
  <2>1. Chronicle(cs, log, n + 1, g)
    BY <1>6, <1>8, <1>12, <1>13
  <2>2. n + 1 \in 1 .. n + 1 /\ (n + 1) - 1 = n
    OBVIOUS
  <2>3. MaxOffset \in Nat /\ NRanks \in Nat
    BY BurstBufferAssumption
  <2>4. PICK m \in Nat : \E k \in 1 .. m : m = n + 1 /\ k = n + 1
    BY <2>2
  <2>5. PICK k \in 1 .. m : m = n + 1 /\ k = n + 1
    BY <2>4
  <2>6. Chronicle(cs, log, m, g) /\ cs[k].op # "sync"
    BY <1>7, <2>1, <2>5
  <2>7. Content(log, g[k]) = IF cs[k].op = "sync" THEN PublishedOn(log, cs[k], Content(log, g[k - 1]))
                             ELSE CutDown(cs[k], Content(log, g[k - 1]))
    BY <2>3, <2>6, CallLeaves
  <2>8. k - 1 = n
    BY <2>2, <2>5
  <2> QED
    BY <1>7, <1>13, <2>5, <2>6, <2>7, <2>8
<1>15. Len(RoundsDecided) = n /\ f = Epoch!FileOf(n)
  <2>1. n \in 0 .. NumDecided
    BY <1>3
  <2> QED
    BY <1>3, <1>12, <1>13, <2>1, FilesOfRounds
<1>16. RoundsDecided' =
          Append(RoundsDecided, Epoch!Round("truncate", CutOf(c), Epoch!Cut(f, CutOf(c))))
  <2>1. RoundsDecided' = Append(RoundsDecided, RoundOf(c, F))
    BY <1>3, <1>6, <1>7, <1>8, <1>12, <1>13
  <2>2. F = Epoch!Cut(f, CutOf(c))
    BY <1>14 DEF CutDown, Epoch!Cut
  <2>3. RoundOf(c, F) = Epoch!Round("truncate", CutOf(c), F)
    BY DEF RoundOf, Epoch!Round
  <2> QED
    BY <2>1, <2>2, <2>3
<1>17. RoundsMerged[Root] = n
  BY <1>1, <1>4, <1>5 DEF RoundsMerged
<1>18. PICK size \in {0} \cup {o + 1 : o \in Offsets} : size = CutOf(c)
  BY CutOfIs
<1>19. Epoch!Truncate(size)
  BY <1>2, <1>15, <1>16, <1>17, <1>18 DEF Epoch!Truncate
<1> QED
  BY <1>19

LEMMA TruncateRootIsTruncate ==
    ASSUME EInv, EInv', onepiece, onepiece', NEW size \in TruncSizes, TruncateRoot(size)
    PROVE  \E s \in {0} \cup {o + 1 : o \in Offsets} : Epoch!Truncate(s)
<1>1. size \in Nat
  BY BurstBufferAssumption
<1>2. PICK c : c = Truncation(size, size)
  OBVIOUS
<1>3. c \in Calls /\ c.op = "truncate" /\ c.root = size /\ c.size = size /\ size # Failed
  BY <1>1, <1>2, TruncationIs DEF Failed
<1>4. /\ pc[Root] = "idle" /\ Mine(Root) > Len(coll) /\ coll' = Append(coll, c)
      /\ Leave(Root, size) /\ ring' = ring /\ nwrites' = nwrites
  BY <1>2 DEF TruncateRoot, TrimTrees, Truncation
<1>5. /\ local' = [local EXCEPT ![Root] = Effect(c, local[Root])]
      /\ global' = [global EXCEPT ![Root] = Effect(c, global[Root])]
  <2>1. Effect(c, local[Root]) = Trim(local[Root], size)
        /\ Effect(c, global[Root]) = Trim(global[Root], size)
    BY <1>3 DEF Effect
  <2> QED
    BY <2>1 DEF TruncateRoot, TrimTrees
<1> QED
  BY <1>1, <1>3, <1>4, <1>5, RootTruncates

\* A truncation of either outcome is a call of the list.
LEMMA TruncationIsCall ==
    ASSUME NEW size \in Nat, NEW a \in Nat \cup {Failed}, NEW c, c = Truncation(size, a)
    PROVE  c \in Calls /\ c.op = "truncate" /\ c.root = a
<1>1. /\ c \in Calls /\ c.op = "truncate" /\ c.offered = NoRank
      /\ c.root = a /\ c.root # Pending /\ c.size = size
  BY TruncationIs
<1> QED
  BY <1>1

\* A truncation that fails is one behind the last byte.
LEMMA TruncateRootFailsIsTruncate ==
    ASSUME EInv, EInv', onepiece, onepiece', NEW size \in TruncSizes, TruncateRootFails(size)
    PROVE  \E s \in {0} \cup {o + 1 : o \in Offsets} : Epoch!Truncate(s)
<1>1. size \in Nat
  BY BurstBufferAssumption
<1>2. PICK a \in Nat \cup {Failed} : a = Failed
  OBVIOUS
<1>3. PICK c : c = Truncation(size, a)
  OBVIOUS
<1>4. c \in Calls /\ c.op = "truncate" /\ c.root = a
  BY <1>1, <1>3, TruncationIsCall
<1>5. /\ pc[Root] = "idle" /\ Mine(Root) > Len(coll) /\ coll' = Append(coll, c)
      /\ Leave(Root, a) /\ ring' = ring /\ nwrites' = nwrites
      /\ local' = local /\ global' = global
  BY <1>2, <1>3 DEF TruncateRootFails, Truncation
<1>6. /\ local' = [local EXCEPT ![Root] = Effect(c, local[Root])]
      /\ global' = [global EXCEPT ![Root] = Effect(c, global[Root])]
  <2>1. Effect(c, local[Root]) = local[Root] /\ Effect(c, global[Root]) = global[Root]
    BY <1>2, <1>4 DEF Effect
  <2> QED
    BY <1>5, <2>1 DEF EInv, HInv, IInv, Shape
<1> QED
  BY <1>4, <1>5, <1>6, RootTruncates

LEMMA TruncateIsTruncated ==
    ASSUME EInv, EInv', onepiece, onepiece', NEW r \in Ranks, Truncate(r)
    PROVE  Epoch!Truncated(r)
<1>1. IInv
  BY DEF EInv, HInv
<1>2. PICK k \in 1 .. Len(coll) : k = Mine(r) /\ k = done[r] + 1
  BY <1>1 DEF Truncate, IInv, Shape, Mine
<1>3. PICK c : c = coll[k]
  OBVIOUS
<1>4. /\ c \in Calls /\ c.op = "truncate" /\ r # Root /\ pc[r] = "idle"
      /\ ring' = ring /\ coll' = coll /\ nwrites' = nwrites
  BY <1>1, <1>2, <1>3 DEF Truncate, IInv, Shape
<1>5. PICK a \in Nat \cup {Failed} : Leave(r, a)
  <2>1. c.size \in Nat
    BY <1>4 DEF Calls
  <2> QED
    BY <1>2, <1>3, <2>1 DEF Truncate, TrimTrees
<1>6. /\ local' = [local EXCEPT ![r] = Effect(c, local[r])]
      /\ global' = [global EXCEPT ![r] = Effect(c, global[r])]
  <2>1. CASE c.root = Failed
    <3>1. local' = local /\ global' = global
      BY <1>2, <1>3, <2>1 DEF Truncate
    <3>2. Effect(c, local[r]) = local[r] /\ Effect(c, global[r]) = global[r]
      BY <1>4, <2>1 DEF Effect
    <3> QED
      BY <1>1, <3>1, <3>2 DEF IInv, Shape
  <2>2. CASE c.root # Failed
    <3>1. TrimTrees(r, c.size)
      BY <1>2, <1>3, <2>2 DEF Truncate
    <3>2. Effect(c, local[r]) = Trim(local[r], c.size)
          /\ Effect(c, global[r]) = Trim(global[r], c.size)
      BY <1>4, <2>2 DEF Effect
    <3> QED
      BY <3>1, <3>2 DEF TrimTrees
  <2> QED
    BY <2>1, <2>2
<1>7. Epoch!CutAt(r, CutOf(c)) /\ Gathering' = Gathering /\ r \notin Gathering
  BY <1>1, <1>4, <1>5, <1>6, TruncatingIsCutAt
<1>8. PICK h : View(h)
  BY ViewIs
<1>9. k <= NumDecided /\ k \in 1 .. NumDecided
  <2>1. Settled(coll[k]) /\ FirstSettled(coll, NumDecided)
    BY <1>1, <1>3, <1>4, NumDecidedIs DEF Settled
  <2> QED
    BY <2>1 DEF FirstSettled
<1>10. PICK x : x = RoundsDecided[k]
  OBVIOUS
<1>11. x.op = "truncate" /\ x.size = CutOf(c)
  <2>1. x = RoundOf(c, Content(ring, h[k]))
    BY <1>3, <1>8, <1>9, <1>10, FilesOfRounds
  <2> QED
    BY <1>4, <2>1 DEF RoundOf
<1>12. RoundsMerged[r] = k - 1 /\ k - 1 < Len(RoundsDecided) /\ (k - 1) + 1 = k
  <2>1. done[r] \in Nat /\ Merged(r) = done[r]
    BY <1>1, <1>4 DEF Merged, IInv, Shape
  <2>2. Len(RoundsDecided) = NumDecided
    BY <1>8, FilesOfRounds
  <2> QED
    BY <1>2, <1>9, <2>1, <2>2 DEF RoundsMerged
<1>13. RoundsDecided' = RoundsDecided
  BY <1>1, <1>4, SameIsAlike, SameRings, RoundsStay
<1>14. RoundsMerged[r] < Len(RoundsDecided) /\ RoundsDecided[RoundsMerged[r] + 1].op = "truncate"
       /\ Epoch!CutAt(r, RoundsDecided[RoundsMerged[r] + 1].size)
  BY <1>7, <1>10, <1>11, <1>12
<1> QED
  BY <1>4, <1>7, <1>13, <1>14 DEF Epoch!Truncated

LEMMA NothingIsStutter ==
    ASSUME UNCHANGED vars
    PROVE  UNCHANGED Epoch!vars
<1>1. NumDecided' = NumDecided
  BY DEF vars, NumDecided, Decided
<1>2. FileAfter' = FileAfter
  BY <1>1, FileAfterIs, FileAfterNext DEF vars
<1>3. RoundsDecided' = RoundsDecided
  BY <1>1, <1>2 DEF vars, RoundsDecided, CutSize
<1>4. Visible' = Visible /\ Unpublished' = Unpublished
  BY MappedState DEF vars
<1>5. RoundsMerged' = RoundsMerged /\ Gathering' = Gathering
  BY DEF vars, RoundsMerged, Gathering, Merged
<1> QED
  BY <1>3, <1>4, <1>5 DEF vars, Epoch!vars

LEMMA InitIsInit == Init => Epoch!Init
<1> SUFFICES ASSUME Init PROVE Epoch!Init
  OBVIOUS
<1>1. IInv /\ coll = <<>>
  BY InitIInv DEF Init
<1>2. NumDecided = 0
  <2>1. FirstSettled(coll, NumDecided) /\ Len(coll) = 0
    BY <1>1, NumDecidedIs
  <2> QED
    BY <2>1 DEF FirstSettled
<1>3. RoundsDecided = <<>>
  BY <1>2 DEF RoundsDecided
<1>4. Content(ring, {}) = Epoch!Nothing
  BY NothingFound DEF Content, Epoch!Nothing
<1>5. Unpublished = [r \in Ranks |-> Epoch!Nothing] /\ Visible = [r \in Ranks |-> Epoch!Nothing]
  BY <1>4, MappedState DEF Init
<1>6. RoundsMerged = [r \in Ranks |-> 0] /\ Gathering = {} /\ nwrites = [r \in Ranks |-> 0]
  BY DEF Init, RoundsMerged, Gathering, Merged
<1> QED
  BY <1>3, <1>5, <1>6 DEF Epoch!Init

LEMMA EpochStep ==
    ASSUME EInv, EInv', [Next]_vars, onepiece'
    PROVE  [Epoch!Next]_(Epoch!vars)
<1>1. ASSUME NEW r \in Ranks, NEW w \in Writes, Pwrite(r, w[1], w[2]) PROVE Epoch!Next
  <2>1. onepiece
    BY <1>1 DEF Pwrite
  <2> QED
    BY <1>1, <2>1, PwriteIsWrite DEF Epoch!Next
<1>2. ASSUME NEW r \in Ranks, SyncEnter(r) PROVE Epoch!Next
  <2>1. SyncOffers(r)
    BY <1>2 DEF SyncEnter, EInv, HInv
  <2>2. onepiece
    BY <2>1 DEF SyncOffers
  <2> QED
    BY <2>1, <2>2, SyncEnterIsEnterSync DEF Epoch!Next
<1>3. ASSUME NEW r \in Ranks, SyncMerge(r) PROVE Epoch!Next
  <2>1. onepiece
    BY <1>3 DEF SyncMerge
  <2> QED
    BY <1>3, <2>1, SyncMergeIsLeaveSync DEF Epoch!Next
<1>4. ASSUME NEW r \in Ranks, Truncate(r) PROVE Epoch!Next
  <2>1. onepiece
    BY <1>4 DEF Truncate
  <2> QED
    BY <1>4, <2>1, TruncateIsTruncated DEF Epoch!Next
<1>5. ASSUME NEW r \in Ranks, SyncSize(r) PROVE UNCHANGED Epoch!vars
  <2>1. onepiece
    BY <1>5 DEF SyncSize
  <2> QED
    BY <1>5, <2>1, SyncSizeIsStutter
<1>6. ASSUME SyncSizeRoot PROVE UNCHANGED Epoch!vars
  <2>1. onepiece
    BY <1>6 DEF SyncSizeRoot
  <2> QED
    BY <1>6, <2>1, SyncSizeRootIsStutter
<1>7. ASSUME NEW size \in TruncSizes, TruncateRoot(size) PROVE Epoch!Next
  <2>1. onepiece
    BY <1>7 DEF TruncateRoot
  <2>2. \E s \in {0} \cup {o + 1 : o \in Offsets} : Epoch!Truncate(s)
    BY <1>7, <2>1, TruncateRootIsTruncate
  <2> QED
    BY <2>2 DEF Epoch!Next
<1>8. ASSUME NEW size \in TruncSizes, TruncateRootFails(size) PROVE Epoch!Next
  <2>1. onepiece
    BY <1>8 DEF TruncateRootFails
  <2>2. \E s \in {0} \cup {o + 1 : o \in Offsets} : Epoch!Truncate(s)
    BY <1>8, <2>1, TruncateRootFailsIsTruncate
  <2> QED
    BY <2>2 DEF Epoch!Next
<1>9. ASSUME UNCHANGED vars PROVE UNCHANGED Epoch!vars
  BY <1>9, NothingIsStutter
<1>10. ASSUME Finished PROVE UNCHANGED Epoch!vars
  BY <1>9, <1>10 DEF Finished
<1> QED
  BY <1>1, <1>2, <1>3, <1>4, <1>5, <1>6, <1>7, <1>8, <1>9, <1>10 DEF Next

\* For every number of ranks, ring size, file length and set of writes, as long
\* as each rank writes one contiguous piece between synchronisations: the
\* exchange of trees and the rings behind them (bb.hpp:85-185) implement the
\* file that EpochFile promises.  What a rank wrote before a synchronisation is
\* what every rank finds after it, a higher rank's bytes on a lower one's.
THEOREM HandlersKeepEpochs == Spec => EpochsWhileOnePiece
<1>1. Init => Epoch!Init
  BY InitIsInit
<1>2. EInv /\ EInv' /\ [Next]_vars => [~ Alone /\ onepiece' => [Epoch!Next]_(Epoch!vars)]_vars
  BY EpochStep
<1>3. ~ Alone /\ Spec => []EInv
  BY OffersInOrder
<1>4. Alone => [~ Alone /\ onepiece' => [Epoch!Next]_(Epoch!vars)]_vars
  OBVIOUS
<1>5. Alone => Alone'
  BY DEF Alone
<1> QED
  BY <1>1, <1>2, <1>3, <1>4, <1>5, PTL DEF Spec, EpochsWhileOnePiece

=============================================================================
