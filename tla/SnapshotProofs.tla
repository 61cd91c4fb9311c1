---------------------------- MODULE SnapshotProofs ----------------------------
(***************************************************************************)
(* What survives, of files and of memory.                                  *)
(*                                                                         *)
(* For any number of ranks, files, writes, saves and crashes, and rings of *)
(* any size: what a rank's indices say of its own ring is there, what they *)
(* say of the rings of others is there if the snapshots fitted together,   *)
(* and a load restores what the last completed save of the rank has saved. *)
(***************************************************************************)
EXTENDS Snapshot, Pmem, WellFoundedInduction, TLAPS

-----------------------------------------------------------------------------
(* The inductive invariant.                                                *)

InUse == {"idle", "save"}

PointerOrNone == {None} \cup {Pointer(c, l, n) : c \in Ranks, l \in Nat, n \in Nat}

Bb == [global : PointerOrNone, local : PointerOrNone]

\* The files of a store, each with its two indices.
Files(m) == m = [i \in DOMAIN m |-> m[i]] /\ \A i \in DOMAIN m : m[i] \in Bb

PointersOf(bb) == {p \in {bb.global, bb.local} : p # None}

\* How far the rings go: to the head of the job that uses it or, as long as none
\* does, to the head that a load will find.
Ends == [r \in Ranks |-> IF pc[r] \in InUse THEN head[r] ELSE meta[r].head]

There(R, p) == R[p[1]][p[2]] = Data(p[1], p[3])

\* An index says of the first n units of its own ring what is there, and what is
\* not yet exchanged is in its own ring.
TrueOf(R, bb, r, n) ==
    /\ \A p \in PointersOf(bb) : p[1] = r => p[2] < n /\ There(R, p)
    /\ bb.local # None => bb.local[1] = r

\* The units from a to b of r's ring are the indices of m but for those of some
\* files, each of them once or more.
Holds(R, r, a, b, m, but) ==
    /\ a <= b /\ but \subseteq DOMAIN m
    /\ \A l \in a .. b - 1 : /\ R[r][l].kind = "bb"
                             /\ R[r][l].ino \in DOMAIN m \ but
                             /\ R[r][l].bb = m[R[r][l].ino]
    /\ \A i \in DOMAIN m \ but : \E l \in a .. b - 1 : R[r][l].ino = i

\* All indices of m are right.
Reachable(R, E, m) ==
    \A i \in DOMAIN m : \A p \in PointersOf(m[i]) : p[2] < E[p[1]] /\ There(R, p)

Shape ==
    /\ ring = [r \in Ranks |-> [l \in Lsns |-> ring[r][l]]]
    /\ meta \in [Ranks -> [size : Nat, head : 0 .. RingSize, lsn : Nat]]
    /\ head \in [Ranks -> 0 .. RingSize]
    /\ pc \in [Ranks -> {"fresh", "idle", "save", "broken"}]
    /\ snap \in [Ranks -> Nat]
    /\ nwrites \in [Ranks -> Nat]
    /\ store = [r \in Ranks |-> store[r]] /\ todo = [r \in Ranks |-> todo[r]]
    /\ saved = [r \in Ranks |-> saved[r]] /\ torn \in [Ranks -> BOOLEAN]
    /\ \A r \in Ranks : Files(store[r]) /\ Files(saved[r])
    /\ \A r \in Ranks : meta[r].head <= Ends[r]

OwnIntact ==
    \A r \in Ranks :
        /\ pc[r] \in InUse => \A i \in DOMAIN store[r] : TrueOf(ring, store[r][i], r, Ends[r])
        /\ \A l \in Lsns : l < Ends[r] /\ ring[r][l].kind = "bb" =>
              ring[r][l].bb \in Bb /\ TrueOf(ring, ring[r][l].bb, r, l)

Saving ==
    \A r \in Ranks : pc[r] = "save" => Holds(ring, r, snap[r], head[r], store[r], todo[r])

SavedIsThere ==
    \A r \in Ranks : ~ torn[r] /\ meta[r].size > 0 =>
        Holds(ring, r, meta[r].lsn, meta[r].head, saved[r], {})

\* As long as the snapshots fitted together, so do all indices in use or saved.
Together ==
    sound => \A r \in Ranks :
        /\ ~ torn[r]
        /\ pc[r] \in InUse => Reachable(ring, Ends, store[r])
        /\ Reachable(ring, Ends, saved[r])

IInv == Shape /\ OwnIntact /\ Saving /\ SavedIsThere /\ Together

-----------------------------------------------------------------------------
(* Rings that grow.                                                        *)

LEMMA PointerIs ==
    ASSUME NEW bb \in Bb, NEW p \in PointersOf(bb)
    PROVE  p[1] \in Ranks /\ p[2] \in Nat /\ p[3] \in Nat
<1>1. PICK c \in Ranks, l \in Nat, n \in Nat : p = Pointer(c, l, n)
  BY DEF Bb, PointersOf, PointerOrNone
<1> QED
  BY <1>1 DEF Pointer

LEMMA EndsAre ==
    ASSUME Shape
    PROVE  /\ Ends \in [Ranks -> 0 .. RingSize]
           /\ \A r \in Ranks : Ends[r] = IF pc[r] \in InUse THEN head[r] ELSE meta[r].head
<1>1. \A r \in Ranks : head[r] \in 0 .. RingSize /\ meta[r].head \in 0 .. RingSize
  BY DEF Shape
<1> QED
  BY <1>1 DEF Ends

\* What is before the ends of the rings R stays in R1.
Grows(R, E, R1) == \A q \in Ranks, l \in Lsns : l < E[q] => R1[q][l] = R[q][l]

LEMMA ThereStays ==
    ASSUME NEW R, NEW R1, NEW E, Grows(R, E, R1), NEW p, p[1] \in Ranks, p[2] \in Nat,
           E[p[1]] \in 0 .. RingSize, p[2] < E[p[1]], There(R, p)
    PROVE  There(R1, p)
<1>1. p[2] \in Lsns
  BY SnapshotAssumption DEF Lsns
<1> QED
  BY <1>1 DEF There, Grows

LEMMA TrueStays ==
    ASSUME NEW R, NEW R1, NEW E, Grows(R, E, R1), NEW r \in Ranks, E[r] \in 0 .. RingSize,
           NEW bb \in Bb, NEW n \in Nat, n <= E[r], NEW m \in Nat, n <= m, TrueOf(R, bb, r, n)
    PROVE  TrueOf(R1, bb, r, m)
<1>1. ASSUME NEW p \in PointersOf(bb), p[1] = r PROVE p[2] < m /\ There(R1, p)
  <2>1. p[2] \in Nat /\ p[2] < n /\ There(R, p)
    BY <1>1, PointerIs DEF TrueOf
  <2>2. p[2] < E[p[1]]
    BY <1>1, <2>1, SnapshotAssumption
  <2>3. There(R1, p)
    BY <1>1, <2>1, <2>2, ThereStays
  <2> QED
    BY <2>1, <2>3
<1> QED
  BY <1>1 DEF TrueOf

LEMMA HoldsStays ==
    ASSUME NEW R, NEW R1, NEW E, Grows(R, E, R1), NEW r \in Ranks, E[r] \in 0 .. RingSize,
           NEW a \in Nat, NEW b \in Nat, b <= E[r], NEW m, NEW but, Holds(R, r, a, b, m, but)
    PROVE  Holds(R1, r, a, b, m, but)
<1>1. \A l \in a .. b - 1 : R1[r][l] = R[r][l]
  <2> SUFFICES ASSUME NEW l \in a .. b - 1 PROVE R1[r][l] = R[r][l]
    OBVIOUS
  <2>1. l \in Lsns /\ l < E[r]
    BY SnapshotAssumption DEF Lsns
  <2> QED
    BY <2>1 DEF Grows
<1> QED
  BY <1>1 DEF Holds

LEMMA ReachStays ==
    ASSUME NEW R, NEW R1, NEW E \in [Ranks -> 0 .. RingSize], NEW E1 \in [Ranks -> 0 .. RingSize],
           Grows(R, E, R1), NEW m, Files(m),
           \A i \in DOMAIN m : \A p \in PointersOf(m[i]) : p[2] < E[p[1]] => p[2] < E1[p[1]],
           Reachable(R, E, m)
    PROVE  Reachable(R1, E1, m)
<1> SUFFICES ASSUME NEW i \in DOMAIN m, NEW p \in PointersOf(m[i])
             PROVE  p[2] < E1[p[1]] /\ There(R1, p)
  BY DEF Reachable
<1>1. PICK bb : bb = m[i]
  OBVIOUS
<1>2. bb \in Bb /\ p \in PointersOf(bb)
  BY <1>1 DEF Files
<1>3. p[1] \in Ranks /\ p[2] \in Nat
  BY <1>2, PointerIs
<1>4. p[2] < E[p[1]] /\ There(R, p)
  BY DEF Reachable
<1>5. p[2] < E1[p[1]]
  BY <1>4
<1>6. There(R1, p)
  BY <1>3, <1>4, ThereStays
<1> QED
  BY <1>5, <1>6

\* A step in which rings may grow and nothing that is saved is changed.
LEMMA GrowingKeeps ==
    ASSUME IInv, Shape', UNCHANGED <<meta, history>>,
           Grows(ring, Ends, ring'), \A q \in Ranks : Ends[q] <= Ends'[q],
           \A r \in Ranks, l \in Lsns :
              Ends[r] <= l /\ l < Ends'[r] /\ ring'[r][l].kind = "bb" =>
                 ring'[r][l].bb \in Bb /\ TrueOf(ring', ring'[r][l].bb, r, l),
           \A r \in Ranks : pc'[r] \in InUse =>
              /\ \A i \in DOMAIN store'[r] : TrueOf(ring', store'[r][i], r, Ends'[r])
              /\ sound => Reachable(ring', Ends', store'[r]),
           Saving'
    PROVE  IInv'
<1>1. PICK R, R1, E, E1 : R = ring /\ R1 = ring' /\ E = Ends /\ E1 = Ends'
  OBVIOUS
<1>2. Shape /\ OwnIntact /\ SavedIsThere /\ Together
  BY DEF IInv
<1>3. E \in [Ranks -> 0 .. RingSize]
  BY <1>1, <1>2, EndsAre
<1>4. E1 \in [Ranks -> 0 .. RingSize]
  <2>1. \A r \in Ranks : head'[r] \in 0 .. RingSize /\ meta'[r].head \in 0 .. RingSize
    BY DEF Shape
  <2>2. Ends' \in [Ranks -> 0 .. RingSize]
    BY <2>1 DEF Ends
  <2> QED
    BY <1>1, <2>2
<1>5. Grows(R, E, R1) /\ \A q \in Ranks : E[q] <= E1[q]
  BY <1>1
<1>6. meta' = meta /\ saved' = saved /\ torn' = torn /\ sound' = sound
  BY DEF history
<1>7. ASSUME NEW r \in Ranks, NEW l \in Lsns, l < E1[r], R1[r][l].kind = "bb"
      PROVE  R1[r][l].bb \in Bb /\ TrueOf(R1, R1[r][l].bb, r, l)
  <2>1. CASE l < E[r]
    <3>1. PICK bb : bb = R[r][l].bb
      OBVIOUS
    <3>2. R1[r][l] = R[r][l]
      BY <1>5, <2>1 DEF Grows
    <3>3. bb \in Bb /\ TrueOf(R, bb, r, l)
      BY <1>1, <1>2, <1>7, <2>1, <3>1, <3>2 DEF OwnIntact
    <3>4. l \in Nat /\ l <= E[r] /\ E[r] \in 0 .. RingSize
      BY <1>3, <2>1, SnapshotAssumption DEF Lsns
    <3>5. TrueOf(R1, bb, r, l)
      BY <1>5, <3>3, <3>4, TrueStays
    <3> QED
      BY <3>1, <3>2, <3>3, <3>5
  <2>2. CASE ~ l < E[r]
    <3>1. E[r] <= l
      BY <1>3, <2>2, SnapshotAssumption DEF Lsns
    <3> QED
      BY <1>1, <1>7, <3>1
  <2> QED
    BY <2>1, <2>2
<1>8. OwnIntact'
  BY <1>1, <1>7 DEF OwnIntact
<1>9. SavedIsThere'
  <2> SUFFICES ASSUME NEW r \in Ranks, ~ torn[r], meta[r].size > 0
               PROVE  Holds(ring', r, meta[r].lsn, meta[r].head, saved[r], {})
    BY <1>6 DEF SavedIsThere
  <2>1. PICK a, b, m : a = meta[r].lsn /\ b = meta[r].head /\ m = saved[r]
    OBVIOUS
  <2>2. a \in Nat /\ b \in Nat /\ b <= E[r]
    BY <1>1, <1>2, <2>1, SnapshotAssumption DEF Shape
  <2>3. Holds(R, r, a, b, m, {})
    BY <1>1, <1>2, <2>1 DEF SavedIsThere
  <2>4. E[r] \in 0 .. RingSize
    BY <1>3
  <2>5. Holds(R1, r, a, b, m, {})
    BY <1>5, <2>2, <2>3, <2>4, HoldsStays
  <2> QED
    BY <1>1, <2>1, <2>5
<1>10. Together'
  <2> SUFFICES ASSUME sound, NEW r \in Ranks
               PROVE  ~ torn[r] /\ Reachable(ring', Ends', saved[r])
    BY <1>6 DEF Together
  <2>1. PICK m : m = saved[r]
    OBVIOUS
  <2>2. ~ torn[r] /\ Reachable(R, E, m) /\ Files(m)
    BY <1>1, <1>2, <2>1 DEF Together, Shape
  <2>3. ASSUME NEW i \in DOMAIN m, NEW p \in PointersOf(m[i]), p[2] < E[p[1]]
        PROVE  p[2] < E1[p[1]]
    <3>1. m[i] \in Bb
      BY <2>2 DEF Files
    <3>2. p[1] \in Ranks /\ p[2] \in Nat
      BY <3>1, PointerIs
    <3>3. E[p[1]] \in 0 .. RingSize /\ E1[p[1]] \in 0 .. RingSize /\ E[p[1]] <= E1[p[1]]
      BY <1>3, <1>4, <1>5, <3>2
    <3> QED
      BY <2>3, <3>2, <3>3, SnapshotAssumption
  <2>4. Reachable(R1, E1, m)
    BY <1>3, <1>4, <1>5, <2>2, <2>3, ReachStays
  <2> QED
    BY <1>1, <2>1, <2>2, <2>4
<1> QED
  BY <1>8, <1>9, <1>10 DEF IInv

\* A store that is in use and stays as it is.
LEMMA StoreStays ==
    ASSUME IInv, Grows(ring, Ends, ring'), Ends' \in [Ranks -> 0 .. RingSize],
           \A q \in Ranks : Ends[q] <= Ends'[q],
           NEW r \in Ranks, pc[r] \in InUse, store'[r] = store[r]
    PROVE  /\ \A i \in DOMAIN store'[r] : TrueOf(ring', store'[r][i], r, Ends'[r])
           /\ sound => Reachable(ring', Ends', store'[r])
<1>1. PICK R, R1, E, E1, m :
          R = ring /\ R1 = ring' /\ E = Ends /\ E1 = Ends' /\ m = store[r]
  OBVIOUS
<1>2. Shape /\ OwnIntact /\ Together
  BY DEF IInv
<1>3. /\ E \in [Ranks -> 0 .. RingSize] /\ E1 \in [Ranks -> 0 .. RingSize]
      /\ Grows(R, E, R1) /\ \A q \in Ranks : E[q] <= E1[q]
  BY <1>1, <1>2, EndsAre
<1>4. Files(m) /\ (sound => Reachable(R, E, m))
      /\ \A i \in DOMAIN m : TrueOf(R, m[i], r, E[r])
  BY <1>1, <1>2 DEF Shape, OwnIntact, Together
<1>5. ASSUME NEW i \in DOMAIN m PROVE TrueOf(R1, m[i], r, E1[r])
  <2>1. PICK bb \in Bb : bb = m[i]
    BY <1>4 DEF Files
  <2>2. TrueOf(R, bb, r, E[r])
    BY <1>4, <2>1
  <2>3. E[r] \in 0 .. RingSize /\ E[r] \in Nat /\ E1[r] \in Nat /\ E[r] <= E1[r] /\ E[r] <= E[r]
    BY <1>3, SnapshotAssumption
  <2>4. TrueOf(R1, bb, r, E1[r])
    BY <1>3, <2>2, <2>3, TrueStays
  <2> QED
    BY <2>1, <2>4
<1>6. ASSUME NEW i \in DOMAIN m, NEW p \in PointersOf(m[i]), p[2] < E[p[1]] PROVE p[2] < E1[p[1]]
  <2>1. p[1] \in Ranks /\ p[2] \in Nat
    BY <1>4, PointerIs DEF Files
  <2>2. E[p[1]] \in 0 .. RingSize /\ E1[p[1]] \in 0 .. RingSize /\ E[p[1]] <= E1[p[1]]
    BY <1>3, <2>1
  <2> QED
    BY <1>6, <2>1, <2>2, SnapshotAssumption
<1>7. sound => Reachable(R1, E1, m)
  BY <1>3, <1>4, <1>6, ReachStays
<1> QED
  BY <1>1, <1>5, <1>7

\* A save that stays where it is.
LEMMA SavingStays ==
    ASSUME IInv, Grows(ring, Ends, ring'), NEW r \in Ranks, pc[r] = "save"
    PROVE  Holds(ring', r, snap[r], head[r], store[r], todo[r])
<1>1. PICK R, R1, E : R = ring /\ R1 = ring' /\ E = Ends
  OBVIOUS
<1>2. PICK a, b, m, but : a = snap[r] /\ b = head[r] /\ m = store[r] /\ but = todo[r]
  OBVIOUS
<1>3. Shape /\ Saving
  BY DEF IInv
<1>4. E[r] = b /\ b \in 0 .. RingSize /\ a \in Nat
  BY <1>1, <1>2, <1>3, EndsAre DEF Shape, InUse
<1>5. Holds(R, r, a, b, m, but)
  BY <1>1, <1>2, <1>3 DEF Saving
<1>6. Holds(R1, r, a, b, m, but)
  BY <1>1, <1>4, <1>5, HoldsStays, SnapshotAssumption
<1> QED
  BY <1>1, <1>2, <1>6

\* A unit is appended to a ring.
LEMMA AppendingIs ==
    ASSUME Shape, NEW r \in Ranks, pc[r] \in InUse, NEW unit, AppendToRing(r, unit),
           meta' = meta, pc' = pc, NEW h, h = head[r]
    PROVE  /\ h \in Lsns /\ h \in Nat /\ Ends[r] = h
           /\ ring'[r][h] = unit
           /\ \A q \in Ranks, l \in Lsns : q # r \/ l # h => ring'[q][l] = ring[q][l]
           /\ ring' = [q \in Ranks |-> [l \in Lsns |-> ring'[q][l]]]
           /\ head' \in [Ranks -> 0 .. RingSize] /\ head'[r] = h + 1
           /\ \A q \in Ranks \ {r} : head'[q] = head[q]
           /\ Ends' \in [Ranks -> 0 .. RingSize] /\ Ends'[r] = h + 1
           /\ \A q \in Ranks \ {r} : Ends'[q] = Ends[q]
           /\ Grows(ring, Ends, ring')
           /\ \A q \in Ranks : Ends[q] <= Ends'[q]
           /\ \A q \in Ranks : meta[q].head <= Ends'[q]
<1>1. /\ h < RingSize
      /\ ring' = [ring EXCEPT ![r] = [ring[r] EXCEPT ![h] = unit]]
      /\ head' = [head EXCEPT ![r] = h + 1]
  BY DEF AppendToRing
<1>2. /\ ring = [q \in Ranks |-> [l \in Lsns |-> ring[q][l]]]
      /\ head \in [Ranks -> 0 .. RingSize]
      /\ \A q \in Ranks : meta[q].head \in 0 .. RingSize /\ meta[q].head <= Ends[q]
  BY DEF Shape
<1>3. h \in Lsns /\ h \in Nat /\ h + 1 \in 0 .. RingSize
  BY <1>1, <1>2, SnapshotAssumption DEF Lsns
<1>4. ring'[r] = [ring[r] EXCEPT ![h] = unit] /\ \A q \in Ranks \ {r} : ring'[q] = ring[q]
  BY <1>1, <1>2
<1>5. ring[r] = [l \in Lsns |-> ring[r][l]]
  BY <1>2
<1>6. ring'[r][h] = unit /\ \A l \in Lsns : l # h => ring'[r][l] = ring[r][l]
  BY <1>3, <1>4, <1>5
<1>7. ring' = [q \in Ranks |-> [l \in Lsns |-> ring'[q][l]]]
  <2>1. ring'[r] = [l \in Lsns |-> ring'[r][l]]
    BY <1>4, <1>5
  <2>2. \A q \in Ranks : ring'[q] = [l \in Lsns |-> ring'[q][l]]
    BY <1>2, <1>4, <2>1
  <2>3. ring' = [q \in Ranks |-> ring'[q]]
    BY <1>1, <1>2
  <2> QED
    BY <2>2, <2>3
<1>8. /\ head' \in [Ranks -> 0 .. RingSize] /\ head'[r] = h + 1
      /\ \A q \in Ranks \ {r} : head'[q] = head[q]
  BY <1>1, <1>2, <1>3
<1>9. /\ Ends \in [Ranks -> 0 .. RingSize]
      /\ \A q \in Ranks : Ends[q] = IF pc[q] \in InUse THEN head[q] ELSE meta[q].head
  BY EndsAre
<1>10. /\ Ends' \in [Ranks -> 0 .. RingSize]
       /\ \A q \in Ranks : Ends'[q] = IF pc[q] \in InUse THEN head'[q] ELSE meta[q].head
  BY <1>2, <1>8 DEF Ends
<1>11. Ends[r] = h /\ Ends'[r] = h + 1
  BY <1>8, <1>9, <1>10
<1>12. \A q \in Ranks \ {r} : Ends'[q] = Ends[q]
  BY <1>8, <1>9, <1>10
<1>13. Grows(ring, Ends, ring')
  <2> SUFFICES ASSUME NEW q \in Ranks, NEW l \in Lsns, l < Ends[q] PROVE ring'[q][l] = ring[q][l]
    BY DEF Grows
  <2>1. CASE q = r
    <3>1. l # h
      BY <1>3, <1>11, <2>1, SnapshotAssumption DEF Lsns
    <3> QED
      BY <1>6, <2>1, <3>1
  <2>2. CASE q # r
    BY <1>4, <2>2
  <2> QED
    BY <2>1, <2>2
<1>14. \A q \in Ranks : Ends[q] <= Ends'[q]
  <2> SUFFICES ASSUME NEW q \in Ranks PROVE Ends[q] <= Ends'[q]
    OBVIOUS
  <2>1. Ends[q] \in 0 .. RingSize
    BY <1>9
  <2> QED
    BY <1>3, <1>11, <1>12, <2>1, SnapshotAssumption
<1>15. \A q \in Ranks : meta[q].head <= Ends'[q]
  <2> SUFFICES ASSUME NEW q \in Ranks PROVE meta[q].head <= Ends'[q]
    OBVIOUS
  <2>1. Ends[q] \in 0 .. RingSize /\ Ends'[q] \in 0 .. RingSize /\ meta[q].head \in 0 .. RingSize
    BY <1>2, <1>9, <1>10
  <2>2. meta[q].head <= Ends[q] /\ Ends[q] <= Ends'[q]
    BY <1>2, <1>14
  <2> QED
    BY <2>1, <2>2, SnapshotAssumption
<1> QED
  BY <1>3, <1>4, <1>6, <1>7, <1>8, <1>10, <1>11, <1>12, <1>13, <1>14, <1>15

-----------------------------------------------------------------------------
(* Files in use.                                                           *)

LEMMA InitIInv == Init => IInv
<1> SUFFICES ASSUME Init PROVE IInv
  OBVIOUS
<1>1. \A r \in Ranks : store[r] = Empty /\ saved[r] = Empty
  BY DEF Init
<1>2. DOMAIN Empty = {} /\ Empty = [i \in {} |-> NewBb]
  BY DEF Empty
<1>3. Files(Empty)
  BY <1>2 DEF Files
<1>4. Ends = [r \in Ranks |-> 0]
  BY DEF Ends, Init, InUse
<1>5. \A r \in Ranks : meta[r] = NewMeta /\ meta[r].head = 0 /\ meta[r].size = 0
  BY DEF Init, NewMeta
<1>6. Shape
  BY <1>1, <1>3, <1>4, <1>5, SnapshotAssumption DEF Init, Shape, NewMeta
<1>7. OwnIntact
  BY <1>1, <1>2, <1>4 DEF OwnIntact, Lsns
<1>8. Saving /\ SavedIsThere
  BY <1>5 DEF Init, Saving, SavedIsThere
<1>9. Together
  BY <1>1, <1>2 DEF Init, Together, Reachable
<1> QED
  BY <1>6, <1>7, <1>8, <1>9 DEF IInv

LEMMA PwriteStep == ASSUME IInv, NEW r \in Ranks, NEW i \in Inos, Pwrite(r, i) PROVE IInv'
<1>1. PICK h, n, bb, P : h = head[r] /\ n = nwrites[r] /\ bb = store[r][i] /\ P = Pointer(r, h, n)
  OBVIOUS
<1>2. PICK bb1 : bb1 = [bb EXCEPT !.local = P]
  OBVIOUS
<1>3. /\ pc[r] = "idle" /\ i \in DOMAIN store[r]
      /\ AppendToRing(r, Data(r, n))
      /\ store' = [store EXCEPT ![r] = [store[r] EXCEPT ![i] = bb1]]
      /\ nwrites' = [nwrites EXCEPT ![r] = n + 1]
      /\ meta' = meta /\ pc' = pc /\ snap' = snap /\ todo' = todo
      /\ UNCHANGED history
  BY <1>1, <1>2 DEF Pwrite
<1>4. Shape /\ OwnIntact /\ Together
  BY DEF IInv
<1>5. pc[r] \in InUse
  BY <1>3 DEF InUse
<1>6. PICK R, R1, E, E1 : R = ring /\ R1 = ring' /\ E = Ends /\ E1 = Ends'
  OBVIOUS
<1>7. /\ h \in Lsns /\ h \in Nat /\ E[r] = h
      /\ R1[r][h] = Data(r, n)
      /\ \A q \in Ranks, l \in Lsns : q # r \/ l # h => R1[q][l] = R[q][l]
      /\ R1 = [q \in Ranks |-> [l \in Lsns |-> R1[q][l]]]
      /\ head' \in [Ranks -> 0 .. RingSize] /\ head'[r] = h + 1
      /\ \A q \in Ranks \ {r} : head'[q] = head[q]
      /\ E1 \in [Ranks -> 0 .. RingSize] /\ E1[r] = h + 1
      /\ \A q \in Ranks \ {r} : E1[q] = E[q]
      /\ Grows(R, E, R1)
      /\ \A q \in Ranks : E[q] <= E1[q]
      /\ \A q \in Ranks : meta[q].head <= E1[q]
  BY <1>1, <1>3, <1>4, <1>5, <1>6, AppendingIs
<1>8. Files(store[r]) /\ bb \in Bb /\ n \in Nat
  BY <1>1, <1>3, <1>4 DEF Shape, Files
<1>9. /\ P \in PointerOrNone /\ P[1] = r /\ P[2] = h /\ P[3] = n
      /\ bb1 \in Bb /\ bb1.local = P /\ bb1.global = bb.global
  <2>1. P \in PointerOrNone /\ P[1] = r /\ P[2] = h /\ P[3] = n
    BY <1>1, <1>7, <1>8 DEF Pointer, PointerOrNone
  <2> QED
    BY <1>2, <1>8, <2>1 DEF Bb
<1>10. PICK m, m1 : m = store[r] /\ m1 = store'[r]
  OBVIOUS
<1>11. /\ m1 = [m EXCEPT ![i] = bb1] /\ \A q \in Ranks \ {r} : store'[q] = store[q]
       /\ store' = [q \in Ranks |-> store'[q]]
  BY <1>3, <1>4, <1>10 DEF Shape
<1>12. /\ m = [j \in DOMAIN m |-> m[j]] /\ i \in DOMAIN m /\ m[i] = bb
       /\ \A j \in DOMAIN m : m[j] \in Bb
  BY <1>1, <1>3, <1>8, <1>10 DEF Files
<1>13. DOMAIN m1 = DOMAIN m /\ m1[i] = bb1 /\ \A j \in DOMAIN m : j # i => m1[j] = m[j]
  BY <1>11, <1>12
<1>14. Files(m1)
  BY <1>9, <1>11, <1>12, <1>13 DEF Files
<1>15. Shape'
  <2>1. \A q \in Ranks : Files(store'[q])
    BY <1>4, <1>10, <1>11, <1>14 DEF Shape
  <2>2. nwrites' \in [Ranks -> Nat]
    BY <1>3, <1>4, <1>8 DEF Shape
  <2>3. ring' = [q \in Ranks |-> [l \in Lsns |-> ring'[q][l]]] /\ head' \in [Ranks -> 0 .. RingSize]
    BY <1>6, <1>7
  <2>4. /\ meta' = meta /\ pc' = pc /\ snap' = snap /\ todo' = todo /\ saved' = saved /\ torn' = torn
    BY <1>3 DEF history
  <2>5. \A q \in Ranks : meta'[q].head <= Ends'[q]
    BY <1>6, <1>7, <2>4
  <2>6. store' = [q \in Ranks |-> store'[q]]
    BY <1>11
  <2>7. /\ meta' \in [Ranks -> [size : Nat, head : 0 .. RingSize, lsn : Nat]]
        /\ pc' \in [Ranks -> {"fresh", "idle", "save", "broken"}]
        /\ snap' \in [Ranks -> Nat] /\ todo' = [q \in Ranks |-> todo'[q]]
        /\ saved' = [q \in Ranks |-> saved'[q]] /\ torn' \in [Ranks -> BOOLEAN]
        /\ \A q \in Ranks : Files(saved'[q])
    BY <1>4, <2>4 DEF Shape
  <2> QED
    BY <2>1, <2>2, <2>3, <2>5, <2>6, <2>7 DEF Shape
<1>16. There(R1, P)
  BY <1>7, <1>9 DEF There
<1>17. E[r] \in 0 .. RingSize /\ h <= E[r] /\ h <= h + 1 /\ h + 1 \in Nat
  BY <1>4, <1>6, <1>7, EndsAre
<1>18. TrueOf(R1, bb1, r, h + 1)
  <2>1. TrueOf(R, bb, r, h)
    BY <1>1, <1>3, <1>4, <1>5, <1>6, <1>7 DEF OwnIntact
  <2>2. TrueOf(R1, bb, r, h + 1)
    BY <1>7, <1>8, <1>17, <2>1, TrueStays
  <2>3. \A p \in PointersOf(bb1) : p = P \/ p \in PointersOf(bb)
    BY <1>9 DEF PointersOf
  <2>4. P[2] < h + 1
    BY <1>7, <1>9
  <2> QED
    BY <1>9, <1>16, <2>2, <2>3, <2>4 DEF TrueOf
<1>19. ASSUME NEW j \in DOMAIN m, j # i PROVE TrueOf(R1, m[j], r, h + 1)
  <2>1. PICK cc \in Bb : cc = m[j]
    BY <1>12
  <2>2. TrueOf(R, cc, r, h)
    BY <1>4, <1>5, <1>6, <1>7, <1>10, <2>1 DEF OwnIntact
  <2>3. TrueOf(R1, cc, r, h + 1)
    BY <1>7, <1>17, <2>2, TrueStays
  <2> QED
    BY <2>1, <2>3
<1>20. sound => Reachable(R1, E1, m1)
  <2> SUFFICES ASSUME sound, NEW j \in DOMAIN m1, NEW p \in PointersOf(m1[j])
               PROVE  p[2] < E1[p[1]] /\ There(R1, p)
    BY DEF Reachable
  <2>1. Reachable(R, E, m)
    BY <1>4, <1>5, <1>6, <1>10 DEF Together
  <2>2. CASE p = P
    BY <1>7, <1>9, <1>16, <2>2
  <2>3. CASE p # P
    <3>1. j \in DOMAIN m /\ p \in PointersOf(m[j]) /\ m[j] \in Bb
      BY <1>9, <1>12, <1>13, <2>3 DEF PointersOf
    <3>2. p[1] \in Ranks /\ p[2] \in Nat
      BY <3>1, PointerIs
    <3>3. p[2] < E[p[1]] /\ There(R, p)
      BY <2>1, <3>1 DEF Reachable
    <3>4. E[p[1]] \in 0 .. RingSize /\ E1[p[1]] \in 0 .. RingSize /\ E[p[1]] <= E1[p[1]]
      BY <1>4, <1>6, <1>7, <3>2, EndsAre
    <3>5. There(R1, p)
      BY <1>7, <3>2, <3>3, <3>4, ThereStays
    <3>6. p[2] < E1[p[1]]
      BY <3>2, <3>3, <3>4, SnapshotAssumption
    <3> QED
      BY <3>5, <3>6
  <2> QED
    BY <2>2, <2>3
<1>21. ASSUME NEW q \in Ranks, pc'[q] \in InUse
       PROVE  /\ \A j \in DOMAIN store'[q] : TrueOf(ring', store'[q][j], q, Ends'[q])
              /\ sound => Reachable(ring', Ends', store'[q])
  <2>1. CASE q = r
    BY <1>6, <1>7, <1>10, <1>13, <1>18, <1>19, <1>20, <2>1
  <2>2. CASE q # r
    BY <1>3, <1>6, <1>7, <1>11, <1>21, <2>2, StoreStays
  <2> QED
    BY <2>1, <2>2
<1>22. ASSUME NEW q \in Ranks, NEW l \in Lsns, Ends[q] <= l, l < Ends'[q], ring'[q][l].kind = "bb"
       PROVE  FALSE
  <2>1. E[q] \in 0 .. RingSize /\ l \in Nat
    BY <1>4, <1>6, EndsAre, SnapshotAssumption DEF Lsns
  <2>2. q = r
    BY <1>6, <1>7, <1>22, <2>1
  <2>3. l = h
    <3>1. h <= l /\ l < h + 1
      BY <1>6, <1>7, <1>22, <2>2
    <3>2. h \in Nat /\ l \in Nat
      BY <1>7, <2>1
    <3>3. \A x, y \in Nat : x <= y /\ y < x + 1 => x = y
      OBVIOUS
    <3> QED
      BY <3>1, <3>2, <3>3
  <2> QED
    BY <1>6, <1>7, <1>22, <2>2, <2>3 DEF Data
<1>23. Saving'
  <2> SUFFICES ASSUME NEW q \in Ranks, pc[q] = "save"
               PROVE  Holds(ring', q, snap'[q], head'[q], store'[q], todo'[q])
    BY <1>3 DEF Saving
  <2>1. q # r
    BY <1>3
  <2> QED
    BY <1>3, <1>6, <1>7, <1>11, <2>1, SavingStays
<1> QED
  BY <1>3, <1>6, <1>7, <1>15, <1>21, <1>22, <1>23, GrowingKeeps

-----------------------------------------------------------------------------
(* Saves.                                                                  *)

LEMMA SaveBbStep == ASSUME IInv, NEW r \in Ranks, NEW i \in Inos, SaveBb(r, i) PROVE IInv'
<1>1. PICK h, bb, m, but, a : /\ h = head[r] /\ bb = store[r][i] /\ m = store[r]
                              /\ but = todo[r] /\ a = snap[r]
  OBVIOUS
<1>2. /\ pc[r] = "save" /\ i \in but
      /\ AppendToRing(r, Saved(i, bb))
      /\ todo' = [todo EXCEPT ![r] = but \ {i}]
      /\ nwrites' = nwrites /\ store' = store /\ meta' = meta /\ pc' = pc /\ snap' = snap
      /\ UNCHANGED history
  BY <1>1 DEF SaveBb
<1>3. Shape /\ OwnIntact /\ Saving
  BY DEF IInv
<1>4. pc[r] \in InUse
  BY <1>2 DEF InUse
<1>5. PICK R, R1, E, E1 : R = ring /\ R1 = ring' /\ E = Ends /\ E1 = Ends'
  OBVIOUS
<1>6. /\ h \in Lsns /\ h \in Nat /\ E[r] = h
      /\ R1[r][h] = Saved(i, bb)
      /\ \A q \in Ranks, l \in Lsns : q # r \/ l # h => R1[q][l] = R[q][l]
      /\ R1 = [q \in Ranks |-> [l \in Lsns |-> R1[q][l]]]
      /\ head' \in [Ranks -> 0 .. RingSize] /\ head'[r] = h + 1
      /\ \A q \in Ranks \ {r} : head'[q] = head[q]
      /\ E1 \in [Ranks -> 0 .. RingSize] /\ E1[r] = h + 1
      /\ \A q \in Ranks \ {r} : E1[q] = E[q]
      /\ Grows(R, E, R1)
      /\ \A q \in Ranks : E[q] <= E1[q]
      /\ \A q \in Ranks : meta[q].head <= E1[q]
  BY <1>1, <1>2, <1>3, <1>4, <1>5, AppendingIs
<1>7. Shape'
  <2>1. ring' = [q \in Ranks |-> [l \in Lsns |-> ring'[q][l]]] /\ head' \in [Ranks -> 0 .. RingSize]
    BY <1>5, <1>6
  <2>2. /\ saved' = saved /\ torn' = torn
    BY <1>2 DEF history
  <2>3. \A q \in Ranks : meta'[q].head <= Ends'[q]
    BY <1>2, <1>5, <1>6
  <2>4. todo' = [q \in Ranks |-> todo'[q]]
    BY <1>2, <1>3 DEF Shape
  <2>5. /\ meta' \in [Ranks -> [size : Nat, head : 0 .. RingSize, lsn : Nat]]
        /\ pc' \in [Ranks -> {"fresh", "idle", "save", "broken"}]
        /\ snap' \in [Ranks -> Nat] /\ store' = [q \in Ranks |-> store'[q]]
        /\ saved' = [q \in Ranks |-> saved'[q]] /\ torn' \in [Ranks -> BOOLEAN]
        /\ nwrites' \in [Ranks -> Nat]
        /\ \A q \in Ranks : Files(store'[q]) /\ Files(saved'[q])
    BY <1>2, <1>3, <2>2 DEF Shape
  <2> QED
    BY <2>1, <2>3, <2>4, <2>5 DEF Shape
<1>8. E \in [Ranks -> 0 .. RingSize] /\ E[r] \in 0 .. RingSize /\ h <= E[r] /\ h <= h
  BY <1>3, <1>5, <1>6, EndsAre
<1>9. a \in Nat /\ Holds(R, r, a, h, m, but)
  BY <1>1, <1>2, <1>3, <1>5 DEF Shape, Saving
<1>10. Holds(R1, r, a, h, m, but)
  BY <1>6, <1>8, <1>9, HoldsStays
<1>11. PICK a0, b0 : a0 = a .. h - 1 /\ b0 = a .. (h + 1) - 1
  OBVIOUS
<1>13. a <= h /\ i \in DOMAIN m
  BY <1>2, <1>9 DEF Holds
<1>12. \A l \in b0 : l \in a0 \/ l = h
  BY <1>6, <1>9, <1>11
<1>14. bb \in Bb
  BY <1>1, <1>3, <1>13 DEF Shape, Files
<1>15. TrueOf(R, bb, r, h)
  BY <1>1, <1>3, <1>4, <1>5, <1>6, <1>13 DEF OwnIntact
<1>16. TrueOf(R1, bb, r, h)
  BY <1>6, <1>8, <1>14, <1>15, TrueStays
<1>17. ASSUME NEW q \in Ranks, NEW l \in Lsns, Ends[q] <= l, l < Ends'[q], ring'[q][l].kind = "bb"
       PROVE  ring'[q][l].bb \in Bb /\ TrueOf(ring', ring'[q][l].bb, q, l)
  <2>1. E[q] \in 0 .. RingSize /\ l \in Nat
    BY <1>8, SnapshotAssumption DEF Lsns
  <2>2. q = r
    BY <1>5, <1>6, <1>17, <2>1
  <2>3. l = h
    <3>1. h <= l /\ l < h + 1
      BY <1>5, <1>6, <1>17, <2>2
    <3>2. h \in Nat /\ l \in Nat
      BY <1>6, <2>1
    <3>3. \A x, y \in Nat : x <= y /\ y < x + 1 => x = y
      OBVIOUS
    <3> QED
      BY <3>1, <3>2, <3>3
  <2>4. ring'[q][l] = Saved(i, bb)
    BY <1>5, <1>6, <2>2, <2>3
  <2>5. ring'[q][l].bb = bb
    BY <2>4 DEF Saved
  <2> QED
    BY <1>5, <1>14, <1>16, <2>2, <2>3, <2>5
<1>18. ASSUME NEW q \in Ranks, pc'[q] \in InUse
       PROVE  /\ \A j \in DOMAIN store'[q] : TrueOf(ring', store'[q][j], q, Ends'[q])
              /\ sound => Reachable(ring', Ends', store'[q])
  BY <1>2, <1>5, <1>6, <1>18, StoreStays
<1>19. Holds(R1, r, a, h + 1, m, but \ {i})
  <2>1. ASSUME NEW l \in b0
        PROVE  /\ R1[r][l].kind = "bb"
               /\ R1[r][l].ino \in DOMAIN m \ (but \ {i})
               /\ R1[r][l].bb = m[R1[r][l].ino]
    <3>1. CASE l \in a0
      BY <1>10, <1>11, <3>1 DEF Holds
    <3>2. CASE l = h
      <4>1. R1[r][l] = Saved(i, bb)
        BY <1>6, <3>2
      <4> QED
        BY <1>1, <1>13, <4>1 DEF Saved
    <3> QED
      BY <1>12, <3>1, <3>2
  <2>2. ASSUME NEW j \in DOMAIN m \ (but \ {i}) PROVE \E l \in b0 : R1[r][l].ino = j
    <3>1. CASE j = i
      <4>1. h \in b0
        BY <1>6, <1>9, <1>11, <1>13
      <4> QED
        BY <1>6, <3>1, <4>1 DEF Saved
    <3>2. CASE j # i
      <4>1. PICK l \in a0 : R1[r][l].ino = j
        BY <1>10, <1>11, <3>2 DEF Holds
      <4>2. l \in b0
        BY <1>6, <1>9, <1>11, <4>1
      <4> QED
        BY <4>1, <4>2
    <3> QED
      BY <3>1, <3>2
  <2>3. a <= h + 1 /\ but \ {i} \subseteq DOMAIN m
    BY <1>6, <1>9, <1>13 DEF Holds
  <2> QED
    BY <1>11, <2>1, <2>2, <2>3 DEF Holds
<1>20. Saving'
  <2> SUFFICES ASSUME NEW q \in Ranks, pc[q] = "save"
               PROVE  Holds(ring', q, snap'[q], head'[q], store'[q], todo'[q])
    BY <1>2 DEF Saving
  <2>1. CASE q = r
    <3>1. todo'[r] = but \ {i} /\ snap'[r] = a /\ store'[r] = m
      BY <1>1, <1>2, <1>3 DEF Shape
    <3> QED
      BY <1>5, <1>6, <1>19, <2>1, <3>1
  <2>2. CASE q # r
    <3>1. todo'[q] = todo[q]
      BY <1>2, <1>3, <2>2 DEF Shape
    <3> QED
      BY <1>2, <1>5, <1>6, <2>2, <3>1, SavingStays
  <2> QED
    BY <2>1, <2>2
<1> QED
  BY <1>2, <1>5, <1>6, <1>7, <1>17, <1>18, <1>20, GrowingKeeps

\* A step of a rank that changes neither the rings nor how far they go.
LEMMA StillRings ==
    ASSUME Shape, UNCHANGED <<ring, meta, head>>,
           pc' \in [Ranks -> {"fresh", "idle", "save", "broken"}],
           \A q \in Ranks : pc'[q] \in InUse <=> pc[q] \in InUse
    PROVE  /\ Ends' = Ends /\ Ends' \in [Ranks -> 0 .. RingSize]
           /\ Grows(ring, Ends, ring')
           /\ \A q \in Ranks : Ends[q] <= Ends'[q]
           /\ \A q \in Ranks, l \in Lsns : ~ (Ends[q] <= l /\ l < Ends'[q])
<1>1. Ends' = Ends
  BY DEF Ends
<1>2. Ends \in [Ranks -> 0 .. RingSize]
  BY EndsAre
<1>3. \A q \in Ranks : Ends[q] \in Nat
  BY <1>2, SnapshotAssumption
<1>4. \A q \in Ranks : Ends[q] <= Ends[q]
  BY <1>3
<1>5. \A q \in Ranks, l \in Lsns : ~ (Ends[q] <= l /\ l < Ends[q])
  BY <1>3, SnapshotAssumption DEF Lsns
<1> QED
  BY <1>1, <1>2, <1>4, <1>5 DEF Grows

LEMMA SaveBeginsStep == ASSUME IInv, NEW r \in Ranks, SaveBegins(r) PROVE IInv'
<1>1. /\ pc[r] = "idle"
      /\ pc' = [pc EXCEPT ![r] = "save"]
      /\ snap' = [snap EXCEPT ![r] = head[r]]
      /\ todo' = [todo EXCEPT ![r] = DOMAIN store[r]]
      /\ ring' = ring /\ meta' = meta /\ head' = head /\ store' = store /\ nwrites' = nwrites
      /\ UNCHANGED history
  BY DEF SaveBegins, persistent
<1>2. Shape /\ Saving
  BY DEF IInv
<1>3. /\ pc' \in [Ranks -> {"fresh", "idle", "save", "broken"}]
      /\ pc'[r] = "save" /\ \A q \in Ranks \ {r} : pc'[q] = pc[q]
  BY <1>1, <1>2 DEF Shape
<1>4. \A q \in Ranks : pc'[q] \in InUse <=> pc[q] \in InUse
  BY <1>1, <1>3 DEF InUse
<1>5. /\ Ends' = Ends /\ Ends' \in [Ranks -> 0 .. RingSize]
      /\ Grows(ring, Ends, ring')
      /\ \A q \in Ranks : Ends[q] <= Ends'[q]
      /\ \A q \in Ranks, l \in Lsns : ~ (Ends[q] <= l /\ l < Ends'[q])
  BY <1>1, <1>2, <1>3, <1>4, StillRings
<1>6. PICK h : h = head[r]
  OBVIOUS
<1>7. h \in Nat /\ h \in 0 .. RingSize
  BY <1>2, <1>6, SnapshotAssumption DEF Shape
<1>8. /\ snap' \in [Ranks -> Nat] /\ snap'[r] = h /\ \A q \in Ranks \ {r} : snap'[q] = snap[q]
      /\ todo' = [q \in Ranks |-> todo'[q]] /\ todo'[r] = DOMAIN store[r]
      /\ \A q \in Ranks \ {r} : todo'[q] = todo[q]
  BY <1>1, <1>2, <1>6, <1>7 DEF Shape
<1>9. Shape'
  <2>1. saved' = saved /\ torn' = torn
    BY <1>1 DEF history
  <2>2. \A q \in Ranks : meta'[q].head <= Ends'[q]
    BY <1>1, <1>2, <1>5 DEF Shape
  <2>3. /\ ring' = [q \in Ranks |-> [l \in Lsns |-> ring'[q][l]]]
        /\ meta' \in [Ranks -> [size : Nat, head : 0 .. RingSize, lsn : Nat]]
        /\ head' \in [Ranks -> 0 .. RingSize]
        /\ nwrites' \in [Ranks -> Nat] /\ store' = [q \in Ranks |-> store'[q]]
        /\ saved' = [q \in Ranks |-> saved'[q]] /\ torn' \in [Ranks -> BOOLEAN]
        /\ \A q \in Ranks : Files(store'[q]) /\ Files(saved'[q])
    BY <1>1, <1>2, <2>1 DEF Shape
  <2> QED
    BY <1>3, <1>8, <2>2, <2>3 DEF Shape
<1>10. ASSUME NEW q \in Ranks, pc'[q] \in InUse
       PROVE  /\ \A j \in DOMAIN store'[q] : TrueOf(ring', store'[q][j], q, Ends'[q])
              /\ sound => Reachable(ring', Ends', store'[q])
  BY <1>1, <1>4, <1>5, <1>10, StoreStays
<1>11. Saving'
  <2> SUFFICES ASSUME NEW q \in Ranks, pc'[q] = "save"
               PROVE  Holds(ring', q, snap'[q], head'[q], store'[q], todo'[q])
    BY DEF Saving
  <2>1. CASE q = r
    <3>1. h .. h - 1 = {} /\ h <= h
      BY <1>7
    <3>2. PICK m : m = store[r]
      OBVIOUS
    <3>3. Holds(ring, r, h, h, m, DOMAIN m)
      BY <3>1 DEF Holds
    <3> QED
      BY <1>1, <1>6, <1>8, <2>1, <3>2, <3>3
  <2>2. CASE q # r
    BY <1>1, <1>3, <1>5, <1>8, <2>2, SavingStays
  <2> QED
    BY <2>1, <2>2
<1> QED
  BY <1>1, <1>5, <1>9, <1>10, <1>11, GrowingKeeps

LEMMA SaveThrowsStep == ASSUME IInv, NEW r \in Ranks, SaveThrows(r) PROVE IInv'
<1>1. /\ pc[r] = "save"
      /\ pc' = [pc EXCEPT ![r] = "idle"]
      /\ snap' = [snap EXCEPT ![r] = 0]
      /\ todo' = [todo EXCEPT ![r] = {}]
      /\ ring' = ring /\ meta' = meta /\ head' = head /\ store' = store /\ nwrites' = nwrites
      /\ UNCHANGED history
  BY DEF SaveThrows, persistent
<1>2. Shape /\ Saving
  BY DEF IInv
<1>3. /\ pc' \in [Ranks -> {"fresh", "idle", "save", "broken"}]
      /\ pc'[r] = "idle" /\ \A q \in Ranks \ {r} : pc'[q] = pc[q]
  BY <1>1, <1>2 DEF Shape
<1>4. \A q \in Ranks : pc'[q] \in InUse <=> pc[q] \in InUse
  BY <1>1, <1>3 DEF InUse
<1>5. /\ Ends' = Ends /\ Ends' \in [Ranks -> 0 .. RingSize]
      /\ Grows(ring, Ends, ring')
      /\ \A q \in Ranks : Ends[q] <= Ends'[q]
      /\ \A q \in Ranks, l \in Lsns : ~ (Ends[q] <= l /\ l < Ends'[q])
  BY <1>1, <1>2, <1>3, <1>4, StillRings
<1>8. /\ snap' \in [Ranks -> Nat] /\ \A q \in Ranks \ {r} : snap'[q] = snap[q]
      /\ todo' = [q \in Ranks |-> todo'[q]]
      /\ \A q \in Ranks \ {r} : todo'[q] = todo[q]
  BY <1>1, <1>2 DEF Shape
<1>9. Shape'
  <2>1. saved' = saved /\ torn' = torn
    BY <1>1 DEF history
  <2>2. \A q \in Ranks : meta'[q].head <= Ends'[q]
    BY <1>1, <1>2, <1>5 DEF Shape
  <2>3. /\ ring' = [q \in Ranks |-> [l \in Lsns |-> ring'[q][l]]]
        /\ meta' \in [Ranks -> [size : Nat, head : 0 .. RingSize, lsn : Nat]]
        /\ head' \in [Ranks -> 0 .. RingSize]
        /\ nwrites' \in [Ranks -> Nat] /\ store' = [q \in Ranks |-> store'[q]]
        /\ saved' = [q \in Ranks |-> saved'[q]] /\ torn' \in [Ranks -> BOOLEAN]
        /\ \A q \in Ranks : Files(store'[q]) /\ Files(saved'[q])
    BY <1>1, <1>2, <2>1 DEF Shape
  <2> QED
    BY <1>3, <1>8, <2>2, <2>3 DEF Shape
<1>10. ASSUME NEW q \in Ranks, pc'[q] \in InUse
       PROVE  /\ \A j \in DOMAIN store'[q] : TrueOf(ring', store'[q][j], q, Ends'[q])
              /\ sound => Reachable(ring', Ends', store'[q])
  BY <1>1, <1>4, <1>5, <1>10, StoreStays
<1>11. Saving'
  <2> SUFFICES ASSUME NEW q \in Ranks, pc'[q] = "save"
               PROVE  Holds(ring', q, snap'[q], head'[q], store'[q], todo'[q])
    BY DEF Saving
  <2>1. q # r
    BY <1>3
  <2> QED
    BY <1>1, <1>3, <1>5, <1>8, <2>1, SavingStays
<1> QED
  BY <1>1, <1>5, <1>9, <1>10, <1>11, GrowingKeeps

\* The metadata is written: what is saved is what was in use.
LEMMA SaveMetadataStep == ASSUME IInv, NEW r \in Ranks, SaveMetadata(r) PROVE IInv'
<1>1. PICK h, a, m : h = head[r] /\ a = snap[r] /\ m = store[r]
  OBVIOUS
<1>2. /\ pc[r] = "save" /\ todo[r] = {}
      /\ meta' = [meta EXCEPT ![r] = [size |-> RingSize, head |-> h, lsn |-> a]]
      /\ saved' = [saved EXCEPT ![r] = m]
      /\ torn' = [torn EXCEPT ![r] = FALSE]
      /\ pc' = [pc EXCEPT ![r] = "idle"]
      /\ snap' = [snap EXCEPT ![r] = 0] /\ todo' = [todo EXCEPT ![r] = {}]
      /\ ring' = ring /\ head' = head /\ store' = store /\ nwrites' = nwrites /\ sound' = sound
  BY <1>1 DEF SaveMetadata, Metadata
<1>3. Shape /\ OwnIntact /\ Saving /\ SavedIsThere /\ Together
  BY DEF IInv
<1>4. h \in 0 .. RingSize /\ h \in Nat /\ a \in Nat
  BY <1>1, <1>3, SnapshotAssumption DEF Shape
<1>5. /\ meta' \in [Ranks -> [size : Nat, head : 0 .. RingSize, lsn : Nat]]
      /\ meta'[r].head = h /\ meta'[r].lsn = a
      /\ \A q \in Ranks \ {r} : meta'[q] = meta[q]
  BY <1>2, <1>3, <1>4, SnapshotAssumption DEF Shape
<1>6. /\ pc' \in [Ranks -> {"fresh", "idle", "save", "broken"}]
      /\ pc'[r] = "idle" /\ \A q \in Ranks \ {r} : pc'[q] = pc[q]
      /\ snap' \in [Ranks -> Nat] /\ todo' = [q \in Ranks |-> todo'[q]]
      /\ \A q \in Ranks \ {r} : snap'[q] = snap[q] /\ todo'[q] = todo[q]
      /\ saved' = [q \in Ranks |-> saved'[q]]
      /\ saved'[r] = m /\ \A q \in Ranks \ {r} : saved'[q] = saved[q]
      /\ torn' \in [Ranks -> BOOLEAN] /\ ~ torn'[r] /\ \A q \in Ranks \ {r} : torn'[q] = torn[q]
  BY <1>2, <1>3 DEF Shape
<1>7. /\ Ends \in [Ranks -> 0 .. RingSize] /\ Ends[r] = h
      /\ \A q \in Ranks : Ends[q] = IF pc[q] \in InUse THEN head[q] ELSE meta[q].head
  BY <1>1, <1>2, <1>3, EndsAre DEF InUse
<1>8. Ends' = Ends
  <2>1. \A q \in Ranks : (IF pc'[q] \in InUse THEN head'[q] ELSE meta'[q].head) = Ends[q]
    BY <1>1, <1>2, <1>5, <1>6, <1>7 DEF InUse
  <2>2. Ends' = [q \in Ranks |-> Ends[q]]
    BY <2>1 DEF Ends
  <2> QED
    BY <1>7, <2>2
<1>9. Shape'
  <2>1. \A q \in Ranks : Files(store'[q]) /\ Files(saved'[q])
    BY <1>1, <1>2, <1>3, <1>6 DEF Shape
  <2>2. ASSUME NEW q \in Ranks PROVE meta'[q].head <= Ends'[q]
    <3>1. CASE q = r
      <4>1. h <= h
        BY <1>4
      <4> QED
        BY <1>5, <1>7, <1>8, <3>1, <4>1
    <3>2. CASE q # r
      BY <1>3, <1>5, <1>8, <3>2 DEF Shape
    <3> QED
      BY <3>1, <3>2
  <2>3. /\ ring' = [q \in Ranks |-> [l \in Lsns |-> ring'[q][l]]]
        /\ head' \in [Ranks -> 0 .. RingSize]
        /\ nwrites' \in [Ranks -> Nat] /\ store' = [q \in Ranks |-> store'[q]]
    BY <1>2, <1>3 DEF Shape
  <2> QED
    BY <1>5, <1>6, <2>1, <2>2, <2>3 DEF Shape
<1>10. OwnIntact'
  <2>1. \A q \in Ranks : pc'[q] \in InUse <=> pc[q] \in InUse
    BY <1>2, <1>6 DEF InUse
  <2> QED
    BY <1>2, <1>3, <1>8, <2>1 DEF OwnIntact
<1>11. Saving'
  <2> SUFFICES ASSUME NEW q \in Ranks, pc'[q] = "save"
               PROVE  Holds(ring', q, snap'[q], head'[q], store'[q], todo'[q])
    BY DEF Saving
  <2>1. q # r
    BY <1>6
  <2> QED
    BY <1>2, <1>3, <1>6, <2>1 DEF Saving
<1>12. SavedIsThere'
  <2> SUFFICES ASSUME NEW q \in Ranks, ~ torn'[q], meta'[q].size > 0
               PROVE  Holds(ring', q, meta'[q].lsn, meta'[q].head, saved'[q], {})
    BY DEF SavedIsThere
  <2>1. CASE q = r
    <3>1. Holds(ring, r, a, h, m, {})
      BY <1>1, <1>2, <1>3 DEF Saving
    <3> QED
      BY <1>2, <1>5, <1>6, <2>1, <3>1
  <2>2. CASE q # r
    BY <1>2, <1>3, <1>5, <1>6, <2>2 DEF SavedIsThere
  <2> QED
    BY <2>1, <2>2
<1>13. Together'
  <2> SUFFICES ASSUME sound, NEW q \in Ranks
               PROVE  /\ ~ torn'[q]
                      /\ pc'[q] \in InUse => Reachable(ring', Ends', store'[q])
                      /\ Reachable(ring', Ends', saved'[q])
    BY <1>2 DEF Together
  <2>1. CASE q = r
    BY <1>1, <1>2, <1>3, <1>6, <1>8, <2>1 DEF Together, InUse
  <2>2. CASE q # r
    BY <1>2, <1>3, <1>6, <1>8, <2>2 DEF Together
  <2> QED
    BY <2>1, <2>2
<1> QED
  BY <1>9, <1>10, <1>11, <1>12, <1>13 DEF IInv

-----------------------------------------------------------------------------
(* The exchange of an open.                                                *)

LEMMA SmallestExists ==
    ASSUME NEW S \in SUBSET Nat, S # {}
    PROVE  \E n \in S : \A m \in S : n <= m
<1>1. PICK n \in S : \A m \in S : ~ (<<m, n>> \in OpToRel(<, Nat))
  BY NatLessThanWellFounded, WFMin
<1>2. ASSUME NEW m \in S PROVE n <= m
  <2>1. <<m, n>> \in Nat \X Nat /\ <<m, n>>[1] = m /\ <<m, n>>[2] = n
    OBVIOUS
  <2> QED
    BY <1>1, <2>1 DEF OpToRel
<1> QED
  BY <1>2

LEMMA LastRankExists ==
    ASSUME NEW W, W \subseteq Ranks, W # {}
    PROVE  \E q \in W : \A p \in W : p <= q
<1> DEFINE S == {NRanks - w : w \in W}
<1>1. \A w \in W : w \in 0 .. NRanks - 1 /\ NRanks \in Nat /\ NRanks - w \in Nat
  BY SnapshotAssumption DEF Ranks
<1>5. S \in SUBSET Nat /\ S # {}
  BY <1>1
<1>2. PICK n \in S : \A s \in S : n <= s
  BY <1>5, SmallestExists
<1>3. PICK q \in W : n = NRanks - q
  OBVIOUS
<1>4. ASSUME NEW p \in W PROVE p <= q
  <2>1. n <= NRanks - p
    BY <1>2
  <2> QED
    BY <1>1, <1>3, <2>1
<1> QED
  BY <1>4

Writers(i) == {q \in Ranks : BbOf(q, i).local # None}

\* What an open leaves of a file: what there was, or no local index and as the
\* global one its own or the local one of a writer.
Published(new, i, r) ==
    /\ new.local = None
    /\ new = [local |-> new.local, global |-> new.global]
    /\ \/ new.global = BbOf(r, i).global
       \/ \E q \in Writers(i) : new.global = BbOf(q, i).local

LEMMA ExchangedIs ==
    ASSUME NEW i \in Inos, NEW r \in Ranks
    PROVE  Exchanged(r, i) = BbOf(r, i) \/ Published(Exchanged(r, i), i, r)
<1>1. PICK W : W = Writers(i)
  OBVIOUS
<1>2. PICK newest : newest = CHOOSE q \in W : \A p \in W : p <= q
  OBVIOUS
<1>3. W # {} => newest \in W
  BY <1>1, <1>2, LastRankExists DEF Writers
<1>4. PICK g : g = IF W = {} THEN BbOf(r, i).global ELSE BbOf(newest, i).local
  OBVIOUS
<1>5. CASE NRanks # 1
  <2>1. Exchanged(r, i) = [local |-> None, global |-> g]
    BY <1>1, <1>2, <1>4, <1>5 DEF Exchanged, Writers
  <2>2. g = BbOf(r, i).global \/ \E q \in W : g = BbOf(q, i).local
    BY <1>3, <1>4
  <2> QED
    BY <1>1, <2>1, <2>2 DEF Published
<1>6. CASE NRanks = 1
  BY <1>6 DEF Exchanged
<1> QED
  BY <1>5, <1>6

LEMMA OpenedIs ==
    ASSUME NEW i \in Inos, Open(i), NEW r \in Ranks
    PROVE  /\ DOMAIN store'[r] = DOMAIN store[r] \cup {i}
           /\ store'[r] = [j \in DOMAIN store'[r] |-> store'[r][j]]
           /\ \A j \in DOMAIN store[r] : j # i => store'[r][j] = store[r][j]
           /\ store' = [q \in Ranks |-> store'[q]]
           /\ store'[r][i] = BbOf(r, i) \/ Published(store'[r][i], i, r)
<1>1. store' = [q \in Ranks |->
          [j \in DOMAIN store[q] \cup {i} |-> IF j = i THEN Exchanged(q, i) ELSE store[q][j]]]
  BY DEF Open
<1>2. store'[r] = [j \in DOMAIN store[r] \cup {i} |->
          IF j = i THEN Exchanged(r, i) ELSE store[r][j]]
  BY <1>1
<1>3. store'[r][i] = Exchanged(r, i)
  BY <1>2
<1>4. store' = [q \in Ranks |-> store'[q]]
  BY <1>1
<1> QED
  BY <1>2, <1>3, <1>4, ExchangedIs

LEMMA OpenStep == ASSUME IInv, NEW i \in Inos, Open(i) PROVE IInv'
<1>1. /\ \A r \in Ranks : pc[r] = "idle"
      /\ pc' = pc /\ snap' = snap /\ todo' = todo
      /\ ring' = ring /\ meta' = meta /\ head' = head /\ nwrites' = nwrites
      /\ UNCHANGED history
  BY DEF Open, persistent
<1>2. Shape /\ OwnIntact /\ Together
  BY DEF IInv
<1>3. PICK R, E : R = ring /\ E = Ends
  OBVIOUS
<1>4. pc' \in [Ranks -> {"fresh", "idle", "save", "broken"}]
  BY <1>1, <1>2 DEF Shape
<1>5. /\ Ends' = Ends /\ Ends' \in [Ranks -> 0 .. RingSize]
      /\ Grows(ring, Ends, ring')
      /\ \A q \in Ranks : Ends[q] <= Ends'[q]
      /\ \A q \in Ranks, l \in Lsns : ~ (Ends[q] <= l /\ l < Ends'[q])
  BY <1>1, <1>2, <1>4, StillRings
\* The files before the open, the one that is opened among them.
<1>6. ASSUME NEW q \in Ranks, NEW bb, bb = BbOf(q, i)
      PROVE  /\ bb \in Bb /\ TrueOf(R, bb, q, E[q])
             /\ sound => \A p \in PointersOf(bb) : p[2] < E[p[1]] /\ There(R, p)
  <2>1. CASE i \in DOMAIN store[q]
    <3>1. bb = store[q][i]
      BY <1>6, <2>1 DEF BbOf
    <3> QED
      BY <1>1, <1>2, <1>3, <2>1, <3>1 DEF Shape, Files, OwnIntact, Together, Reachable, InUse
  <2>2. CASE i \notin DOMAIN store[q]
    <3>1. bb = NewBb
      BY <1>6, <2>2 DEF BbOf
    <3> QED
      BY <3>1 DEF NewBb, Bb, PointerOrNone, PointersOf, TrueOf
  <2> QED
    BY <2>1, <2>2
<1>7. ASSUME NEW r \in Ranks
      PROVE  store'[r][i] = BbOf(r, i) \/ Published(store'[r][i], i, r)
  BY OpenedIs
<1>8. ASSUME NEW r \in Ranks, NEW bb, bb = store'[r][i], Published(bb, i, r)
      PROVE  /\ bb \in Bb /\ TrueOf(R, bb, r, E[r])
             /\ sound => \A p \in PointersOf(bb) : p[2] < E[p[1]] /\ There(R, p)
  <2>1. PICK g : g = bb.global
    OBVIOUS
  <2>2. bb = [local |-> None, global |-> g] /\ bb.local = None
    BY <1>8, <2>1 DEF Published
  <2>3. PICK q, cc : /\ q \in Ranks /\ cc = BbOf(q, i)
                     /\ \/ g = cc.global /\ q = r
                        \/ g = cc.local /\ g # None
    <3>1. g = BbOf(r, i).global \/ \E q \in Writers(i) : g = BbOf(q, i).local
      BY <1>8, <2>1 DEF Published
    <3>2. CASE g = BbOf(r, i).global
      <4>1. PICK cc : cc = BbOf(r, i)
        OBVIOUS
      <4> QED
        BY <3>2, <4>1
    <3>3. CASE \E q \in Writers(i) : g = BbOf(q, i).local
      <4>1. PICK q \in Ranks : BbOf(q, i).local # None /\ g = BbOf(q, i).local
        BY <3>3 DEF Writers
      <4>2. PICK cc : cc = BbOf(q, i)
        OBVIOUS
      <4> QED
        BY <4>1, <4>2
    <3> QED
      BY <3>1, <3>2, <3>3
  <2>4. /\ cc \in Bb /\ TrueOf(R, cc, q, E[q])
        /\ sound => \A p \in PointersOf(cc) : p[2] < E[p[1]] /\ There(R, p)
    BY <1>6, <2>3
  <2>5. g \in PointerOrNone
    BY <2>3, <2>4 DEF Bb
  <2>6. bb \in Bb
    BY <2>2, <2>5 DEF Bb, PointerOrNone
  <2>7. \A p \in PointersOf(bb) : p = g /\ p \in PointersOf(cc)
    BY <2>2, <2>3 DEF PointersOf
  <2>8. ASSUME NEW p \in PointersOf(bb), p[1] = r PROVE p[2] < E[r] /\ There(R, p)
    <3>1. p = g /\ p \in PointersOf(cc)
      BY <2>7
    <3>2. q = r
      BY <2>3, <2>4, <2>8, <3>1 DEF TrueOf
    <3> QED
      BY <2>4, <2>8, <3>1, <3>2 DEF TrueOf
  <2>9. TrueOf(R, bb, r, E[r])
    BY <2>2, <2>8 DEF TrueOf
  <2> QED
    BY <2>4, <2>6, <2>7, <2>9
<1>9. ASSUME NEW r \in Ranks, NEW bb, bb = store'[r][i]
      PROVE  /\ bb \in Bb /\ TrueOf(R, bb, r, E[r])
             /\ sound => \A p \in PointersOf(bb) : p[2] < E[p[1]] /\ There(R, p)
  <2>1. CASE bb = BbOf(r, i)
    BY <1>6, <2>1
  <2>2. CASE Published(bb, i, r)
    BY <1>9, <1>8, <2>2
  <2> QED
    BY <1>7, <1>9, <2>1, <2>2
<1>10. ASSUME NEW r \in Ranks
      PROVE  /\ Files(store'[r])
             /\ \A j \in DOMAIN store'[r] : TrueOf(R, store'[r][j], r, E[r])
             /\ sound => Reachable(R, E, store'[r])
  <2>1. PICK m, m1 : m = store[r] /\ m1 = store'[r]
    OBVIOUS
  <2>2. /\ DOMAIN m1 = DOMAIN m \cup {i} /\ m1 = [j \in DOMAIN m1 |-> m1[j]]
        /\ \A j \in DOMAIN m : j # i => m1[j] = m[j]
    BY <2>1, OpenedIs
  <2>3. /\ \A j \in DOMAIN m : m[j] \in Bb
        /\ \A j \in DOMAIN m : TrueOf(R, m[j], r, E[r])
        /\ sound => Reachable(R, E, m)
    BY <1>1, <1>2, <1>3, <2>1 DEF Shape, Files, OwnIntact, Together, InUse
  <2>4. /\ m1[i] \in Bb /\ TrueOf(R, m1[i], r, E[r])
        /\ sound => \A p \in PointersOf(m1[i]) : p[2] < E[p[1]] /\ There(R, p)
    BY <1>9, <2>1
  <2>5. Files(m1)
    BY <2>2, <2>3, <2>4 DEF Files
  <2>6. \A j \in DOMAIN m1 : TrueOf(R, m1[j], r, E[r])
    BY <2>2, <2>3, <2>4
  <2>7. sound => Reachable(R, E, m1)
    BY <2>2, <2>3, <2>4 DEF Reachable
  <2> QED
    BY <2>1, <2>5, <2>6, <2>7
<1>11. Shape'
  <2>1. saved' = saved /\ torn' = torn
    BY <1>1 DEF history
  <2>2. \A q \in Ranks : meta'[q].head <= Ends'[q]
    BY <1>1, <1>2, <1>5 DEF Shape
  <2>3. store' = [q \in Ranks |-> store'[q]]
    <3>1. CASE Ranks = {}
      BY <3>1 DEF Open
    <3>2. CASE Ranks # {}
      BY <3>2, OpenedIs
    <3> QED
      BY <3>1, <3>2
  <2>4. /\ ring' = [q \in Ranks |-> [l \in Lsns |-> ring'[q][l]]]
        /\ meta' \in [Ranks -> [size : Nat, head : 0 .. RingSize, lsn : Nat]]
        /\ head' \in [Ranks -> 0 .. RingSize]
        /\ snap' \in [Ranks -> Nat] /\ todo' = [q \in Ranks |-> todo'[q]]
        /\ nwrites' \in [Ranks -> Nat]
        /\ saved' = [q \in Ranks |-> saved'[q]] /\ torn' \in [Ranks -> BOOLEAN]
        /\ \A q \in Ranks : Files(saved'[q])
    BY <1>1, <1>2, <2>1 DEF Shape
  <2> QED
    BY <1>4, <1>10, <2>2, <2>3, <2>4 DEF Shape
<1>12. Saving'
  BY <1>1 DEF Saving
<1> QED
  BY <1>1, <1>3, <1>5, <1>10, <1>11, <1>12, GrowingKeeps

-----------------------------------------------------------------------------
(* A crash.                                                                *)

LEMMA EmptyIs == Files(Empty) /\ DOMAIN Empty = {}
<1>1. Empty = [i \in {} |-> NewBb]
  BY DEF Empty
<1> QED
  BY <1>1 DEF Files

LEMMA CrashStep == ASSUME IInv, Crash PROVE IInv'
<1>1. PICK tearing \in SUBSET {r \in Ranks : pc[r] = "save" /\ todo[r] = {}} :
          /\ \E done \in [tearing -> SUBSET {"size", "head", "lsn"}] :
                meta' = [r \in Ranks |->
                            [w \in DOMAIN meta[r] |->
                                IF r \in tearing /\ w \in done[r] THEN Metadata(r)[w]
                                ELSE meta[r][w]]]
          /\ torn' = [r \in Ranks |-> torn[r] \/ r \in tearing]
          /\ sound' = /\ sound
                      /\ tearing = {}
                      /\ \A r \in Ranks : \A p \in Pointers(saved[r]) : p[2] < meta[p[1]].head
  BY DEF Crash
<1>2. PICK done \in [tearing -> SUBSET {"size", "head", "lsn"}] :
          meta' = [r \in Ranks |->
                      [w \in DOMAIN meta[r] |->
                          IF r \in tearing /\ w \in done[r] THEN Metadata(r)[w]
                          ELSE meta[r][w]]]
  BY <1>1
<1>3. /\ head' = [r \in Ranks |-> 0] /\ store' = [r \in Ranks |-> Empty]
      /\ snap' = [r \in Ranks |-> 0] /\ todo' = [r \in Ranks |-> {}]
      /\ pc' = [r \in Ranks |-> "fresh"]
      /\ ring' = ring /\ nwrites' = nwrites /\ saved' = saved
  BY DEF Crash
<1>4. Shape /\ OwnIntact /\ SavedIsThere /\ Together
  BY DEF IInv
<1>5. PICK R, E : R = ring /\ E = Ends
  OBVIOUS
<1>6. E \in [Ranks -> 0 .. RingSize]
  BY <1>4, <1>5, EndsAre
<1>7. ASSUME NEW r \in Ranks
      PROVE  /\ meta'[r] \in [size : Nat, head : 0 .. RingSize, lsn : Nat]
             /\ meta'[r].head <= E[r]
             /\ r \notin tearing => meta'[r] = meta[r]
  <2>1. PICK old, new, mine : old = meta[r] /\ new = Metadata(r) /\ mine = meta'[r]
    OBVIOUS
  <2>2. PICK D : D = IF r \in tearing THEN done[r] ELSE {}
    OBVIOUS
  <2>3. old \in [size : Nat, head : 0 .. RingSize, lsn : Nat] /\ old.head <= E[r]
    BY <1>4, <1>5, <2>1 DEF Shape
  <2>4. DOMAIN old = {"size", "head", "lsn"}
    BY <2>3
  <2>5. mine = [w \in {"size", "head", "lsn"} |-> IF w \in D THEN new[w] ELSE old[w]]
    BY <1>2, <2>1, <2>2, <2>4
  <2>6. new \in [size : Nat, head : 0 .. RingSize, lsn : Nat]
    BY <1>4, <2>1, SnapshotAssumption DEF Shape, Metadata
  <2>7. /\ mine.size \in Nat /\ mine.head \in 0 .. RingSize /\ mine.lsn \in Nat
        /\ (mine.head = old.head \/ ("head" \in D /\ mine.head = new.head))
    <3>1. /\ mine["size"] = IF "size" \in D THEN new["size"] ELSE old["size"]
          /\ mine["head"] = IF "head" \in D THEN new["head"] ELSE old["head"]
          /\ mine["lsn"] = IF "lsn" \in D THEN new["lsn"] ELSE old["lsn"]
      BY <2>5
    <3>2. mine.size \in Nat
      BY <2>3, <2>6, <3>1
    <3>3. mine.lsn \in Nat
      BY <2>3, <2>6, <3>1
    <3>4. mine.head \in 0 .. RingSize
      BY <2>3, <2>6, <3>1
    <3>5. (mine.head = old.head \/ ("head" \in D /\ mine.head = new.head))
      BY <3>1
    <3> QED
      BY <3>2, <3>3, <3>4, <3>5
  <2>8. mine = [size |-> mine.size, head |-> mine.head, lsn |-> mine.lsn]
    BY <2>5
  <2>9. mine.head <= E[r]
    <3>1. CASE mine.head = old.head
      BY <2>3, <3>1
    <3>2. CASE "head" \in D /\ mine.head = new.head
      <4>1. pc[r] = "save"
        BY <2>2, <3>2
      <4>2. E[r] = head[r] /\ E[r] \in Nat
        BY <1>4, <1>5, <1>6, <4>1, EndsAre, SnapshotAssumption DEF InUse
      <4> QED
        BY <2>1, <3>2, <4>2 DEF Metadata
    <3> QED
      BY <2>7, <3>1, <3>2
  <2>10. r \notin tearing => mine = old
    <3> SUFFICES ASSUME r \notin tearing PROVE mine = old
      OBVIOUS
    <3>1. D = {}
      BY <2>2
    <3>2. mine = [w \in {"size", "head", "lsn"} |-> old[w]]
      BY <2>5, <3>1
    <3>3. old = [w \in {"size", "head", "lsn"} |-> old[w]]
      BY <2>3
    <3> QED
      BY <3>2, <3>3
  <2> QED
    BY <2>1, <2>7, <2>8, <2>9, <2>10
<1>8. \A r \in Ranks : Ends'[r] = meta'[r].head /\ Ends'[r] \in 0 .. RingSize /\ Ends'[r] <= E[r]
  <2> SUFFICES ASSUME NEW r \in Ranks
               PROVE  Ends'[r] = meta'[r].head /\ Ends'[r] \in 0 .. RingSize /\ Ends'[r] <= E[r]
    OBVIOUS
  <2>1. Ends'[r] = meta'[r].head
    BY <1>3 DEF Ends, InUse
  <2> QED
    BY <1>7, <2>1
<1>9. Shape'
  <2>1. meta' \in [Ranks -> [size : Nat, head : 0 .. RingSize, lsn : Nat]]
    BY <1>2, <1>7
  <2>2. \A r \in Ranks : meta'[r].head <= Ends'[r]
    <3> SUFFICES ASSUME NEW r \in Ranks PROVE meta'[r].head <= Ends'[r]
      OBVIOUS
    <3>1. Ends'[r] = meta'[r].head /\ Ends'[r] \in Nat
      BY <1>8, SnapshotAssumption
    <3> QED
      BY <3>1
  <2>3. \A r \in Ranks : Files(store'[r]) /\ Files(saved'[r])
    BY <1>3, <1>4, EmptyIs DEF Shape
  <2>4. /\ head' \in [Ranks -> 0 .. RingSize] /\ snap' \in [Ranks -> Nat]
        /\ pc' \in [Ranks -> {"fresh", "idle", "save", "broken"}]
        /\ store' = [r \in Ranks |-> store'[r]] /\ todo' = [r \in Ranks |-> todo'[r]]
    BY <1>3, SnapshotAssumption
  <2>5. torn' \in [Ranks -> BOOLEAN]
    BY <1>1
  <2>6. /\ ring' = [q \in Ranks |-> [l \in Lsns |-> ring'[q][l]]]
        /\ nwrites' \in [Ranks -> Nat] /\ saved' = [q \in Ranks |-> saved'[q]]
    BY <1>3, <1>4 DEF Shape
  <2> QED
    BY <2>1, <2>2, <2>3, <2>4, <2>5, <2>6 DEF Shape
<1>10. OwnIntact'
  <2> SUFFICES ASSUME NEW r \in Ranks, NEW l \in Lsns, l < Ends'[r], ring[r][l].kind = "bb"
               PROVE  ring[r][l].bb \in Bb /\ TrueOf(ring, ring[r][l].bb, r, l)
    BY <1>3 DEF OwnIntact, InUse
  <2>1. l \in Nat /\ E[r] \in Nat /\ Ends'[r] \in Nat
    BY <1>6, <1>8, SnapshotAssumption DEF Lsns
  <2>2. l < E[r]
    <3>1. l < Ends'[r] /\ Ends'[r] <= E[r]
      BY <1>8
    <3> QED
      BY <2>1, <3>1
  <2> QED
    BY <1>4, <1>5, <2>2 DEF OwnIntact
<1>11. Saving'
  BY <1>3 DEF Saving
<1>12. SavedIsThere'
  <2> SUFFICES ASSUME NEW r \in Ranks, ~ torn'[r], meta'[r].size > 0
               PROVE  Holds(ring', r, meta'[r].lsn, meta'[r].head, saved'[r], {})
    BY DEF SavedIsThere
  <2>1. r \notin tearing /\ ~ torn[r]
    BY <1>1
  <2>2. meta'[r] = meta[r]
    BY <1>7, <2>1
  <2> QED
    BY <1>3, <1>4, <2>1, <2>2 DEF SavedIsThere
<1>13. Together'
  <2> SUFFICES ASSUME sound', NEW r \in Ranks
               PROVE  ~ torn'[r] /\ Reachable(ring', Ends', saved'[r])
    BY <1>3 DEF Together, InUse
  <2>1. /\ sound /\ tearing = {}
        /\ \A p \in Pointers(saved[r]) : p[2] < meta[p[1]].head
    BY <1>1
  <2>2. ~ torn'[r]
    BY <1>1, <1>4, <2>1 DEF Together
  <2>3. Reachable(R, E, saved[r])
    BY <1>4, <1>5, <2>1 DEF Together
  <2>4. ASSUME NEW i \in DOMAIN saved[r], NEW p \in PointersOf(saved[r][i])
        PROVE  p[2] < Ends'[p[1]] /\ There(R, p)
    <3>1. p[1] \in Ranks
      BY <1>4, PointerIs DEF Shape, Files
    <3>2. p \in Pointers(saved[r])
      BY DEF Pointers, PointersOf
    <3>3. Ends'[p[1]] = meta[p[1]].head
      BY <1>7, <1>8, <2>1, <3>1
    <3> QED
      BY <2>1, <2>3, <3>2, <3>3 DEF Reachable
  <2> QED
    BY <1>3, <1>5, <2>2, <2>4 DEF Reachable
<1> QED
  BY <1>9, <1>10, <1>11, <1>12, <1>13 DEF IInv

-----------------------------------------------------------------------------
(* Load.                                                                   *)

\* Each file that load finds has an index of the snapshot, the first one.
LEMMA LoadedIs ==
    ASSUME Shape, NEW r \in Ranks
    PROVE  /\ DOMAIN Loaded(r) = {ring[r][l].ino : l \in Snapshots(r)}
           /\ Loaded(r) = [i \in DOMAIN Loaded(r) |-> Loaded(r)[i]]
           /\ \A i \in DOMAIN Loaded(r) :
                 \E l \in Snapshots(r) : ring[r][l].ino = i /\ Loaded(r)[i] = ring[r][l].bb
<1>1. PICK S, m : S = Snapshots(r) /\ m = Loaded(r)
  OBVIOUS
<1>2. S \in SUBSET Nat
  BY <1>1, SnapshotAssumption DEF Snapshots, Shape
<1> DEFINE firstOf(i) == CHOOSE l \in S :
               ring[r][l].ino = i /\ \A k \in S : ring[r][k].ino = i => l <= k
<1>3. m = [i \in {ring[r][l].ino : l \in S} |-> ring[r][firstOf(i)].bb]
  BY <1>1 DEF Loaded
<1>4. ASSUME NEW i \in {ring[r][l].ino : l \in S} PROVE firstOf(i) \in S /\ ring[r][firstOf(i)].ino = i
  <2>1. PICK T : T = {l \in S : ring[r][l].ino = i}
    OBVIOUS
  <2>2. T \in SUBSET Nat /\ T # {}
    BY <1>2, <2>1
  <2>3. PICK n \in T : \A k \in T : n <= k
    BY <2>2, SmallestExists
  <2>4. n \in S /\ ring[r][n].ino = i /\ \A k \in S : ring[r][k].ino = i => n <= k
    BY <2>1, <2>3
  <2> QED
    BY <2>4
<1> HIDE DEF firstOf
<1>5. DOMAIN m = {ring[r][l].ino : l \in S} /\ m = [i \in DOMAIN m |-> m[i]]
  BY <1>3
<1>6. \A i \in DOMAIN m : \E l \in S : ring[r][l].ino = i /\ m[i] = ring[r][l].bb
  BY <1>3, <1>4, <1>5
<1> QED
  BY <1>1, <1>5, <1>6

\* What was saved is what is loaded.
LEMMA LoadedIsSaved ==
    ASSUME Shape, SavedIsThere, NEW r \in Ranks, ~ torn[r], meta[r].size > 0
    PROVE  Snapshots(r) = meta[r].lsn .. meta[r].head - 1 /\ Loaded(r) = saved[r]
<1>1. PICK S, m, n, I : /\ S = Snapshots(r) /\ m = Loaded(r) /\ n = saved[r]
                        /\ I = meta[r].lsn .. meta[r].head - 1
  OBVIOUS
<1>2. Files(n)
  BY <1>1 DEF Shape
<1>3. /\ \A l \in I : /\ ring[r][l].kind = "bb"
                      /\ ring[r][l].ino \in DOMAIN n
                      /\ ring[r][l].bb = n[ring[r][l].ino]
      /\ \A i \in DOMAIN n : \E l \in I : ring[r][l].ino = i
  BY <1>1 DEF SavedIsThere, Holds
<1>4. S = I
  BY <1>1, <1>3 DEF Snapshots
<1>5. /\ DOMAIN m = {ring[r][l].ino : l \in S}
      /\ m = [i \in DOMAIN m |-> m[i]]
      /\ \A i \in DOMAIN m : \E l \in S : ring[r][l].ino = i /\ m[i] = ring[r][l].bb
  BY <1>1, LoadedIs
<1>6. DOMAIN m = DOMAIN n
  <2>1. \A i \in DOMAIN m : i \in DOMAIN n
    BY <1>3, <1>4, <1>5
  <2>2. \A i \in DOMAIN n : i \in DOMAIN m
    BY <1>3, <1>4, <1>5
  <2>3. PICK M, N : M = DOMAIN m /\ N = DOMAIN n
    OBVIOUS
  <2> QED
    BY <2>1, <2>2, <2>3
<1>7. \A i \in DOMAIN n : m[i] = n[i]
  BY <1>3, <1>4, <1>5, <1>6
<1>8. m = n
  BY <1>2, <1>5, <1>6, <1>7 DEF Files
<1> QED
  BY <1>1, <1>4, <1>8

LEMMA LoadStep == ASSUME IInv, NEW r \in Ranks, Load(r) PROVE IInv'
<1>1. /\ pc[r] = "fresh"
      /\ head' = [head EXCEPT ![r] = meta[r].head]
      /\ \/ /\ store' = [store EXCEPT ![r] = Loaded(r)]
            /\ pc' = [pc EXCEPT ![r] = "idle"]
            /\ meta[r].size > 0
         \/ /\ pc' = [pc EXCEPT ![r] = "broken"]
            /\ store' = store
      /\ ring' = ring /\ meta' = meta /\ snap' = snap /\ todo' = todo /\ nwrites' = nwrites
      /\ UNCHANGED history
  BY DEF Load, persistent
<1>2. Shape /\ OwnIntact /\ SavedIsThere /\ Together
  BY DEF IInv
<1>3. PICK R, E, m : R = ring /\ E = Ends /\ m = Loaded(r)
  OBVIOUS
<1>4. /\ E \in [Ranks -> 0 .. RingSize] /\ E[r] \in Nat /\ E[r] = meta[r].head
      /\ \A q \in Ranks : Ends[q] = IF pc[q] \in InUse THEN head[q] ELSE meta[q].head
  BY <1>1, <1>2, <1>3, EndsAre, SnapshotAssumption DEF InUse
<1>5. /\ head' \in [Ranks -> 0 .. RingSize] /\ head'[r] = meta[r].head
      /\ \A q \in Ranks \ {r} : head'[q] = head[q]
  BY <1>1, <1>2 DEF Shape
<1>6. /\ pc' \in [Ranks -> {"fresh", "idle", "save", "broken"}]
      /\ pc'[r] \in {"idle", "broken"} /\ \A q \in Ranks \ {r} : pc'[q] = pc[q]
      /\ store' = [q \in Ranks |-> store'[q]]
      /\ \A q \in Ranks \ {r} : store'[q] = store[q]
      /\ \/ pc'[r] = "idle" /\ store'[r] = m /\ meta[r].size > 0
         \/ pc'[r] = "broken" /\ store'[r] = store[r]
  <2>1. pc \in [Ranks -> {"fresh", "idle", "save", "broken"}] /\ store = [q \in Ranks |-> store[q]]
    BY <1>2 DEF Shape
  <2>2. CASE store' = [store EXCEPT ![r] = Loaded(r)] /\ pc' = [pc EXCEPT ![r] = "idle"] /\ meta[r].size > 0
    <3>1. /\ store'[r] = m /\ store' = [q \in Ranks |-> store'[q]]
          /\ \A q \in Ranks \ {r} : store'[q] = store[q]
      BY <1>3, <2>1, <2>2
    <3>2. /\ pc' \in [Ranks -> {"fresh", "idle", "save", "broken"}]
          /\ pc'[r] = "idle" /\ \A q \in Ranks \ {r} : pc'[q] = pc[q]
      BY <2>1, <2>2
    <3> QED
      BY <2>2, <3>1, <3>2
  <2>3. CASE pc' = [pc EXCEPT ![r] = "broken"] /\ store' = store
    BY <2>1, <2>3
  <2> QED
    BY <1>1, <2>2, <2>3
<1>7. Ends' = Ends
  <2>1. \A q \in Ranks : (IF pc'[q] \in InUse THEN head'[q] ELSE meta'[q].head) = Ends[q]
    BY <1>1, <1>3, <1>4, <1>5, <1>6
  <2>2. Ends' = [q \in Ranks |-> Ends[q]]
    BY <2>1 DEF Ends
  <2> QED
    BY <1>3, <1>4, <2>2
<1>8. Grows(R, E, R) /\ \A q \in Ranks : E[q] <= E[q]
  <2>1. \A q \in Ranks : E[q] \in Nat
    BY <1>4, SnapshotAssumption
  <2> QED
    BY <2>1 DEF Grows
<1>9. ASSUME NEW i \in DOMAIN m PROVE m[i] \in Bb /\ TrueOf(R, m[i], r, E[r])
  <2>1. PICK l \in Snapshots(r) : ring[r][l].ino = i /\ m[i] = ring[r][l].bb
    BY <1>2, <1>3, LoadedIs
  <2>2. PICK a, b : a = meta[r].lsn /\ b = meta[r].head
    OBVIOUS
  <2>3. a \in Nat /\ b \in 0 .. RingSize /\ l \in a .. b - 1 /\ ring[r][l].kind = "bb"
    BY <1>2, <2>1, <2>2 DEF Shape, Snapshots
  <2>4. l \in Lsns /\ l \in Nat /\ l < E[r] /\ l <= E[r] /\ E[r] \in 0 .. RingSize
    BY <1>4, <2>2, <2>3, SnapshotAssumption DEF Lsns
  <2>5. PICK bb : bb = m[i]
    OBVIOUS
  <2>6. bb \in Bb /\ TrueOf(R, bb, r, l)
    BY <1>2, <1>3, <2>1, <2>3, <2>4, <2>5 DEF OwnIntact
  <2>7. TrueOf(R, bb, r, E[r])
    BY <1>4, <1>8, <2>4, <2>6, TrueStays
  <2> QED
    BY <2>5, <2>6, <2>7
<1>10. Files(m)
  BY <1>2, <1>3, <1>9, LoadedIs DEF Files
<1>11. sound /\ meta[r].size > 0 => Reachable(R, E, m)
  <2> SUFFICES ASSUME sound, meta[r].size > 0 PROVE Reachable(R, E, m)
    OBVIOUS
  <2>1. ~ torn[r] /\ Reachable(R, E, saved[r])
    BY <1>2, <1>3 DEF Together
  <2>2. m = saved[r]
    BY <1>2, <1>3, <2>1, LoadedIsSaved
  <2> QED
    BY <2>1, <2>2
<1>12. Shape'
  <2>1. saved' = saved /\ torn' = torn
    BY <1>1 DEF history
  <2>2. \A q \in Ranks : meta'[q].head <= Ends'[q]
    BY <1>1, <1>2, <1>7 DEF Shape
  <2>3. \A q \in Ranks : Files(store'[q])
    BY <1>2, <1>6, <1>10 DEF Shape
  <2>4. /\ ring' = [q \in Ranks |-> [l \in Lsns |-> ring'[q][l]]]
        /\ meta' \in [Ranks -> [size : Nat, head : 0 .. RingSize, lsn : Nat]]
        /\ snap' \in [Ranks -> Nat] /\ todo' = [q \in Ranks |-> todo'[q]]
        /\ nwrites' \in [Ranks -> Nat]
        /\ saved' = [q \in Ranks |-> saved'[q]] /\ torn' \in [Ranks -> BOOLEAN]
        /\ \A q \in Ranks : Files(saved'[q])
    BY <1>1, <1>2, <2>1 DEF Shape
  <2> QED
    BY <1>5, <1>6, <2>2, <2>3, <2>4 DEF Shape
<1>13. ASSUME NEW q \in Ranks, pc'[q] \in InUse
       PROVE  /\ \A j \in DOMAIN store'[q] : TrueOf(ring', store'[q][j], q, Ends'[q])
              /\ sound => Reachable(ring', Ends', store'[q])
  <2>1. CASE q = r
    <3>1. store'[r] = m /\ meta[r].size > 0
      BY <1>6, <1>13, <2>1 DEF InUse
    <3> QED
      BY <1>1, <1>3, <1>7, <1>9, <1>11, <2>1, <3>1
  <2>2. CASE q # r
    <3>1. Grows(ring, Ends, ring') /\ Ends' \in [Ranks -> 0 .. RingSize]
          /\ \A p \in Ranks : Ends[p] <= Ends'[p]
      BY <1>1, <1>3, <1>4, <1>7, <1>8
    <3> QED
      BY <1>6, <1>13, <2>2, <3>1, StoreStays
  <2> QED
    BY <2>1, <2>2
<1>14. Saving'
  <2> SUFFICES ASSUME NEW q \in Ranks, pc'[q] = "save"
               PROVE  Holds(ring', q, snap'[q], head'[q], store'[q], todo'[q])
    BY DEF Saving
  <2>1. q # r
    BY <1>6
  <2>2. Saving
    BY DEF IInv
  <2> QED
    BY <1>1, <1>5, <1>6, <2>1, <2>2 DEF Saving
<1>15. \A q \in Ranks, l \in Lsns : ~ (Ends[q] <= l /\ l < Ends'[q])
  <2>1. \A q \in Ranks : E[q] \in Nat
    BY <1>4, SnapshotAssumption
  <2> QED
    BY <1>3, <1>7, <2>1, SnapshotAssumption DEF Lsns
<1>16. Grows(ring, Ends, ring') /\ \A q \in Ranks : Ends[q] <= Ends'[q]
  BY <1>1, <1>3, <1>7, <1>8
<1> QED
  BY <1>1, <1>12, <1>13, <1>14, <1>15, <1>16, GrowingKeeps

-----------------------------------------------------------------------------
(* The theorems.                                                           *)

LEMMA StepIInv == IInv /\ [Next]_vars => IInv'
<1> SUFFICES ASSUME IInv, [Next]_vars PROVE IInv'
  OBVIOUS
<1>1. ASSUME NEW r \in Ranks, NEW i \in Inos, Pwrite(r, i) \/ SaveBb(r, i) PROVE IInv'
  BY <1>1, PwriteStep, SaveBbStep
<1>2. ASSUME NEW r \in Ranks, SaveBegins(r) \/ SaveThrows(r) \/ SaveMetadata(r) \/ Load(r) PROVE IInv'
  BY <1>2, SaveBeginsStep, SaveThrowsStep, SaveMetadataStep, LoadStep
<1>3. ASSUME NEW i \in Inos, Open(i) PROVE IInv'
  BY <1>3, OpenStep
<1>4. CASE Crash
  BY <1>4, CrashStep
<1>5. CASE UNCHANGED vars
  <2>1. Ends' = Ends
    BY <1>5 DEF Ends, vars
  <2>2. /\ ring' = ring /\ meta' = meta /\ head' = head /\ store' = store /\ pc' = pc /\ snap' = snap
        /\ todo' = todo /\ nwrites' = nwrites /\ saved' = saved /\ torn' = torn /\ sound' = sound
    BY <1>5 DEF vars
  <2> QED
    BY <2>1, <2>2 DEF IInv, Shape, OwnIntact, Saving, SavedIsThere, Together
<1> QED
  BY <1>1, <1>2, <1>3, <1>4, <1>5 DEF Next

LEMMA IInvAlways == Spec => []IInv
<1> QED
  BY InitIInv, StepIInv, PTL DEF Spec

\* For any number of ranks, files, writes, saves, crashes and torn records: what
\* a rank's indices say of its own ring is there, before and after any crash, and
\* what they say of the rings of others is there if at each crash the snapshots
\* fitted together (bb_store::save and bb_store::load of bb.hpp).
THEOREM NothingOverwritten == Spec => []BytesIntact
<1>1. IInv => BytesIntact
  <2> SUFFICES ASSUME IInv, NEW r \in Ranks, pc[r] \in InUse,
                      NEW p \in Pointers(store[r]), p[1] = r \/ sound
               PROVE  There(ring, p)
    BY DEF BytesIntact, InUse, Intact, There
  <2>1. PICK i \in DOMAIN store[r] : p \in PointersOf(store[r][i])
    BY DEF Pointers, PointersOf
  <2>2. TrueOf(ring, store[r][i], r, Ends[r]) /\ (sound => Reachable(ring, Ends, store[r]))
    BY DEF IInv, OwnIntact, Together
  <2> QED
    BY <2>1, <2>2 DEF TrueOf, Reachable
<1> QED
  BY <1>1, IInvAlways, PTL

\* A load of a rank whose metadata no crash has torn gives back, file by file and
\* index by index, what the last save that was completed has saved, whatever the
\* rank did since (bb_store::save and bb_store::load of bb.hpp).
THEOREM LoadsRestore == Spec => LoadRestores
<1>1. ASSUME IInv, NEW r \in Ranks, Load(r), ~ torn[r], meta[r].size > 0
      PROVE  pc'[r] = "idle" /\ store'[r] = saved[r]
  <2>1. Shape /\ SavedIsThere
    BY <1>1 DEF IInv
  <2>2. Snapshots(r) = meta[r].lsn .. meta[r].head - 1 /\ Loaded(r) = saved[r]
    BY <1>1, <2>1, LoadedIsSaved
  <2>3. store' = [store EXCEPT ![r] = Loaded(r)] /\ pc' = [pc EXCEPT ![r] = "idle"]
    BY <1>1, <2>2 DEF Load
  <2> QED
    BY <2>1, <2>2, <2>3 DEF Shape
<1>2. IInv => [\A r \in Ranks :
                  Load(r) /\ ~ torn[r] /\ meta[r].size > 0 =>
                      pc'[r] = "idle" /\ store'[r] = saved[r]]_vars
  BY <1>1
<1> QED
  BY <1>2, IInvAlways, PTL DEF LoadRestores

-----------------------------------------------------------------------------
(* What is written durably stays, for a block of any size at any place in  *)
(* the memory of its node.  The cache agrees with what is promised, and    *)
(* what the caller has flushed is on its way to the memory.                *)

Own == disp .. disp + BlockSize - 1

PmemShape ==
    /\ cache = [a \in Addresses |-> cache[a]]
    /\ media = [a \in Addresses |-> media[a]]
    /\ promised = [o \in BlockOffsets |-> promised[o]]

\* A write that has not returned goes to this block only.
WritingOwn ==
    \/ writing.flags = NoWrite
    \/ writing.flags \in {Plain, NONTEMPORAL, NOFLUSH} /\ writing.to \subseteq Own

FlushedPending == \A o \in flushed \cap BlockOffsets : disp + o \in pending

Promised ==
    \A o \in BlockOffsets : promised[o] # Unpromised =>
        media[disp + o] = promised[o] /\ cache[disp + o] = promised[o]

OthersUntouched == \A a \in Addresses \ Own : cache[a] = 1 /\ media[a] = 1

PmemInv == PmemShape /\ WritingOwn /\ FlushedPending /\ Promised /\ OthersUntouched

LEMMA OwnAddresses ==
    /\ disp \in Nat /\ BlockSize \in Nat \ {0} /\ Own \subseteq Addresses
    /\ \A o \in BlockOffsets : o \in Nat /\ disp + o \in Own
    /\ \A a \in Own : a \in Nat /\ a - disp \in BlockOffsets /\ disp + (a - disp) = a
<1>1. PICK d : d = disp
  OBVIOUS
<1>2. BlockSize \in Nat \ {0} /\ IntraRank \in Nat
  BY PmemAssumption
<1>3. d \in Nat /\ (IntraRank + 2) * BlockSize = d + 2 * BlockSize
  <2>1. IntraRank * BlockSize \in Nat
    BY <1>2
  <2>2. (IntraRank + 2) * BlockSize = IntraRank * BlockSize + 2 * BlockSize
    BY <1>2
  <2> QED
    BY <1>1, <2>1, <2>2 DEF disp
<1>4. Own = d .. d + BlockSize - 1 /\ Addresses = 0 .. (d + 2 * BlockSize) - 1
  BY <1>1, <1>3 DEF Own, Addresses
<1>5. Own \subseteq Addresses
  BY <1>2, <1>3, <1>4
<1>6. \A o \in BlockOffsets : o \in Nat /\ d + o \in Own
  BY <1>2, <1>3, <1>4 DEF BlockOffsets
<1>7. \A a \in Own : a \in Nat /\ a - d \in BlockOffsets /\ d + (a - d) = a
  BY <1>2, <1>3, <1>4 DEF BlockOffsets
<1> QED
  BY <1>1, <1>2, <1>3, <1>5, <1>6, <1>7

LEMMA InitPmemInv == PmemInit => PmemInv
<1> SUFFICES ASSUME PmemInit PROVE PmemInv
  OBVIOUS
<1>1. /\ cache = [a \in Addresses |-> 1] /\ media = cache
      /\ writing.flags = NoWrite /\ flushed = {}
      /\ promised = [o \in BlockOffsets |-> Unpromised]
  BY DEF PmemInit, PmemIdle
<1>2. PmemShape
  BY <1>1 DEF PmemShape
<1>3. WritingOwn /\ FlushedPending /\ Promised /\ OthersUntouched
  BY <1>1 DEF WritingOwn, FlushedPending, Promised, OthersUntouched
<1> QED
  BY <1>2, <1>3 DEF PmemInv

\* A write of some bytes of the block.
LEMMA StoreInv ==
    ASSUME PmemInv, NEW content, DOMAIN content \subseteq Own, NEW flags \in {Plain, NONTEMPORAL, NOFLUSH},
           Store(content, flags)
    PROVE  PmemInv'
<1>1. PICK A, O : A = DOMAIN content /\ O = {a - disp : a \in A}
  OBVIOUS
<1>2. /\ cache' = [a \in Addresses |-> IF a \in A THEN content[a] ELSE cache[a]]
      /\ pending' = (IF flags = NONTEMPORAL THEN pending \cup A ELSE pending \ A)
      /\ writing' = [flags |-> flags, to |-> A]
      /\ flushed' = flushed \ O
      /\ promised' = [o \in BlockOffsets |-> IF o \in O THEN Unpromised ELSE promised[o]]
      /\ media' = media
  BY <1>1 DEF Store
<1>3. PmemShape'
  BY <1>2 DEF PmemInv, PmemShape
<1>4. WritingOwn'
  BY <1>1, <1>2 DEF WritingOwn
<1>5. \A o \in BlockOffsets \ O : disp + o \in Addresses \ A
  <2> SUFFICES ASSUME NEW o \in BlockOffsets, disp + o \in A PROVE o \in O
    BY OwnAddresses
  <2>1. disp \in Int /\ o \in Int
    BY OwnAddresses
  <2>2. o = (disp + o) - disp
    BY <2>1
  <2> QED
    BY <1>1, <2>2
<1>6. FlushedPending'
  BY <1>2, <1>5 DEF PmemInv, FlushedPending
<1>7. Promised'
  BY <1>2, <1>5 DEF PmemInv, Promised
<1>8. OthersUntouched'
  BY <1>1, <1>2 DEF PmemInv, OthersUntouched
<1> QED
  BY <1>3, <1>4, <1>6, <1>7, <1>8 DEF PmemInv

\* The memory has what was pending and the addresses of T; the offsets of D are
\* durable.
LEMMA DurableInv ==
    ASSUME PmemInv, NEW T, NEW D, \A o \in D \cap BlockOffsets : disp + o \in pending \cup T,
           media' = Reached(pending \cup T), pending' = {}, flushed' = {},
           promised' = Promise(D), writing'.flags = NoWrite, UNCHANGED cache
    PROVE  PmemInv'
<1>1. PmemShape'
  BY DEF PmemInv, PmemShape, Reached, Promise
<1>2. WritingOwn' /\ FlushedPending'
  BY DEF WritingOwn, FlushedPending
<1>3. Promised'
  <2> SUFFICES ASSUME NEW o \in BlockOffsets, promised'[o] # Unpromised
               PROVE  media'[disp + o] = promised'[o] /\ cache[disp + o] = promised'[o]
    BY DEF Promised
  <2>1. disp + o \in Addresses
    BY OwnAddresses
  <2>2. media'[disp + o] = IF disp + o \in pending \cup T THEN cache[disp + o] ELSE media[disp + o]
    BY <2>1 DEF Reached
  <2>3. promised'[o] = IF o \in D THEN cache[disp + o] ELSE promised[o]
    BY DEF Promise
  <2> QED
    BY <2>2, <2>3 DEF PmemInv, Promised
<1>4. OthersUntouched'
  BY DEF PmemInv, OthersUntouched, Reached
<1> QED
  BY <1>1, <1>2, <1>3, <1>4 DEF PmemInv

LEMMA StepPmemInv == PmemInv /\ [PmemNext]_pmemVars => PmemInv'
<1> SUFFICES ASSUME PmemInv, [PmemNext]_pmemVars PROVE PmemInv'
  OBVIOUS
<1>1. ASSUME NEW ofs \in BlockOffsets, NEW size \in 1 .. BlockSize - ofs
      PROVE  /\ to_addr(ofs) .. to_addr(ofs) + size - 1 \subseteq Own
             /\ disp + ofs .. disp + ofs + size - 1 \subseteq Own
             /\ \A o \in OffsetsOf(ofs, size) : disp + o \in AddressesOf(ofs, size)
  <2>1. PICK d : d = disp
    OBVIOUS
  <2>2. d \in Nat /\ BlockSize \in Nat /\ ofs \in 0 .. BlockSize - 1 /\ ofs \in Nat /\ size \in Nat
    BY <2>1, OwnAddresses DEF BlockOffsets
  <2>3. d + ofs .. d + ofs + size - 1 \subseteq d .. d + BlockSize - 1
    BY <2>2
  <2>4. ASSUME NEW o \in OffsetsOf(ofs, size) PROVE disp + o \in AddressesOf(ofs, size)
    <3>1. o - ofs \in 0 .. size - 1 /\ ofs + (o - ofs) = o
      BY <2>2 DEF OffsetsOf
    <3> QED
      BY <3>1 DEF AddressesOf, to_addr
  <2> QED
    BY <2>1, <2>3, <2>4 DEF Own, to_addr
<1>2. ASSUME NEW ofs \in BlockOffsets, NEW size \in 1 .. BlockSize - ofs, NEW v \in Values,
             \/ pwrite(ofs, size, v) \/ pwrite_nt(ofs, size, v) \/ pwrite_noflush(ofs, size, v)
             \/ memset_nt(disp + ofs, v, size) \/ memset_noflush(disp + ofs, v, size)
      PROVE  PmemInv'
  <2>1. PICK c1, c2 : /\ c1 = [a \in to_addr(ofs) .. to_addr(ofs) + size - 1 |-> v]
                      /\ c2 = [a \in disp + ofs .. disp + ofs + size - 1 |-> v]
    OBVIOUS
  <2>2. DOMAIN c1 \subseteq Own /\ DOMAIN c2 \subseteq Own
    BY <1>1, <2>1
  <2>3. \/ Store(c1, Plain) \/ Store(c1, NONTEMPORAL) \/ Store(c1, NOFLUSH)
        \/ Store(c2, NONTEMPORAL) \/ Store(c2, NOFLUSH)
    BY <1>2, <2>1 DEF pwrite, pwrite_nt, pwrite_noflush, memset_nt, memset_noflush, memset,
                      memcpy_nt, memcpy_noflush, memcpy
  <2> QED
    BY <2>2, <2>3, StoreInv
<1>3. ASSUME NEW ofs \in BlockOffsets, NEW size \in 1 .. BlockSize - ofs, NEW src \in 0 .. BlockSize - size,
             \/ memmove_nt(disp + ofs, disp + src, size)
             \/ memmove_noflush(disp + ofs, disp + src, size)
      PROVE  PmemInv'
  <2>1. PICK c : c = [a \in disp + ofs .. disp + ofs + size - 1 |->
                         cache[disp + src + (a - (disp + ofs))]]
    OBVIOUS
  <2>2. DOMAIN c \subseteq Own
    BY <1>1, <2>1
  <2>3. Store(c, NONTEMPORAL) \/ Store(c, NOFLUSH)
    BY <1>3, <2>1 DEF memmove_nt, memmove_noflush, memmove
  <2> QED
    BY <2>2, <2>3, StoreInv
<1>4. ASSUME NEW ofs \in BlockOffsets, NEW size \in 1 .. BlockSize - ofs, flush(ofs, size) PROVE PmemInv'
  <2>1. FlushedPending'
    BY <1>1, <1>4 DEF flush, PmemInv, FlushedPending
  <2> QED
    BY <1>4, <2>1 DEF flush, PmemInv, PmemShape, WritingOwn, Promised, OthersUntouched
<1>5. ASSUME NEW ofs \in BlockOffsets, NEW size \in 1 .. BlockSize - ofs, persist(ofs, size) PROVE PmemInv'
  <2>1. PICK T, D : T = AddressesOf(ofs, size) /\ D = flushed \cup OffsetsOf(ofs, size)
    OBVIOUS
  <2>2. \A o \in D \cap BlockOffsets : disp + o \in pending \cup T
    BY <1>1, <2>1 DEF PmemInv, FlushedPending
  <2> QED
    BY <1>5, <2>1, <2>2, DurableInv DEF persist
<1>6. CASE WriteReturns
  <2>1. PICK T, D : T = writing.to /\ D = flushed \cup {a - disp : a \in writing.to}
    OBVIOUS
  <2>2. T \subseteq Own
    BY <1>6, <2>1 DEF WriteReturns, PmemInv, WritingOwn, Plain, NONTEMPORAL, NoWrite
  <2>3. \A o \in D \cap BlockOffsets : disp + o \in pending \cup T
    BY <2>1, <2>2, OwnAddresses DEF PmemInv, FlushedPending
  <2> QED
    BY <1>6, <2>1, <2>3, DurableInv DEF WriteReturns
<1>7. CASE WriteReturnsUnflushed
  BY <1>7 DEF WriteReturnsUnflushed, PmemInv, PmemShape, WritingOwn, FlushedPending, Promised, OthersUntouched
<1>8. CASE drain
  <2>1. pending = pending \cup {} /\ \A o \in flushed \cap BlockOffsets : disp + o \in pending \cup {}
    BY DEF PmemInv, FlushedPending
  <2> QED
    BY <1>8, <2>1, DurableInv DEF drain
<1>9. ASSUME NEW b \in Addresses, Evict(b) PROVE PmemInv'
  <2>1. media' = [a \in Addresses |-> IF a = b THEN cache[a] ELSE media[a]]
    BY <1>9 DEF Evict, Reached
  <2>2. Promised'
    <3> SUFFICES ASSUME NEW o \in BlockOffsets, promised[o] # Unpromised
                 PROVE  media'[disp + o] = promised[o] /\ cache[disp + o] = promised[o]
      BY <1>9 DEF Evict, Promised
    <3>1. disp + o \in Addresses
      BY OwnAddresses
    <3> QED
      BY <2>1, <3>1 DEF PmemInv, Promised
  <2> QED
    BY <1>9, <2>1, <2>2 DEF Evict, PmemInv, PmemShape, WritingOwn, FlushedPending, OthersUntouched
<1>10. CASE PowerFails
  BY <1>10 DEF PowerFails, PmemInv, PmemShape, WritingOwn, FlushedPending, Promised, OthersUntouched
<1>11. CASE UNCHANGED pmemVars
  BY <1>11 DEF pmemVars, PmemInv, PmemShape, WritingOwn, FlushedPending, Promised, OthersUntouched
<1> QED
  BY <1>2, <1>3, <1>4, <1>5, <1>6, <1>7, <1>8, <1>9, <1>10, <1>11 DEF PmemNext

\* For a block of any size and any displacement: what was written or flushed
\* durably is in the memory until it is written again, wherever the power fails,
\* and nothing goes to the blocks of other ranks (rpm.hpp:133-151).
THEOREM DurableAlways == PmemSpec => []DurableInOwnBlock
<1>1. PmemInv => DurableInOwnBlock
  BY DEF PmemInv, Promised, OthersUntouched, DurableInOwnBlock, Own
<1> QED
  BY <1>1, InitPmemInv, StepPmemInv, PTL DEF PmemSpec

=============================================================================
