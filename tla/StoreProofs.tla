------------------------------ MODULE StoreProofs ------------------------------
(***************************************************************************)
(* For any ranks, communicators, paths and inode numbers, and any number   *)
(* of calls: a file is created or cut by the root of an open only, the     *)
(* handlers of a rank for one file share an index, what a rank finds in a  *)
(* file was written to it, and the ranks agree on a file when nobody has   *)
(* anything more to exchange.  Calls keep what they are once they are      *)
(* made; a rank's handlers and indices are from calls it has made, and     *)
(* every root has opened its file.  The last part keeps a ledger of what   *)
(* the calls of all ranks have given them and who still owes an entry.     *)
(***************************************************************************)
EXTENDS Store, TLAPS, FiniteSetTheorems, SequenceTheorems, WellFoundedInduction

\* Lists of calls: sequences, of whatever.
Fields == {"op", "comm", "path", "flags", "file", "size", "offered", "of"}

IsList(s) == s \in Seq({s[k] : k \in DOMAIN s})

WellFormed(s) == IsList(s) /\ \A k \in 1 .. Len(s) : Fields \subseteq DOMAIN s[k]

Same(c, d) ==
    /\ c.op = d.op /\ c.comm = d.comm /\ c.flags = d.flags
    /\ c.file = d.file /\ c.of = d.of

\* Calls may be added to a list, and the others go on.
Continues(t, s) ==
    /\ WellFormed(t) /\ Len(s) <= Len(t)
    /\ \A k \in 1 .. Len(s) : Same(t[k], s[k])

-----------------------------------------------------------------------------

LEMMA ListDomain ==
    ASSUME NEW s, IsList(s)
    PROVE  Len(s) \in Nat /\ DOMAIN s = 1 .. Len(s)
  BY DEF IsList

LEMMA ListAppend ==
    ASSUME NEW s, IsList(s), NEW e
    PROVE  /\ IsList(Append(s, e))
           /\ Len(Append(s, e)) = Len(s) + 1
           /\ \A k \in 1 .. Len(s) : Append(s, e)[k] = s[k]
           /\ Append(s, e)[Len(s) + 1] = e
<1> DEFINE R == {s[k] : k \in DOMAIN s} \cup {e}
           t == Append(s, e)
<1>1. s \in Seq(R)
  BY SeqMonotonic DEF IsList
<1>2. /\ t \in Seq(R) /\ Len(t) = Len(s) + 1 /\ Len(s) \in Nat
      /\ \A k \in 1 .. Len(s) : t[k] = s[k]
      /\ t[Len(s) + 1] = e
  BY <1>1
<1>3. R = {t[k] : k \in DOMAIN t}
  BY <1>2, ListDomain
<1> QED
  BY <1>2, <1>3 DEF IsList

LEMMA ListUpdate ==
    ASSUME NEW s, IsList(s), NEW k, NEW e
    PROVE  /\ IsList([s EXCEPT ![k] = e])
           /\ Len([s EXCEPT ![k] = e]) = Len(s)
           /\ \A j \in 1 .. Len(s) : [s EXCEPT ![k] = e][j] = IF j = k THEN e ELSE s[j]
<1> DEFINE R == {s[j] : j \in DOMAIN s} \cup {e}
           t == [s EXCEPT ![k] = e]
           Q == {t[j] : j \in DOMAIN t}
<1>1. s \in Seq(R) /\ Len(s) \in Nat /\ DOMAIN s = 1 .. Len(s)
  BY SeqMonotonic, ListDomain DEF IsList
<1>2. t \in [1 .. Len(s) -> Q]
  BY <1>1
<1>3. t \in Seq(Q) /\ Len(t) = Len(s)
  <2>1. t \in Seq(Q)
    <3> HIDE DEF t, Q
    <3>1. t \in UNION {[1 .. n -> Q] : n \in Nat}
      BY <1>1, <1>2
    <3> QED
      BY <3>1, SeqDef, Zenon
  <2>2. Len(t) \in Nat /\ 1 .. Len(t) = 1 .. Len(s)
    BY <1>2, <2>1, LenProperties
  <2> QED
    BY <1>1, <2>1, <2>2
<1> QED
  BY <1>1, <1>3 DEF IsList

LEMMA WellFormedAppend ==
    ASSUME NEW s, WellFormed(s), NEW e, Fields \subseteq DOMAIN e
    PROVE  /\ Continues(Append(s, e), s)
           /\ Len(Append(s, e)) = Len(s) + 1 /\ Append(s, e)[Len(s) + 1] = e
<1>1. Len(s) \in Nat
  BY ListDomain DEF WellFormed
<1> QED
  BY <1>1, ListAppend DEF WellFormed, Continues, Same

LEMMA WellFormedUpdate ==
    ASSUME NEW s, WellFormed(s), NEW k, NEW x
    PROVE  /\ Continues([s EXCEPT ![k].offered = x], s)
           /\ Len([s EXCEPT ![k].offered = x]) = Len(s)
<1>1. Len(s) \in Nat
  BY ListDomain DEF WellFormed
<1> DEFINE t == [s EXCEPT ![k].offered = x]
<1>2. /\ IsList(t) /\ Len(t) = Len(s)
      /\ \A j \in 1 .. Len(s) : t[j] = IF j = k THEN [s[k] EXCEPT !.offered = x] ELSE s[j]
  BY ListUpdate DEF WellFormed
<1>3. \A j \in 1 .. Len(s) : Fields \subseteq DOMAIN t[j] /\ Same(t[j], s[j])
  BY <1>2 DEF WellFormed, Fields, Same
<1> QED
  BY <1>1, <1>2, <1>3 DEF WellFormed, Continues

LEMMA WellFormedSized ==
    ASSUME NEW s, WellFormed(s), NEW k, NEW x
    PROVE  /\ Continues([s EXCEPT ![k].size = x], s)
           /\ Len([s EXCEPT ![k].size = x]) = Len(s)
<1>1. Len(s) \in Nat
  BY ListDomain DEF WellFormed
<1> DEFINE t == [s EXCEPT ![k].size = x]
<1>2. /\ IsList(t) /\ Len(t) = Len(s)
      /\ \A j \in 1 .. Len(s) : t[j] = IF j = k THEN [s[k] EXCEPT !.size = x] ELSE s[j]
  BY ListUpdate DEF WellFormed
<1>3. \A j \in 1 .. Len(s) : Fields \subseteq DOMAIN t[j] /\ Same(t[j], s[j])
  BY <1>2 DEF WellFormed, Fields, Same
<1> QED
  BY <1>1, <1>2, <1>3 DEF WellFormed, Continues

LEMMA ContinuesFurther ==
    ASSUME NEW s, NEW t, NEW u, WellFormed(s), Continues(t, s), Continues(u, t)
    PROVE  Continues(u, s)
<1>1. Len(s) \in Nat /\ Len(t) \in Nat /\ Len(u) \in Nat
  BY ListDomain DEF WellFormed, Continues
<1> QED
  BY <1>1 DEF Continues, Same

LEMMA Keeping == ASSUME NEW s, WellFormed(s) PROVE Continues(s, s)
<1>1. Len(s) \in Nat
  BY ListDomain DEF WellFormed
<1> QED
  BY <1>1 DEF Continues, Same

-----------------------------------------------------------------------------
(* The invariant. *)

Shape ==
    /\ WellFormed(coll)
    /\ at \in [Ranks -> Nat] /\ \A r \in Ranks : at[r] <= Len(coll)
    /\ disk \in [Inos -> [life : Nat, size : Nat]]
    /\ DOMAIN handlers = Ranks /\ DOMAIN bbs = Ranks /\ DOMAIN store = Ranks

\* Handlers and bbs of a rank come from calls that it has made.
FromCalls ==
    \A r \in Ranks :
        /\ \A h \in DOMAIN handlers[r] : h \in 1 .. at[r] /\ {"bb", "fd"} \subseteq DOMAIN handlers[r][h]
        /\ \A b \in DOMAIN bbs[r] : b \in 1 .. at[r] /\ "ino" \in DOMAIN bbs[r][b]

\* The root of an open has been there, and opened the file.
RootsOpen ==
    /\ \A k \in 1 .. Len(coll) : coll[k].op = "open" =>
          RootOf(coll[k].comm) \in Ranks /\ k <= at[RootOf(coll[k].comm)]
    /\ \A r \in Ranks : \A h \in DOMAIN handlers[r] :
          r = RootOf(coll[h].comm) => handlers[r][h].fd # NoFile

\* While nobody unlinks, the bb of a handler is in bb_store_, is that of the
\* number of the file, and the only one.
IndexOfRank(r) ==
    /\ store[r] \subseteq DOMAIN bbs[r]
    /\ \A b, c \in store[r] : bbs[r][b].ino = bbs[r][c].ino => b = c
    /\ \A h \in DOMAIN handlers[r] :
          handlers[r][h].bb \in store[r] /\ bbs[r][handlers[r][h].bb].ino = coll[h].file[1]

OneIndex == ~ dropped => \A r \in Ranks : IndexOfRank(r)

IInv == Shape /\ FromCalls /\ RootsOpen /\ OneIndex

-----------------------------------------------------------------------------

LEMMA WithFacts ==
    ASSUME NEW f, NEW x, NEW v
    PROVE  /\ DOMAIN With(f, x, v) = DOMAIN f \cup {x}
           /\ With(f, x, v)[x] = v
           /\ \A y \in DOMAIN f : y # x => With(f, x, v)[y] = f[y]
  BY DEF With

LEMMA FileIsNotNone == ASSUME NEW i, NEW life PROVE File(i, life) # NoFile
  BY DEF File, NoFile

\* The next call of a rank is one that it has not made.
LEMMA NextCallIsNext ==
    ASSUME Shape, NEW r \in Ranks, Calls(r) # {}
    PROVE  /\ NextCall(r) \in 1 .. Len(coll) /\ at[r] < NextCall(r)
           /\ NextCall(r) \in Calls(r) /\ \A l \in Calls(r) : NextCall(r) <= l
<1>1. Calls(r) \subseteq Nat /\ \A k \in Calls(r) : k \in 1 .. Len(coll) /\ at[r] < k
  BY ListDomain DEF Calls, Shape, WellFormed
<1>2. PICK k \in Calls(r) : \A l \in Calls(r) : ~ (<<l, k>> \in OpToRel(<, Nat))
  BY <1>1, NatLessThanWellFounded, WFMin
<1>3. ASSUME NEW l \in Calls(r) PROVE k <= l
  <2>1. l \in Nat /\ k \in Nat
    BY <1>1
  <2>2. <<l, k>> \in Nat \X Nat /\ <<l, k>>[1] = l /\ <<l, k>>[2] = k
    BY <2>1
  <2> QED
    BY <1>2, <2>1, <2>2 DEF OpToRel
<1>4. NextCall(r) \in Calls(r) /\ \A l \in Calls(r) : NextCall(r) <= l
  BY <1>2, <1>3 DEF NextCall
<1> QED
  BY <1>1, <1>4

LEMMA OpenPathFacts ==
    ASSUME Shape, NEW p, NEW flags, NEW o \in OpenPath(p, flags)
    PROVE  /\ o.file # NoFile
           /\ o.disk \in [Inos -> [life : Nat, size : Nat]]
           /\ "creat" \notin flags /\ "trunc" \notin flags => o.disk = disk
<1>1. CASE dir[p] # NoIno
  <2>1. /\ o.file = Now(dir[p])
        /\ o.disk = IF "trunc" \in flags THEN [disk EXCEPT ![dir[p]].size = 0] ELSE disk
    BY <1>1 DEF OpenPath
  <2>2. o.file # NoFile
    BY <2>1, FileIsNotNone DEF Now
  <2>3. \A i : [disk EXCEPT ![i].size = 0] \in [Inos -> [life : Nat, size : Nat]]
    BY DEF Shape
  <2> QED
    BY <2>1, <2>2, <2>3 DEF Shape
<1>2. CASE dir[p] = NoIno
  <2>1. "creat" \in flags
    BY <1>2 DEF OpenPath
  <2>2. PICK i \in Inos : o = [file |-> File(i, disk[i].life + 1), dir |-> [dir EXCEPT ![p] = i],
                               disk |-> [disk EXCEPT ![i] = [life |-> @.life + 1, size |-> 0]]]
    BY <1>2, <2>1 DEF OpenPath
  <2>3. o.file # NoFile
    BY <2>2, FileIsNotNone
  <2>4. o.disk \in [Inos -> [life : Nat, size : Nat]]
    BY <2>2 DEF Shape
  <2> QED
    BY <2>1, <2>3, <2>4
<1> QED
  BY <1>1, <1>2

-----------------------------------------------------------------------------
(* Steps that make no handler. *)

CallsGo ==
    /\ Continues(coll', coll)
    /\ at' \in [Ranks -> Nat] /\ \A r \in Ranks : at[r] <= at'[r] /\ at'[r] <= Len(coll')
    /\ \A k \in 1 .. Len(coll') : k > Len(coll) /\ coll'[k].op = "open" =>
          RootOf(coll'[k].comm) \in Ranks /\ k <= at'[RootOf(coll'[k].comm)]

HandlersGo ==
    /\ DOMAIN handlers' = Ranks
    /\ \A r \in Ranks : \A h \in DOMAIN handlers'[r] :
          /\ h \in DOMAIN handlers[r] /\ {"bb", "fd"} \subseteq DOMAIN handlers'[r][h]
          /\ handlers'[r][h].bb = handlers[r][h].bb
          /\ handlers'[r][h].fd = handlers[r][h].fd \/ handlers'[r][h].fd # NoFile

IndicesGo ==
    /\ DOMAIN bbs' = Ranks /\ DOMAIN store' = Ranks
    /\ \A r \in Ranks : \A b \in DOMAIN bbs'[r] :
          /\ b \in DOMAIN bbs[r] /\ "ino" \in DOMAIN bbs'[r][b]
          /\ bbs'[r][b].ino = bbs[r][b].ino
    /\ ~ dropped' => ~ dropped /\ \A r \in Ranks : store'[r] = store[r] /\ store[r] \subseteq DOMAIN bbs'[r]

DisksGo == disk' \in [Inos -> [life : Nat, size : Nat]]

LEMMA NoneMade ==
    ASSUME IInv, CallsGo, HandlersGo, IndicesGo, DisksGo
    PROVE  IInv'
<1>1. /\ Len(coll) \in Nat /\ Len(coll') \in Nat /\ Len(coll) <= Len(coll')
      /\ at \in [Ranks -> Nat] /\ at' \in [Ranks -> Nat]
      /\ \A r \in Ranks : at[r] <= at'[r] /\ at[r] <= Len(coll) /\ at'[r] <= Len(coll')
  BY ListDomain DEF CallsGo, Continues, WellFormed, IInv, Shape
<1>2. Shape'
  BY <1>1 DEF CallsGo, HandlersGo, IndicesGo, DisksGo, Continues, Shape
<1>3. FromCalls'
  <2> SUFFICES ASSUME NEW r \in Ranks
               PROVE  /\ \A h \in DOMAIN handlers'[r] :
                            h \in 1 .. at'[r] /\ {"bb", "fd"} \subseteq DOMAIN handlers'[r][h]
                      /\ \A b \in DOMAIN bbs'[r] : b \in 1 .. at'[r] /\ "ino" \in DOMAIN bbs'[r][b]
    BY DEF FromCalls
  <2>1. 1 .. at[r] \subseteq 1 .. at'[r]
    BY <1>1
  <2>2. /\ \A h \in DOMAIN handlers[r] : h \in 1 .. at[r]
        /\ \A b \in DOMAIN bbs[r] : b \in 1 .. at[r]
    BY DEF IInv, FromCalls
  <2> QED
    BY <2>1, <2>2 DEF HandlersGo, IndicesGo
<1>4. \A k \in 1 .. Len(coll) : Same(coll'[k], coll[k])
  BY DEF CallsGo, Continues
<1>5. \A r \in Ranks : \A h \in DOMAIN handlers[r] : h \in 1 .. Len(coll)
  BY <1>1 DEF IInv, FromCalls
<1>6. RootsOpen'
  <2>1. ASSUME NEW k \in 1 .. Len(coll'), coll'[k].op = "open"
        PROVE  RootOf(coll'[k].comm) \in Ranks /\ k <= at'[RootOf(coll'[k].comm)]
    <3>1. CASE k > Len(coll)
      BY <2>1, <3>1 DEF CallsGo
    <3>2. CASE k \in 1 .. Len(coll)
      <4>1. coll[k].op = "open" /\ coll'[k].comm = coll[k].comm
        BY <1>4, <2>1, <3>2 DEF Same
      <4>2. RootOf(coll[k].comm) \in Ranks /\ k <= at[RootOf(coll[k].comm)]
        BY <3>2, <4>1 DEF IInv, RootsOpen
      <4> QED
        BY <1>1, <4>1, <4>2
    <3> QED
      BY <1>1, <3>1, <3>2
  <2>2. ASSUME NEW r \in Ranks, NEW h \in DOMAIN handlers'[r], r = RootOf(coll'[h].comm)
        PROVE  handlers'[r][h].fd # NoFile
    <3>1. h \in DOMAIN handlers[r] /\ coll'[h].comm = coll[h].comm
      BY <1>4, <1>5 DEF HandlersGo, Same
    <3>2. handlers[r][h].fd # NoFile
      BY <2>2, <3>1 DEF IInv, RootsOpen
    <3> QED
      BY <3>2 DEF HandlersGo
  <2> QED
    BY <2>1, <2>2 DEF RootsOpen
<1>7. OneIndex'
  <2> SUFFICES ASSUME ~ dropped', NEW r \in Ranks PROVE IndexOfRank(r)'
    BY DEF OneIndex
  <2>1. IndexOfRank(r) /\ store'[r] = store[r] /\ store[r] \subseteq DOMAIN bbs'[r]
    BY DEF IInv, OneIndex, IndicesGo
  <2>2. \A b \in store[r] : bbs'[r][b].ino = bbs[r][b].ino
    BY <2>1 DEF IndicesGo
  <2>3. \A h \in DOMAIN handlers'[r] :
            /\ h \in DOMAIN handlers[r] /\ handlers'[r][h].bb = handlers[r][h].bb
            /\ coll'[h].file = coll[h].file
    BY <1>4, <1>5 DEF HandlersGo, Same
  <2> QED
    BY <2>1, <2>2, <2>3 DEF IndexOfRank
<1> QED
  BY <1>2, <1>3, <1>6, <1>7 DEF IInv

LEMMA CallsStay == ASSUME IInv, UNCHANGED <<coll, at>> PROVE CallsGo
<1>1. at \in [Ranks -> Nat] /\ Len(coll) \in Nat
  BY ListDomain DEF IInv, Shape, WellFormed
<1> QED
  BY <1>1, Keeping DEF CallsGo, IInv, Shape

LEMMA HandlersStay == ASSUME IInv, UNCHANGED handlers PROVE HandlersGo
  BY DEF HandlersGo, IInv, Shape, FromCalls

LEMMA IndicesStay == ASSUME IInv, UNCHANGED <<bbs, store, dropped>> PROVE IndicesGo
  BY DEF IndicesGo, IInv, Shape, FromCalls, OneIndex, IndexOfRank

LEMMA DisksStay == ASSUME IInv, UNCHANGED disk PROVE DisksGo
  BY DEF DisksGo, IInv, Shape

\* A rank makes call k, which is among the calls already or follows them.
LEMMA CallMade ==
    ASSUME IInv, NEW r \in Ranks, NEW k \in 1 .. Len(coll'), at[r] < k,
           Continues(coll', coll), at' = [at EXCEPT ![r] = k],
           \A j \in 1 .. Len(coll') : j > Len(coll) =>
               j = k /\ (coll'[j].op = "open" => RootOf(coll'[j].comm) = r)
    PROVE  CallsGo
<1>1. at \in [Ranks -> Nat] /\ \A q \in Ranks : at[q] <= Len(coll)
  BY DEF IInv, Shape
<1>2. Len(coll) \in Nat /\ Len(coll') \in Nat /\ Len(coll) <= Len(coll')
  BY ListDomain DEF Continues, WellFormed, IInv, Shape
<1> QED
  BY <1>1, <1>2 DEF CallsGo

LEMMA OpenFailsStep ==
    ASSUME IInv, NEW r \in Ranks, NEW C, NEW p, OpenFails(r, C, p) PROVE IInv'
<1> DEFINE c == OpenCall(C, p, {}, NoFile, Failed)
<1>1. Fields \subseteq DOMAIN c /\ c.op = "open" /\ c.comm = C
  BY DEF OpenCall, Fields
<1>2. coll' = Append(coll, c) /\ at' = [at EXCEPT ![r] = Len(coll) + 1]
  BY DEF OpenFails
<1> HIDE DEF c
<1>3. /\ Continues(coll', coll) /\ Len(coll') = Len(coll) + 1 /\ coll'[Len(coll) + 1] = c
  BY <1>1, <1>2, WellFormedAppend DEF IInv, Shape
<1>4. Len(coll) \in Nat /\ at[r] \in Nat /\ at[r] <= Len(coll)
  BY ListDomain DEF IInv, Shape, WellFormed
<1>5. RootOf(C) = r
  BY DEF OpenFails
<1>6. /\ Len(coll) + 1 \in 1 .. Len(coll') /\ at[r] < Len(coll) + 1
      /\ \A j \in 1 .. Len(coll') : j > Len(coll) => j = Len(coll) + 1
  BY <1>3, <1>4
<1>7. coll'[Len(coll) + 1].op = "open" => RootOf(coll'[Len(coll) + 1].comm) = r
  BY <1>1, <1>3, <1>5
<1>8. CallsGo
  BY <1>2, <1>3, <1>6, <1>7, CallMade
<1> QED
  BY <1>8, NoneMade, HandlersStay, IndicesStay, DisksStay DEF OpenFails, history

\* The entry of a rank in an exchange.
LEMMA EnterSyncStep ==
    ASSUME IInv, NEW r \in Ranks, NEW k, NEW calls, Continues(calls, coll),
           k \in 1 .. Len(calls), at[r] < k, EnterSync(r, k, calls),
           \A j \in 1 .. Len(calls) : j > Len(coll) => j = k /\ calls[j].op = "sync",
           UNCHANGED <<dir, disk, bbs, store, handlers, history>>
    PROVE  IInv'
<1>1. PICK x : coll' = [calls EXCEPT ![k].offered = x]
  BY DEF EnterSync
<1>2. Continues(coll', calls) /\ Len(coll') = Len(calls)
  BY <1>1, WellFormedUpdate DEF Continues
<1>3. Continues(coll', coll)
  BY <1>2, ContinuesFurther DEF IInv, Shape
<1>4. \A j \in 1 .. Len(coll') : coll'[j].op = calls[j].op
  BY <1>2 DEF Continues, Same
<1>5. CallsGo
  BY <1>2, <1>3, <1>4, CallMade DEF EnterSync
<1> QED
  BY <1>5, NoneMade, HandlersStay, IndicesStay, DisksStay DEF history

LEMMA SyncStep == ASSUME IInv, NEW r \in Ranks, NEW h, Sync(r, h) PROVE IInv'
<1>1. h \in 1 .. Len(coll) /\ Len(coll) \in Nat /\ at[r] \in Nat /\ at[r] <= Len(coll)
  BY ListDomain DEF Sync, IInv, FromCalls, Shape, WellFormed
<1>2. Fields \subseteq DOMAIN SyncCall(h) /\ SyncCall(h).op = "sync"
  BY <1>1 DEF SyncCall, Fields, IInv, Shape, WellFormed
<1> DEFINE calls == Append(coll, SyncCall(h))
<1>3. Continues(calls, coll) /\ Len(calls) = Len(coll) + 1 /\ calls[Len(coll) + 1] = SyncCall(h)
  BY <1>2, WellFormedAppend DEF IInv, Shape
<1>4. EnterSync(r, Len(coll) + 1, calls) /\ UNCHANGED <<dir, disk, bbs, store, handlers, history>>
  BY DEF Sync
<1> HIDE DEF calls
<1> QED
  BY <1>1, <1>2, <1>3, <1>4, EnterSyncStep

LEMMA SyncOtherStep == ASSUME IInv, NEW r \in Ranks, SyncOther(r) PROVE IInv'
<1>1. NextCall(r) \in 1 .. Len(coll) /\ at[r] < NextCall(r) /\ Len(coll) \in Nat
  BY NextCallIsNext, ListDomain DEF SyncOther, IInv, Shape, WellFormed
<1>2. Continues(coll, coll)
  BY Keeping DEF IInv, Shape
<1> QED
  BY <1>1, <1>2, EnterSyncStep DEF SyncOther

LEMMA MergeStep == ASSUME IInv, NEW r \in Ranks, Merge(r) PROVE IInv'
<1> DEFINE b == handlers[r][HandlerOf(at[r])].bb
<1>1. PICK g, l : bbs' = [bbs EXCEPT ![r][b].global = g, ![r][b].local = l]
  BY DEF Merge
<1> HIDE DEF b
<1>2. IndicesGo
  <2>1. DOMAIN bbs' = Ranks /\ \A q \in Ranks : DOMAIN bbs'[q] = DOMAIN bbs[q]
    BY <1>1 DEF IInv, Shape
  <2>2. ASSUME NEW q \in Ranks, NEW c \in DOMAIN bbs[q]
        PROVE  "ino" \in DOMAIN bbs'[q][c] /\ bbs'[q][c].ino = bbs[q][c].ino
    <3>1. "ino" \in DOMAIN bbs[q][c]
      BY DEF IInv, FromCalls
    <3> QED
      BY <1>1, <3>1 DEF IInv, Shape
  <2> QED
    BY <2>1, <2>2 DEF IndicesGo, Merge, history, IInv, Shape, OneIndex, IndexOfRank
<1> QED
  BY <1>2, NoneMade, CallsStay, HandlersStay, DisksStay DEF Merge

LEMMA SizeLearnt ==
    ASSUME IInv, NEW r \in Ranks, NEW h, NEW size,
           handlers' = handlers \/ handlers' = [handlers EXCEPT ![r][h].size = size]
    PROVE  HandlersGo
<1>1. CASE handlers' = handlers
  BY <1>1, HandlersStay
<1>2. CASE handlers' = [handlers EXCEPT ![r][h].size = size]
  <2>1. DOMAIN handlers' = Ranks /\ \A q \in Ranks : DOMAIN handlers'[q] = DOMAIN handlers[q]
    BY <1>2 DEF IInv, Shape
  <2>2. ASSUME NEW q \in Ranks, NEW g \in DOMAIN handlers[q]
        PROVE  /\ {"bb", "fd"} \subseteq DOMAIN handlers'[q][g]
               /\ handlers'[q][g].bb = handlers[q][g].bb /\ handlers'[q][g].fd = handlers[q][g].fd
    <3>1. {"bb", "fd"} \subseteq DOMAIN handlers[q][g]
      BY DEF IInv, FromCalls
    <3> QED
      BY <1>2, <3>1 DEF IInv, Shape
  <2> QED
    BY <2>1, <2>2 DEF HandlersGo
<1> QED
  BY <1>1, <1>2

LEMMA SyncSizeRootStep == ASSUME IInv, NEW r \in Ranks, SyncSizeRoot(r) PROVE IInv'
<1>1. PICK size : /\ coll' = [coll EXCEPT ![at[r]].size = size]
                  /\ handlers' = IF size = Failed THEN handlers
                                 ELSE [handlers EXCEPT ![r][coll[at[r]].of].size = size]
  BY DEF SyncSizeRoot
<1>2. HandlersGo
  BY <1>1, SizeLearnt
<1>3. Continues(coll', coll) /\ Len(coll') = Len(coll)
  <2>1. WellFormed(coll)
    BY DEF IInv, Shape
  <2> QED
    BY <1>1, <2>1, WellFormedSized
<1>4. CallsGo
  <2>1. at' = at
    BY DEF SyncSizeRoot
  <2>2. at \in [Ranks -> Nat] /\ \A q \in Ranks : at[q] <= Len(coll)
    BY DEF IInv, Shape
  <2>3. Len(coll) \in Nat
    BY ListDomain DEF IInv, Shape, WellFormed
  <2>4. at' \in [Ranks -> Nat] /\ \A q \in Ranks : at[q] <= at'[q] /\ at'[q] <= Len(coll')
    BY <1>3, <2>1, <2>2, <2>3
  <2>5. \A k \in 1 .. Len(coll') : ~ k > Len(coll)
    BY <1>3, <2>3
  <2> QED
    BY <1>3, <2>4, <2>5 DEF CallsGo
<1> QED
  BY <1>2, <1>4, NoneMade, IndicesStay, DisksStay DEF SyncSizeRoot, history

LEMMA SyncSizeStep == ASSUME IInv, NEW r \in Ranks, SyncSize(r) PROVE IInv'
<1>1. HandlersGo
  BY SizeLearnt DEF SyncSize
<1> QED
  BY <1>1, NoneMade, CallsStay, IndicesStay, DisksStay DEF SyncSize, history

LEMMA PwriteStep == ASSUME IInv, NEW r \in Ranks, NEW h, Pwrite(r, h) PROVE IInv'
<1>1. PICK b, l : bbs' = [bbs EXCEPT ![r][b].local = l]
  BY DEF Pwrite
<1>2. DOMAIN bbs' = Ranks /\ \A q \in Ranks : DOMAIN bbs'[q] = DOMAIN bbs[q]
  BY <1>1 DEF IInv, Shape
<1>3. ASSUME NEW q \in Ranks, NEW c \in DOMAIN bbs[q]
      PROVE  "ino" \in DOMAIN bbs'[q][c] /\ bbs'[q][c].ino = bbs[q][c].ino
  <2>1. "ino" \in DOMAIN bbs[q][c]
    BY DEF IInv, FromCalls
  <2> QED
    BY <1>1, <2>1 DEF IInv, Shape
<1>4. IndicesGo
  BY <1>2, <1>3 DEF IndicesGo, Pwrite, history, IInv, Shape, OneIndex, IndexOfRank
<1> QED
  BY <1>4, NoneMade, CallsStay, HandlersStay, DisksStay DEF Pwrite

LEMMA OpenDeferredStep ==
    ASSUME IInv, NEW r \in Ranks, NEW h, OpenDeferred(r, h) PROVE IInv'
<1>1. PICK o \in OpenPath(coll[h].path, RankFlags(r, h)) :
          handlers' = [handlers EXCEPT ![r][h].fd = o.file] /\ disk' = o.disk
  BY DEF OpenDeferred
<1>2. o.file # NoFile /\ DisksGo
  BY <1>1, OpenPathFacts DEF DisksGo, IInv
<1>3. DOMAIN handlers' = Ranks /\ \A q \in Ranks : DOMAIN handlers'[q] = DOMAIN handlers[q]
  BY <1>1 DEF IInv, Shape
<1>4. ASSUME NEW q \in Ranks, NEW g \in DOMAIN handlers[q]
      PROVE  /\ {"bb", "fd"} \subseteq DOMAIN handlers'[q][g]
             /\ handlers'[q][g].bb = handlers[q][g].bb
             /\ handlers'[q][g].fd = handlers[q][g].fd \/ handlers'[q][g].fd = o.file
  <2>1. {"bb", "fd"} \subseteq DOMAIN handlers[q][g]
    BY DEF IInv, FromCalls
  <2> QED
    BY <1>1, <2>1 DEF IInv, Shape
<1>5. HandlersGo
  BY <1>2, <1>3, <1>4 DEF HandlersGo
<1> QED
  BY <1>2, <1>5, NoneMade, CallsStay, IndicesStay DEF OpenDeferred, history

\* What is used is not released.
LEMMA Released ==
    ASSUME IInv, NEW r \in Ranks, Release(r)
    PROVE  /\ DOMAIN bbs' = Ranks
           /\ \A q \in Ranks : DOMAIN bbs'[q] \subseteq DOMAIN bbs[q]
           /\ \A q \in Ranks : \A b \in DOMAIN bbs'[q] : bbs'[q][b] = bbs[q][b]
           /\ \A q \in Ranks : store'[q] \cap DOMAIN bbs[q] \subseteq DOMAIN bbs'[q]
  BY DEF Release, IInv, Shape

LEMMA CloseStep == ASSUME IInv, NEW r \in Ranks, NEW h, Close(r, h) PROVE IInv'
<1>1. HandlersGo
  BY DEF Close, HandlersGo, IInv, Shape, FromCalls
<1>2. IndicesGo
  <2>1. Release(r) /\ store' = store /\ dropped' = dropped
    BY DEF Close, history
  <2> QED
    BY <2>1, Released DEF IndicesGo, IInv, Shape, FromCalls, OneIndex, IndexOfRank
<1> QED
  BY <1>1, <1>2, NoneMade, CallsStay, DisksStay DEF Close

LEMMA UnlinkStep == ASSUME IInv, NEW r \in Ranks, NEW p, Unlink(r, p) PROVE IInv'
<1>1. Release(r) /\ dropped' = TRUE /\ DOMAIN store' = Ranks
  BY DEF Unlink, IInv, Shape
<1>2. IndicesGo
  BY <1>1, Released DEF IndicesGo, IInv, FromCalls
<1> QED
  BY <1>2, NoneMade, CallsStay, HandlersStay, DisksStay DEF Unlink

LEMMA RemoveStep == ASSUME IInv, NEW p, Remove(p) PROVE IInv'
  BY NoneMade, CallsStay, HandlersStay, IndicesStay, DisksStay DEF Remove

LEMMA StutterStep == ASSUME IInv, UNCHANGED vars PROVE IInv'
  BY NoneMade, CallsStay, HandlersStay, IndicesStay, DisksStay DEF vars, history

-----------------------------------------------------------------------------
(* Steps that make a handler. *)

LEMMA AttachStep ==
    ASSUME IInv, NEW r \in Ranks, NEW calls, NEW k \in 1 .. Len(calls), NEW fd,
           Continues(calls, coll), at[r] < k, Attach(r, k, calls, fd),
           at' = [at EXCEPT ![r] = k], dropped' = dropped, DisksGo,
           fd # NoFile \/ r # RootOf(calls[k].comm),
           \A j \in 1 .. Len(calls) : j > Len(coll) =>
               j = k /\ (calls[j].op = "open" => RootOf(calls[j].comm) = r)
    PROVE  IInv'
<1> DEFINE i == calls[k].file[1]
           b == NextBb(r, i, k)
           handler == [bb |-> b, fd |-> fd, size |-> calls[k].size]
<1>1. /\ bbs' = IF Indexed(r, i) = {} THEN [bbs EXCEPT ![r] = With(@, b, NewBb(i))] ELSE bbs
      /\ store' = [store EXCEPT ![r] = @ \cup {b}]
      /\ handlers' = [handlers EXCEPT ![r] = With(@, k, handler)]
  BY DEF Attach
<1>2. PICK x : coll' = [calls EXCEPT ![k].offered = x]
  BY DEF Attach, Gather
<1> HIDE DEF handler, b, i
<1>3. Continues(coll', calls) /\ Len(coll') = Len(calls)
  BY <1>2, WellFormedUpdate DEF Continues
<1>4. Continues(coll', coll)
  BY <1>3, ContinuesFurther DEF IInv, Shape
<1>5. \A j \in 1 .. Len(calls) : Same(coll'[j], calls[j])
  BY <1>3 DEF Continues
<1>6. \A j \in 1 .. Len(coll') : j > Len(coll) =>
          j = k /\ (coll'[j].op = "open" => RootOf(coll'[j].comm) = r)
  BY <1>3, <1>5 DEF Same
<1>7. CallsGo
  BY <1>3, <1>4, <1>6, CallMade
<1>8. /\ Len(coll) \in Nat /\ Len(coll') \in Nat /\ at' \in [Ranks -> Nat] /\ at \in [Ranks -> Nat]
      /\ \A q \in Ranks : at[q] <= at'[q] /\ at'[q] <= Len(coll')
      /\ at'[r] = k
  BY <1>7, ListDomain DEF CallsGo, Continues, WellFormed, IInv, Shape
\* The handlers and bbs of the rank, and those of the others.
<1>9. /\ DOMAIN handlers' = Ranks /\ DOMAIN bbs' = Ranks /\ DOMAIN store' = Ranks
      /\ \A q \in Ranks : q # r =>
            handlers'[q] = handlers[q] /\ bbs'[q] = bbs[q] /\ store'[q] = store[q]
      /\ store'[r] = store[r] \cup {b}
      /\ handlers'[r] = With(handlers[r], k, handler)
      /\ bbs'[r] = IF Indexed(r, i) = {} THEN With(bbs[r], b, NewBb(i)) ELSE bbs[r]
  BY <1>1 DEF IInv, Shape
<1>10. /\ \A h \in DOMAIN handlers[r] : h \in 1 .. at[r] /\ h # k
       /\ \A c \in DOMAIN bbs[r] : c \in 1 .. at[r] /\ c # k
  BY <1>8 DEF IInv, FromCalls
<1>11. /\ DOMAIN handlers'[r] = DOMAIN handlers[r] \cup {k} /\ handlers'[r][k] = handler
       /\ \A h \in DOMAIN handlers[r] : handlers'[r][h] = handlers[r][h]
  BY <1>9, <1>10 DEF With
<1>12. handler.bb = b /\ handler.fd = fd /\ {"bb", "fd"} \subseteq DOMAIN handler
  BY DEF handler
<1>13. NewBb(i).ino = i /\ "ino" \in DOMAIN NewBb(i)
  BY DEF NewBb
<1>14. /\ coll'[k].file = calls[k].file /\ coll'[k].comm = calls[k].comm
       /\ \A h \in DOMAIN handlers[r] : coll'[h].file = coll[h].file /\ coll'[h].comm = coll[h].comm
  <2>1. \A h \in DOMAIN handlers[r] : h \in 1 .. Len(coll)
    BY <1>8, <1>10 DEF IInv, Shape
  <2> QED
    BY <1>4, <1>5, <2>1 DEF Continues, Same
<1>15. ASSUME Indexed(r, i) = {}
       PROVE  /\ \A c \in DOMAIN bbs'[r] : c \in 1 .. at'[r] /\ "ino" \in DOMAIN bbs'[r][c]
              /\ ~ dropped => IndexOfRank(r)'
  <2>1. b = k
    BY <1>15 DEF b, NextBb
  <2>2. /\ DOMAIN bbs'[r] = DOMAIN bbs[r] \cup {k} /\ bbs'[r][k] = NewBb(i)
        /\ \A c \in DOMAIN bbs[r] : bbs'[r][c] = bbs[r][c]
    BY <1>9, <1>10, <1>15, <2>1 DEF With
  <2>3. \A c \in DOMAIN bbs'[r] : c \in 1 .. at'[r] /\ "ino" \in DOMAIN bbs'[r][c]
    BY <1>8, <1>10, <1>13, <2>2 DEF IInv, FromCalls
  <2>4. ASSUME ~ dropped PROVE IndexOfRank(r)'
    <3>1. IndexOfRank(r)
      BY <2>4 DEF IInv, OneIndex
    <3>2. \A c \in store[r] : bbs[r][c].ino # i
      BY <1>15 DEF Indexed
    <3>3. store'[r] = store[r] \cup {k} /\ handlers'[r][k].bb = k /\ coll'[k].file[1] = i
      BY <1>9, <1>11, <1>12, <1>14, <2>1 DEF i
    <3>4. bbs'[r][k].ino = i /\ \A c \in DOMAIN bbs[r] : bbs'[r][c].ino = bbs[r][c].ino
      BY <1>13, <2>2
    <3>5. \A h \in DOMAIN handlers[r] :
             coll'[h].file = coll[h].file /\ handlers'[r][h].bb = handlers[r][h].bb
      BY <1>11, <1>14
    <3> QED
      BY <1>11, <2>2, <3>1, <3>2, <3>3, <3>4, <3>5 DEF IndexOfRank
  <2> QED
    BY <2>3, <2>4
<1>16. ASSUME Indexed(r, i) # {}
       PROVE  /\ \A c \in DOMAIN bbs'[r] : c \in 1 .. at'[r] /\ "ino" \in DOMAIN bbs'[r][c]
              /\ ~ dropped => IndexOfRank(r)'
  <2>1. b \in store[r] /\ bbs[r][b].ino = i
    BY <1>16 DEF b, NextBb, Indexed
  <2>2. bbs'[r] = bbs[r] /\ store'[r] = store[r]
    BY <1>9, <1>16, <2>1
  <2>3. \A c \in DOMAIN bbs'[r] : c \in 1 .. at'[r] /\ "ino" \in DOMAIN bbs'[r][c]
    BY <1>8, <1>10, <2>2 DEF IInv, FromCalls
  <2>4. ASSUME ~ dropped PROVE IndexOfRank(r)'
    <3>1. IndexOfRank(r)
      BY <2>4 DEF IInv, OneIndex
    <3> QED
      BY <1>11, <1>12, <1>14, <2>1, <2>2, <3>1 DEF IndexOfRank, i
  <2> QED
    BY <2>3, <2>4
<1>17. /\ \A c \in DOMAIN bbs'[r] : c \in 1 .. at'[r] /\ "ino" \in DOMAIN bbs'[r][c]
       /\ ~ dropped => IndexOfRank(r)'
  BY <1>15, <1>16
<1>18. Shape'
  BY <1>4, <1>8, <1>9 DEF DisksGo, Continues, Shape
<1>19. FromCalls'
  <2> SUFFICES ASSUME NEW q \in Ranks
               PROVE  /\ \A h \in DOMAIN handlers'[q] :
                            h \in 1 .. at'[q] /\ {"bb", "fd"} \subseteq DOMAIN handlers'[q][h]
                      /\ \A c \in DOMAIN bbs'[q] : c \in 1 .. at'[q] /\ "ino" \in DOMAIN bbs'[q][c]
    BY DEF FromCalls
  <2>1. CASE q = r
    BY <1>8, <1>10, <1>11, <1>12, <1>17, <2>1 DEF IInv, FromCalls
  <2>2. CASE q # r
    BY <1>8, <1>9, <2>2 DEF IInv, FromCalls
  <2> QED
    BY <2>1, <2>2
<1>20. \A q \in Ranks : \A h \in DOMAIN handlers[q] :
           coll'[h].comm = coll[h].comm /\ coll'[h].file = coll[h].file
  <2>1. \A q \in Ranks : \A h \in DOMAIN handlers[q] : h \in 1 .. Len(coll)
    BY <1>8 DEF IInv, Shape, FromCalls
  <2> QED
    BY <1>4, <2>1 DEF Continues, Same
<1>21. RootsOpen'
  <2>1. ASSUME NEW j \in 1 .. Len(coll'), coll'[j].op = "open"
        PROVE  RootOf(coll'[j].comm) \in Ranks /\ j <= at'[RootOf(coll'[j].comm)]
    <3>1. CASE j > Len(coll)
      BY <1>7, <2>1, <3>1 DEF CallsGo
    <3>2. CASE j \in 1 .. Len(coll)
      <4>1. coll[j].op = "open" /\ coll'[j].comm = coll[j].comm
        BY <1>4, <2>1, <3>2 DEF Continues, Same
      <4>2. RootOf(coll[j].comm) \in Ranks /\ j <= at[RootOf(coll[j].comm)]
        BY <3>2, <4>1 DEF IInv, RootsOpen
      <4> QED
        BY <1>8, <4>1, <4>2
    <3> QED
      BY <1>8, <3>1, <3>2
  <2>2. ASSUME NEW q \in Ranks, NEW h \in DOMAIN handlers'[q], q = RootOf(coll'[h].comm)
        PROVE  handlers'[q][h].fd # NoFile
    <3>1. CASE q = r /\ h = k
      BY <1>11, <1>12, <1>14, <2>2, <3>1
    <3>2. CASE h \in DOMAIN handlers[q]
      <4>1. handlers'[q][h] = handlers[q][h]
        BY <1>9, <1>11, <3>2
      <4> QED
        BY <1>20, <2>2, <3>2, <4>1 DEF IInv, RootsOpen
    <3> QED
      BY <1>9, <1>11, <3>1, <3>2
  <2> QED
    BY <2>1, <2>2 DEF RootsOpen
<1>22. OneIndex'
  <2> SUFFICES ASSUME ~ dropped, NEW q \in Ranks PROVE IndexOfRank(q)'
    BY DEF OneIndex
  <2>1. CASE q = r
    BY <1>17, <2>1
  <2>2. CASE q # r
    <3>1. IndexOfRank(q)
      BY DEF IInv, OneIndex
    <3> QED
      BY <1>9, <1>20, <2>2, <3>1 DEF IndexOfRank
  <2> QED
    BY <2>1, <2>2
<1> QED
  BY <1>18, <1>19, <1>21, <1>22 DEF IInv

LEMMA OpenStep ==
    ASSUME IInv, NEW r \in Ranks, NEW C, NEW p, NEW flags, Open(r, C, p, flags) PROVE IInv'
<1> DEFINE k == Len(coll) + 1
<1>1. PICK o \in OpenPath(p, flags) :
          /\ disk' = o.disk
          /\ Attach(r, k, Append(coll, OpenCall(C, p, flags, o.file, o.disk[o.file[1]].size)), o.file)
  BY DEF Open
<1> DEFINE c == OpenCall(C, p, flags, o.file, o.disk[o.file[1]].size)
           calls == Append(coll, c)
<1>2. Fields \subseteq DOMAIN c /\ c.op = "open" /\ c.comm = C
  BY DEF OpenCall, Fields
<1>3. o.file # NoFile /\ DisksGo
  BY <1>1, OpenPathFacts DEF DisksGo, IInv
<1> HIDE DEF c
<1>4. Continues(calls, coll) /\ Len(calls) = k /\ calls[k] = c
  BY <1>2, WellFormedAppend DEF IInv, Shape
<1>5. Attach(r, k, calls, o.file)
  BY <1>1 DEF c
<1> HIDE DEF calls
<1>6. Len(coll) \in Nat /\ at[r] \in Nat /\ at[r] <= Len(coll)
  BY ListDomain DEF IInv, Shape, WellFormed
<1>7. k \in 1 .. Len(calls) /\ at[r] < k /\ \A j \in 1 .. Len(calls) : j > Len(coll) => j = k
  BY <1>4, <1>6
<1>8. RootOf(calls[k].comm) = r
  BY <1>2, <1>4 DEF Open
<1>9. at' = [at EXCEPT ![r] = k] /\ dropped' = dropped
  BY DEF Open
<1> QED
  BY <1>3, <1>4, <1>5, <1>7, <1>8, <1>9, AttachStep

LEMMA OpenOtherStep == ASSUME IInv, NEW r \in Ranks, OpenOther(r) PROVE IInv'
<1> DEFINE k == NextCall(r)
<1>1. k \in 1 .. Len(coll) /\ at[r] < k /\ Len(coll) \in Nat
  BY NextCallIsNext, ListDomain DEF OpenOther, IInv, Shape, WellFormed
<1>2. coll[k].op = "open" /\ at' = [at EXCEPT ![r] = k]
  BY DEF OpenOther
<1>3. Continues(coll, coll)
  BY Keeping DEF IInv, Shape
<1>4. RootOf(coll[k].comm) # r
  <2>1. RootOf(coll[k].comm) \in Ranks /\ k <= at[RootOf(coll[k].comm)]
    BY <1>1, <1>2 DEF IInv, RootsOpen
  <2>2. at[r] \in Nat
    BY DEF IInv, Shape
  <2> QED
    BY <1>1, <2>1, <2>2
<1>5. DisksGo /\ dropped' = dropped
  BY DisksStay DEF OpenOther
<1>6. CASE coll[k].size = Failed
  <2>1. UNCHANGED <<bbs, store, handlers, coll>>
    BY <1>6 DEF OpenOther
  <2>2. /\ k \in 1 .. Len(coll') /\ Continues(coll', coll)
        /\ \A j \in 1 .. Len(coll') : ~ (j > Len(coll))
    BY <1>1, <1>3, <2>1
  <2> HIDE DEF k
  <2>3. CallsGo
    BY <1>1, <1>2, <2>2, CallMade
  <2> QED
    BY <1>5, <2>1, <2>3, NoneMade, HandlersStay, IndicesStay
<1>7. CASE coll[k].size # Failed
  <2>1. Attach(r, k, coll, NoFile)
    BY <1>7 DEF OpenOther
  <2>2. \A j \in 1 .. Len(coll) : ~ (j > Len(coll))
    BY <1>1
  <2> HIDE DEF k
  <2> QED
    BY <1>1, <1>2, <1>3, <1>4, <1>5, <2>1, <2>2, AttachStep
<1> QED
  BY <1>6, <1>7

-----------------------------------------------------------------------------

LEMMA InitIInv == Init => IInv
<1> SUFFICES ASSUME Init PROVE IInv
  OBVIOUS
<1>1. WellFormed(coll) /\ Len(coll) = 0
  BY DEF Init, WellFormed, IsList
<1>2. Shape
  BY <1>1 DEF Init, Shape
<1>3. FromCalls /\ RootsOpen
  BY <1>1 DEF Init, FromCalls, RootsOpen
<1>4. OneIndex
  BY DEF Init, OneIndex, IndexOfRank
<1> QED
  BY <1>2, <1>3, <1>4 DEF IInv

LEMMA StepIInv == IInv /\ [Next]_vars => IInv'
<1> SUFFICES ASSUME IInv, [Next]_vars PROVE IInv'
  OBVIOUS
<1>1. ASSUME NEW r \in Ranks, Progress(r) PROVE IInv'
  BY <1>1, OpenOtherStep, MergeStep, SyncOtherStep, SyncSizeRootStep, SyncSizeStep DEF Progress
<1>2. ASSUME NEW r \in Ranks, NEW h \in DOMAIN handlers[r],
             Sync(r, h) \/ Pwrite(r, h) \/ OpenDeferred(r, h) \/ Close(r, h)
      PROVE  IInv'
  BY <1>2, SyncStep, PwriteStep, OpenDeferredStep, CloseStep
<1> QED
  BY <1>1, <1>2, OpenStep, OpenFailsStep, UnlinkStep, RemoveStep, StutterStep DEF Next, Finished

\* The handlers of a rank for one file use one index (bb.hpp:460), as long as
\* nobody unlinks files, for any ranks and communicators.
THEOREM HandlersAlwaysShareIndex == FairSpec => []HandlersShareIndex
<1>1. IInv => HandlersShareIndex
  BY DEF IInv, OneIndex, IndexOfRank, HandlersShareIndex
<1> QED
  BY <1>1, InitIInv, StepIInv, PTL DEF FairSpec

LEMMA CutStep ==
    ASSUME IInv, [Next]_vars, NEW i \in Inos,
           disk'[i].size < disk[i].size \/ disk'[i].life > disk[i].life
    PROVE  Len(coll') = Len(coll) + 1 /\ coll'[Len(coll')].flags # {}
<1>1. disk' # disk
  BY DEF IInv, Shape
<1>2. ASSUME NEW r \in Ranks, NEW h \in DOMAIN handlers[r], OpenDeferred(r, h) PROVE FALSE
  <2>1. r # RootOf(coll[h].comm)
    BY <1>2 DEF OpenDeferred, IInv, RootsOpen
  <2>2. "creat" \notin RankFlags(r, h) /\ "trunc" \notin RankFlags(r, h)
    BY <2>1 DEF RankFlags
  <2> QED
    BY <1>1, <1>2, <2>2, OpenPathFacts DEF OpenDeferred, IInv
<1>3. ASSUME NEW r \in Ranks, Progress(r) PROVE FALSE
  BY <1>1, <1>3 DEF Progress, OpenOther, Merge, SyncOther, SyncSizeRoot, SyncSize
<1>4. PICK r \in Ranks, C \in Comms, p \in Paths, flags \in OpenFlags : Open(r, C, p, flags)
  BY <1>1, <1>2, <1>3 DEF Next, vars, Finished, OpenFails, Sync, Pwrite, Close, Unlink, Remove
<1>5. PICK o \in OpenPath(p, flags) :
          /\ disk' = o.disk
          /\ Attach(r, Len(coll) + 1,
                    Append(coll, OpenCall(C, p, flags, o.file, o.disk[o.file[1]].size)), o.file)
  BY <1>4 DEF Open
<1> DEFINE c == OpenCall(C, p, flags, o.file, o.disk[o.file[1]].size)
           calls == Append(coll, c)
<1>6. flags # {}
  BY <1>1, <1>5, OpenPathFacts DEF IInv
<1>7. Fields \subseteq DOMAIN c /\ c.flags = flags
  BY DEF OpenCall, Fields
<1>8. PICK x : coll' = [calls EXCEPT ![Len(coll) + 1].offered = x]
  BY <1>5 DEF Attach, Gather
<1> HIDE DEF c
<1>9. Continues(calls, coll) /\ Len(calls) = Len(coll) + 1 /\ calls[Len(coll) + 1] = c
  BY <1>7, WellFormedAppend DEF IInv, Shape
<1> HIDE DEF calls
<1>10. Continues(coll', calls) /\ Len(coll') = Len(calls)
  BY <1>8, <1>9, WellFormedUpdate DEF Continues
<1>11. Len(coll) \in Nat
  BY ListDomain DEF IInv, Shape, WellFormed
<1> QED
  BY <1>6, <1>7, <1>9, <1>10, <1>11 DEF Continues, Same

\* A file is created or cut for an open by its root only (bb.hpp:428-446), for
\* any ranks, communicators and flags.
THEOREM CutByRootOnlyAlways == FairSpec => CutByRootOnly
<1>1. IInv /\ [Next]_vars =>
          [\A i \in Inos :
              disk'[i].size < disk[i].size \/ disk'[i].life > disk[i].life =>
                  Len(coll') = Len(coll) + 1 /\ coll'[Len(coll')].flags # {}]_vars
  BY CutStep
<1> QED
  BY <1>1, InitIInv, StepIInv, PTL DEF FairSpec, CutByRootOnly

-----------------------------------------------------------------------------
(* A rank that finds something in a file finds a write to that file, also  *)
(* when its inode number was another file's before.  The first half is     *)
(* about calls: a sync finds the handlers of all its ranks.  The second is *)
(* about files: an index has entries of one file, and an index that an     *)
(* open may find is that of the file that has the number now.              *)


\* A sync is of an open that succeeded; only ranks offer trees.
CallOk(k) ==
    /\ coll[k].op \in {"open", "sync"}
    /\ coll[k].comm \subseteq Ranks
    /\ DOMAIN coll[k].offered \subseteq Ranks
    /\ coll[k].op = "sync" =>
          /\ coll[k].of \in 1 .. Len(coll) /\ coll[k].of < k
          /\ coll[coll[k].of].op = "open" /\ coll[coll[k].of].size # Failed
          /\ coll[coll[k].of].comm = coll[k].comm /\ coll[coll[k].of].file = coll[k].file

CallsOk == \A k \in 1 .. Len(coll) : CallOk(k)

\* The handlers and indices of a rank.
RankOk(r) ==
    /\ store[r] \subseteq DOMAIN bbs[r]
    /\ \A b \in DOMAIN bbs[r] : {"ino", "global", "local"} \subseteq DOMAIN bbs[r][b]
    /\ \A h \in DOMAIN handlers[r] :
          /\ handlers[r][h].bb \in DOMAIN bbs[r]
          /\ coll[h].op = "open" /\ coll[h].size # Failed

\* A rank has the handler of the call that it is in.
InCall(r) ==
    /\ pc[r] # "idle" => at[r] \in 1 .. Len(coll) /\ HandlerOf(at[r]) \in DOMAIN handlers[r]
    /\ pc[r] = "size" => coll[at[r]].op = "sync"

\* A rank has the handlers of the calls to come, unless the open is to come too.
ToCome(r) ==
    \A k \in Calls(r) :
        coll[k].op = "sync" /\ coll[k].of <= at[r] => coll[k].of \in DOMAIN handlers[r]

CallsInv ==
    /\ CallsOk
    /\ DOMAIN pc = Ranks /\ DOMAIN holds = Ranks
    /\ \A r \in Ranks : RankOk(r) /\ InCall(r) /\ ToCome(r)

-----------------------------------------------------------------------------
(* Files. *)

\* A path names the file now.
Named(f) == \E p \in Paths : dir[p] # NoIno /\ f = Now(dir[p])

\* The file that a rank has an index of can be named, as can one to be opened.
FilesNamed(r) ==
    /\ \A f \in holds[r] : Named(f)
    /\ \A k \in Calls(r) : coll[k].op = "open" /\ coll[k].size # Failed => Named(coll[k].file)

EntryOf(entry, file) == entry # None => entry[2] = file

\* The entries of an index are of one file, which the rank holds while the
\* index is in bb_store_; handlers use an index of their file.
OneFile(r) ==
    /\ \A b \in DOMAIN bbs[r] :
          /\ bbs[r][b].ino = coll[b].file[1]
          /\ EntryOf(bbs[r][b].local, coll[b].file) /\ EntryOf(bbs[r][b].global, coll[b].file)
    /\ \A b \in store[r] : coll[b].file \in holds[r]
    /\ \A h \in DOMAIN handlers[r] : coll[handlers[r][h].bb].file = coll[h].file

OffersOfFile ==
    \A k \in 1 .. Len(coll) : \A q \in DOMAIN coll[k].offered :
        EntryOf(coll[k].offered[q], coll[k].file)

FilesInv ==
    /\ dir \in [Paths -> {NoIno} \cup Inos]
    /\ ~ stale => OffersOfFile /\ \A r \in Ranks : FilesNamed(r) /\ OneFile(r)

-----------------------------------------------------------------------------
(* What a step of a rank leaves alone. *)

Others(r) ==
    /\ DOMAIN pc' = Ranks /\ DOMAIN holds' = Ranks
    /\ \A q \in Ranks \ {r} :
          /\ pc'[q] = pc[q] /\ at'[q] = at[q] /\ handlers'[q] = handlers[q]
          /\ bbs'[q] = bbs[q] /\ store'[q] = store[q] /\ holds'[q] = holds[q]

\* Calls go on, opens with their sizes, and only ranks make offers.
Kept ==
    /\ Continues(coll', coll)
    /\ \A k \in 1 .. Len(coll) : coll[k].op = "open" => coll'[k].size = coll[k].size
    /\ \A k \in 1 .. Len(coll') : DOMAIN coll'[k].offered \subseteq Ranks

\* A call that is made is right for the ranks that are to join it.
Fits(q) ==
    \A k \in 1 .. Len(coll') :
        k > Len(coll) /\ coll'[k].op = "sync" /\ q \in coll'[k].comm /\ coll'[k].of <= at[q] =>
            coll'[k].of \in DOMAIN handlers[q]

LEMMA CallsOkKept ==
    ASSUME IInv, CallsOk, Kept, \A k \in 1 .. Len(coll') : k > Len(coll) => CallOk(k)'
    PROVE  CallsOk'
<1>1. Len(coll) \in Nat /\ Len(coll') \in Nat /\ Len(coll) <= Len(coll')
  BY ListDomain DEF IInv, Shape, Kept, Continues, WellFormed
<1>2. \A k \in 1 .. Len(coll) : Same(coll'[k], coll[k])
  BY DEF Kept, Continues
<1>3. ASSUME NEW k \in 1 .. Len(coll) PROVE CallOk(k)'
  <2>1. CallOk(k) /\ Same(coll'[k], coll[k]) /\ DOMAIN coll'[k].offered \subseteq Ranks
    BY <1>1, <1>2 DEF CallsOk, Kept
  <2>2. CASE coll[k].op = "sync"
    <3>1. coll[k].of \in 1 .. Len(coll)
      BY <2>1, <2>2 DEF CallOk
    <3>2. /\ Same(coll'[coll[k].of], coll[coll[k].of])
          /\ coll[coll[k].of].op = "open" => coll'[coll[k].of].size = coll[coll[k].of].size
      BY <1>2, <3>1 DEF Kept
    <3> QED
      BY <1>1, <2>1, <2>2, <3>1, <3>2 DEF CallOk, Same
  <2>3. CASE coll[k].op # "sync"
    BY <2>1, <2>3 DEF CallOk, Same
  <2> QED
    BY <2>2, <2>3
<1> QED
  BY <1>1, <1>3 DEF CallsOk

\* The other ranks.
LEMMA OtherRank ==
    ASSUME IInv, CallsInv, NEW r, Others(r), Kept, NEW q \in Ranks \ {r}, Fits(q)
    PROVE  (RankOk(q) /\ InCall(q) /\ ToCome(q))'
<1>1. /\ Len(coll) \in Nat /\ Len(coll') \in Nat /\ Len(coll) <= Len(coll')
      /\ DOMAIN coll = 1 .. Len(coll) /\ DOMAIN coll' = 1 .. Len(coll')
  BY ListDomain DEF IInv, Shape, Kept, Continues, WellFormed
<1>2. \A k \in 1 .. Len(coll) : Same(coll'[k], coll[k])
  BY DEF Kept, Continues
<1>3. RankOk(q) /\ InCall(q) /\ ToCome(q) /\ at[q] \in Nat /\ at[q] <= Len(coll)
  BY DEF CallsInv, IInv, Shape
<1>4. \A h \in DOMAIN handlers[q] : h \in 1 .. Len(coll)
  BY <1>1, <1>3 DEF IInv, FromCalls
<1>5. RankOk(q)'
  BY <1>2, <1>3, <1>4 DEF RankOk, Others, Kept, Same
<1>6. InCall(q)'
  BY <1>1, <1>2, <1>3 DEF InCall, HandlerOf, Others, Same
<1>7. ToCome(q)'
  <2> SUFFICES ASSUME NEW k \in Calls(q)', coll'[k].op = "sync", coll'[k].of <= at[q]
               PROVE  coll'[k].of \in DOMAIN handlers[q]
    BY DEF ToCome, Others
  <2>1. k \in 1 .. Len(coll') /\ k > at[q] /\ q \in coll'[k].comm
    BY <1>1 DEF Calls, Others
  <2>2. CASE k > Len(coll)
    BY <2>1, <2>2 DEF Fits
  <2>3. CASE k \in 1 .. Len(coll)
    <3>1. k \in Calls(q) /\ coll[k].op = "sync" /\ coll[k].of = coll'[k].of
      BY <1>1, <1>2, <2>1, <2>3 DEF Calls, Same
    <3> QED
      BY <1>3, <3>1 DEF ToCome
  <2> QED
    BY <1>1, <2>1, <2>2, <2>3
<1> QED
  BY <1>5, <1>6, <1>7

LEMMA OneRank ==
    ASSUME IInv, CallsInv, NEW r \in Ranks, Others(r), Kept,
           \A k \in 1 .. Len(coll') : k > Len(coll) => CallOk(k)',
           \A q \in Ranks \ {r} : Fits(q), (RankOk(r) /\ InCall(r) /\ ToCome(r))'
    PROVE  CallsInv'
  BY CallsOkKept, OtherRank DEF CallsInv, Others

\* A step that makes no call.
LEMMA NoCall ==
    ASSUME IInv, CallsInv, UNCHANGED coll
    PROVE  /\ Kept /\ \A q \in Ranks : Fits(q)
           /\ \A k \in 1 .. Len(coll') : k > Len(coll) => CallOk(k)'
<1>1. Len(coll) \in Nat
  BY ListDomain DEF IInv, Shape, WellFormed
<1>2. Continues(coll', coll)
  BY Keeping DEF IInv, Shape
<1> QED
  BY <1>1, <1>2 DEF Kept, Fits, CallsInv, CallsOk, CallOk

\* A step that makes no call, in which the rank keeps its handlers.
LEMMA NoCallMade ==
    ASSUME IInv, CallsInv, NEW r \in Ranks, Others(r), UNCHANGED <<coll, at>>,
           DOMAIN handlers'[r] = DOMAIN handlers[r], RankOk(r)',
           pc'[r] \in {"idle", pc[r]} \/ (pc[r] # "idle" /\ coll[at[r]].op = "sync")
    PROVE  CallsInv'
<1>1. RankOk(r) /\ InCall(r) /\ ToCome(r)
  BY DEF CallsInv
<1>2. ToCome(r)'
  BY <1>1 DEF ToCome, Calls
<1>3. InCall(r)'
  BY <1>1 DEF InCall, HandlerOf
<1> QED
  BY <1>2, <1>3, NoCall, OneRank

LEMMA MergeCalls == ASSUME IInv, CallsInv, NEW r \in Ranks, Merge(r) PROVE CallsInv'
<1> DEFINE b == handlers[r][HandlerOf(at[r])].bb
<1>1. PICK g, l : bbs' = [bbs EXCEPT ![r][b].global = g, ![r][b].local = l]
  BY DEF Merge
<1> HIDE DEF b
<1>2. Others(r)
  BY <1>1 DEF Others, Merge, CallsInv, IInv, Shape, history
<1>3. RankOk(r)'
  <2>1. DOMAIN bbs'[r] = DOMAIN bbs[r]
    BY <1>1 DEF IInv, Shape
  <2>2. \A c \in DOMAIN bbs[r] : DOMAIN bbs'[r][c] = DOMAIN bbs[r][c]
    BY <1>1 DEF IInv, Shape
  <2>3. RankOk(r) /\ UNCHANGED <<store, handlers, coll>>
    BY DEF CallsInv, Merge
  <2> QED
    BY <2>1, <2>2, <2>3 DEF RankOk
<1>4. coll[at[r]].op # "open" => coll[at[r]].op = "sync"
  BY DEF Merge, CallsInv, InCall, CallsOk, CallOk
<1>5. pc'[r] = IF coll[at[r]].op = "open" THEN "idle" ELSE "size"
  BY DEF Merge, CallsInv
<1> QED
  BY <1>2, <1>3, <1>4, <1>5, NoCallMade DEF Merge

LEMMA PwriteCalls == ASSUME IInv, CallsInv, NEW r \in Ranks, NEW h, Pwrite(r, h) PROVE CallsInv'
<1>1. PICK b, l : bbs' = [bbs EXCEPT ![r][b].local = l]
  BY DEF Pwrite
<1>2. Others(r)
  BY <1>1 DEF Others, Pwrite, CallsInv, IInv, Shape, history
<1>3. RankOk(r)'
  <2>1. DOMAIN bbs'[r] = DOMAIN bbs[r]
    BY <1>1 DEF IInv, Shape
  <2>2. \A c \in DOMAIN bbs[r] : DOMAIN bbs'[r][c] = DOMAIN bbs[r][c]
    BY <1>1 DEF IInv, Shape
  <2>3. RankOk(r) /\ UNCHANGED <<store, handlers, coll>>
    BY DEF CallsInv, Pwrite
  <2> QED
    BY <2>1, <2>2, <2>3 DEF RankOk
<1> QED
  BY <1>2, <1>3, NoCallMade DEF Pwrite

LEMMA OpenDeferredCalls ==
    ASSUME IInv, CallsInv, NEW r \in Ranks, NEW h, OpenDeferred(r, h) PROVE CallsInv'
<1>1. PICK fd : handlers' = [handlers EXCEPT ![r][h].fd = fd]
  BY DEF OpenDeferred
<1>2. Others(r)
  BY <1>1 DEF Others, OpenDeferred, CallsInv, IInv, Shape, history
<1>3. DOMAIN handlers'[r] = DOMAIN handlers[r]
  BY <1>1 DEF IInv, Shape
<1>4. \A g \in DOMAIN handlers[r] : handlers'[r][g].bb = handlers[r][g].bb
  BY <1>1, <1>3 DEF IInv, Shape
<1>5. RankOk(r)'
  BY <1>3, <1>4 DEF RankOk, CallsInv, OpenDeferred
<1> QED
  BY <1>2, <1>3, <1>5, NoCallMade DEF OpenDeferred

LEMMA CloseCalls == ASSUME IInv, CallsInv, NEW r \in Ranks, NEW h, Close(r, h) PROVE CallsInv'
<1>1. Others(r)
  BY DEF Others, Close, Release, CallsInv, IInv, Shape, history
<1>2. /\ store'[r] = store[r] /\ handlers'[r] = [k \in DOMAIN handlers[r] \ {h} |-> handlers[r][k]]
      /\ LET used == store'[r] \cup {handlers'[r][k].bb : k \in DOMAIN handlers'[r]}
         IN  bbs'[r] = [b \in DOMAIN bbs[r] \cap used |-> bbs[r][b]]
  BY DEF Close, Release, IInv, Shape
<1>3. RankOk(r)'
  <2>1. RankOk(r) /\ coll' = coll
    BY DEF CallsInv, Close
  <2>2. /\ DOMAIN bbs'[r] = DOMAIN bbs[r] \cap
              (store[r] \cup {handlers'[r][k].bb : k \in DOMAIN handlers'[r]})
        /\ \A b \in DOMAIN bbs'[r] : bbs'[r][b] = bbs[r][b]
    BY <1>2
  <2>3. /\ DOMAIN handlers'[r] \subseteq DOMAIN handlers[r]
        /\ \A k \in DOMAIN handlers'[r] : handlers'[r][k] = handlers[r][k]
    BY <1>2
  <2> QED
    BY <1>2, <2>1, <2>2, <2>3 DEF RankOk
<1>4. InCall(r)' /\ ToCome(r)'
  BY DEF Close, InCall, ToCome, Calls
<1> QED
  BY <1>1, <1>3, <1>4, NoCall, OneRank DEF Close

LEMMA UnlinkCalls == ASSUME IInv, CallsInv, NEW r \in Ranks, NEW p, Unlink(r, p) PROVE CallsInv'
<1>1. Others(r)
  BY DEF Others, Unlink, Release, CallsInv, IInv, Shape, history
<1>2. /\ store'[r] \subseteq store[r] /\ handlers' = handlers
      /\ LET used == store'[r] \cup {handlers'[r][k].bb : k \in DOMAIN handlers'[r]}
         IN  bbs'[r] = [b \in DOMAIN bbs[r] \cap used |-> bbs[r][b]]
  BY DEF Unlink, Release, IInv, Shape
<1>3. RankOk(r)'
  BY <1>2 DEF RankOk, CallsInv, Unlink
<1> QED
  BY <1>1, <1>2, <1>3, NoCallMade DEF Unlink

\* What the end of a sync changes: sizes.
SizesKept(r) ==
    /\ Others(r) /\ Kept /\ Len(coll') = Len(coll)
    /\ \A k \in 1 .. Len(coll) : coll'[k].offered = coll[k].offered
    /\ DOMAIN handlers'[r] = DOMAIN handlers[r]
    /\ \A g \in DOMAIN handlers[r] : handlers'[r][g].bb = handlers[r][g].bb
    /\ pc[r] = "size" /\ pc'[r] = "idle"
    /\ UNCHANGED <<dir, disk, bbs, store, at, holds, stale>>

LEMMA SizesFacts ==
    ASSUME IInv, CallsInv, NEW r \in Ranks, SyncSizeRoot(r) \/ SyncSize(r)
    PROVE  SizesKept(r)
<1>1. PICK h, size :
          /\ handlers' = handlers \/ handlers' = [handlers EXCEPT ![r][h].size = size]
          /\ coll' = coll \/ coll' = [coll EXCEPT ![at[r]].size = size]
  BY DEF SyncSizeRoot, SyncSize
<1>2. /\ pc[r] = "size" /\ pc' = [pc EXCEPT ![r] = "idle"]
      /\ UNCHANGED <<dir, disk, bbs, store, at, holds, stale>>
  BY DEF SyncSizeRoot, SyncSize, history
<1>3. at[r] \in 1 .. Len(coll) /\ coll[at[r]].op = "sync"
  BY <1>2 DEF CallsInv, InCall
<1>4. Others(r)
  BY <1>1, <1>2 DEF Others, CallsInv, IInv, Shape
<1>5. /\ DOMAIN handlers'[r] = DOMAIN handlers[r]
      /\ \A g \in DOMAIN handlers[r] : handlers'[r][g].bb = handlers[r][g].bb
  <2>1. CASE handlers' = handlers
    BY <2>1
  <2>2. CASE handlers' = [handlers EXCEPT ![r][h].size = size]
    BY <2>2 DEF IInv, Shape
  <2> QED
    BY <1>1, <2>1, <2>2
<1>6. /\ Continues(coll', coll) /\ Len(coll') = Len(coll) /\ Len(coll) \in Nat
      /\ DOMAIN coll = 1 .. Len(coll) /\ DOMAIN coll' = 1 .. Len(coll')
  <2>1. WellFormed(coll)
    BY DEF IInv, Shape
  <2>2. Continues(coll', coll) /\ Len(coll') = Len(coll)
    <3>1. CASE coll' = coll
      BY <2>1, <3>1, Keeping
    <3>2. CASE coll' = [coll EXCEPT ![at[r]].size = size]
      BY <2>1, <3>2, WellFormedSized
    <3> QED
      BY <1>1, <3>1, <3>2
  <2> QED
    BY <2>1, <2>2, ListDomain DEF WellFormed, Continues
<1>7. \A k \in 1 .. Len(coll) :
          /\ coll'[k].offered = coll[k].offered
          /\ k # at[r] => coll'[k].size = coll[k].size
  <2>1. CASE coll' = coll
    BY <2>1
  <2>2. CASE coll' = [coll EXCEPT ![at[r]].size = size]
    BY <1>6, <2>2
  <2> QED
    BY <1>1, <2>1, <2>2
<1>8. Kept
  BY <1>3, <1>6, <1>7 DEF Kept, CallsInv, CallsOk, CallOk
<1>9. pc'[r] = "idle"
  BY <1>2 DEF CallsInv
<1> QED
  BY <1>2, <1>4, <1>5, <1>6, <1>7, <1>8, <1>9 DEF SizesKept

LEMMA SizesCalls ==
    ASSUME IInv, CallsInv, NEW r \in Ranks, SyncSizeRoot(r) \/ SyncSize(r)
    PROVE  CallsInv'
<1>1. RankOk(r) /\ InCall(r) /\ ToCome(r)
  BY DEF CallsInv
<1>2. /\ Others(r) /\ Kept /\ Len(coll') = Len(coll)
      /\ DOMAIN handlers'[r] = DOMAIN handlers[r]
      /\ \A g \in DOMAIN handlers[r] : handlers'[r][g].bb = handlers[r][g].bb
      /\ pc'[r] = "idle" /\ UNCHANGED <<bbs, store, at>>
  BY SizesFacts DEF SizesKept
<1>3. /\ Len(coll) \in Nat /\ DOMAIN coll = 1 .. Len(coll) /\ DOMAIN coll' = 1 .. Len(coll')
  BY <1>2, ListDomain DEF Kept, Continues, WellFormed, IInv, Shape
<1>4. \A k \in 1 .. Len(coll) : Same(coll'[k], coll[k])
  BY <1>2 DEF Kept, Continues
<1>5. ToCome(r)'
  BY <1>1, <1>2, <1>3, <1>4 DEF ToCome, Calls, Same
<1>6. RankOk(r)'
  <2>1. \A g \in DOMAIN handlers[r] : g \in 1 .. Len(coll)
    BY <1>3 DEF IInv, FromCalls, Shape
  <2> QED
    BY <1>1, <1>2, <1>4, <2>1 DEF RankOk, Kept, Same
<1>7. InCall(r)'
  BY <1>2 DEF InCall
<1>8. \A k \in 1 .. Len(coll') : ~ (k > Len(coll))
  BY <1>2, <1>3
<1> QED
  BY <1>2, <1>5, <1>6, <1>7, <1>8, OneRank DEF Fits

\* A call that is made adds to the list.
LEMMA Added ==
    ASSUME IInv, NEW c, Fields \subseteq DOMAIN c, NEW calls, calls = Append(coll, c)
    PROVE  /\ Continues(calls, coll) /\ Len(calls) = Len(coll) + 1
           /\ calls[Len(coll) + 1] = c /\ \A k \in 1 .. Len(coll) : calls[k] = coll[k]
           /\ WellFormed(coll) /\ Len(coll) \in Nat /\ DOMAIN coll = 1 .. Len(coll)
  BY WellFormedAppend, ListAppend, ListDomain DEF IInv, Shape, WellFormed

\* A rank joins a call with what it offers.
LEMMA Joined ==
    ASSUME NEW calls, WellFormed(calls), NEW k \in 1 .. Len(calls), NEW w, NEW t,
           t = [calls EXCEPT ![k].offered = w]
    PROVE  /\ Continues(t, calls) /\ Len(t) = Len(calls)
           /\ \A j \in 1 .. Len(calls) : Same(t[j], calls[j]) /\ t[j].size = calls[j].size
           /\ \A j \in 1 .. Len(calls) : j # k => t[j] = calls[j]
           /\ t[k].offered = w
<1>1. Continues(t, calls) /\ Len(t) = Len(calls) /\ DOMAIN calls = 1 .. Len(calls)
  BY WellFormedUpdate, ListDomain DEF WellFormed
<1>2. \A j \in 1 .. Len(calls) : Same(t[j], calls[j])
  BY <1>1 DEF Continues
<1>3. \A j \in 1 .. Len(calls) : Fields \subseteq DOMAIN calls[j]
  BY DEF WellFormed
<1>4. \A j \in 1 .. Len(calls) : t[j] = IF j = k THEN [calls[k] EXCEPT !.offered = w] ELSE calls[j]
  BY <1>1
<1>5. (\A j \in 1 .. Len(calls) : t[j].size = calls[j].size) /\ t[k].offered = w
  BY <1>3, <1>4 DEF Fields
<1> QED
  BY <1>1, <1>2, <1>4, <1>5

\* The calls once r offers x in call k.
Offers(calls, k, r, x) == [calls EXCEPT ![k].offered = With(@, r, x)]

\* A rank joins call k with what it offers.  The call is new, or one to come.
LEMMA JoinKept ==
    ASSUME IInv, CallsInv, NEW r \in Ranks, NEW calls, Continues(calls, coll),
           NEW k \in 1 .. Len(calls), NEW x, coll' = Offers(calls, k, r, x),
           \A j \in 1 .. Len(coll) : calls[j] = coll[j],
           \A j \in 1 .. Len(calls) : j > Len(coll) => DOMAIN calls[j].offered \subseteq Ranks
    PROVE  /\ Kept /\ Len(coll') = Len(calls)
           /\ \A j \in 1 .. Len(calls) : Same(coll'[j], calls[j]) /\ coll'[j].size = calls[j].size
<1>1. WellFormed(calls)
  BY DEF Continues
<1>2. /\ Continues(coll', calls) /\ Len(coll') = Len(calls)
      /\ \A j \in 1 .. Len(calls) : Same(coll'[j], calls[j]) /\ coll'[j].size = calls[j].size
      /\ \A j \in 1 .. Len(calls) : j # k => coll'[j] = calls[j]
      /\ coll'[k].offered = With(calls[k].offered, r, x)
  <2> DEFINE w == With(calls[k].offered, r, x)
             t == [calls EXCEPT ![k].offered = w]
  <2>1. coll' = t /\ t = [calls EXCEPT ![k].offered = w]
    BY DEF Offers
  <2> HIDE DEF w, t
  <2>2. Len(t) = Len(calls) /\ t[k].offered = w
    BY <1>1, <2>1, Joined
  <2>3. Continues(t, calls)
    BY <1>1, <2>1, Joined
  <2>4. \A j \in 1 .. Len(calls) : Same(t[j], calls[j])
    BY <1>1, <2>1, Joined
  <2>5. \A j \in 1 .. Len(calls) : t[j].size = calls[j].size
    BY <1>1, <2>1, Joined
  <2>6. \A j \in 1 .. Len(calls) : j # k => t[j] = calls[j]
    BY <1>1, <2>1, Joined
  <2> QED
    BY <2>1, <2>2, <2>3, <2>4, <2>5, <2>6 DEF w
<1>3. Len(coll) \in Nat /\ Len(calls) \in Nat /\ Len(coll) <= Len(calls)
  BY <1>1, ListDomain DEF IInv, Shape, WellFormed, Continues
<1>4. \A j \in 1 .. Len(calls) : DOMAIN calls[j].offered \subseteq Ranks
  BY <1>3 DEF CallsInv, CallsOk, CallOk
<1>5. DOMAIN coll'[k].offered = DOMAIN calls[k].offered \cup {r}
  BY <1>2 DEF With
<1>6. \A j \in 1 .. Len(coll') : DOMAIN coll'[j].offered \subseteq Ranks
  BY <1>2, <1>4, <1>5
<1>7. Continues(coll', coll)
  BY <1>2, ContinuesFurther DEF IInv, Shape
<1> QED
  BY <1>2, <1>3, <1>6, <1>7 DEF Kept

\* After its next call a rank has the handlers of those to come.
LEMMA NextMade ==
    ASSUME IInv, CallsInv, NEW r \in Ranks, Calls(r) # {}, Kept, Len(coll') = Len(coll),
           at' = [at EXCEPT ![r] = NextCall(r)], DOMAIN handlers[r] \subseteq DOMAIN handlers'[r],
           coll[NextCall(r)].op = "open" /\ coll[NextCall(r)].size # Failed =>
               NextCall(r) \in DOMAIN handlers'[r]
    PROVE  ToCome(r)' /\ at'[r] \in 1 .. Len(coll') /\ at'[r] = NextCall(r)
<1>1. /\ NextCall(r) \in 1 .. Len(coll) /\ at[r] < NextCall(r)
      /\ \A l \in Calls(r) : NextCall(r) <= l
  BY NextCallIsNext DEF IInv
<1>2. at[r] \in Nat /\ at'[r] = NextCall(r)
  BY DEF IInv, Shape
<1>3. /\ Len(coll) \in Nat /\ DOMAIN coll = 1 .. Len(coll) /\ DOMAIN coll' = 1 .. Len(coll')
  BY ListDomain DEF IInv, Shape, Kept, Continues, WellFormed
<1>4. \A k \in 1 .. Len(coll) : Same(coll'[k], coll[k])
  BY DEF Kept, Continues
<1> SUFFICES ASSUME NEW k \in Calls(r)', coll'[k].op = "sync", coll'[k].of <= at'[r]
             PROVE  coll'[k].of \in DOMAIN handlers'[r]
  BY <1>1, <1>2 DEF ToCome
<1>5. k \in 1 .. Len(coll) /\ NextCall(r) < k /\ r \in coll'[k].comm
  BY <1>2, <1>3 DEF Calls
<1>6. /\ r \in coll[k].comm /\ coll[k].op = "sync" /\ coll[k].of = coll'[k].of
      /\ k \in Calls(r)
  BY <1>1, <1>2, <1>3, <1>4, <1>5 DEF Calls, Same
<1>7. /\ coll[k].of \in 1 .. Len(coll) /\ coll[coll[k].of].comm = coll[k].comm
      /\ coll[coll[k].of].op = "open" /\ coll[coll[k].of].size # Failed
  BY <1>5, <1>6 DEF CallsInv, CallsOk, CallOk
<1>8. CASE coll[k].of <= at[r]
  BY <1>6, <1>8 DEF CallsInv, ToCome
<1>9. CASE coll[k].of > at[r]
  <2>1. coll[k].of \in Calls(r)
    BY <1>3, <1>6, <1>7, <1>9 DEF Calls
  <2>2. coll[k].of = NextCall(r)
    BY <1>1, <1>2, <1>6, <1>7, <2>1
  <2> QED
    BY <1>6, <1>7, <2>2
<1> QED
  BY <1>2, <1>7, <1>8, <1>9

\* Nothing is to come after a call that the rank itself has made.
LEMMA NewMade ==
    ASSUME IInv, NEW r \in Ranks, Kept, Len(coll') = Len(coll) + 1,
           at' = [at EXCEPT ![r] = Len(coll) + 1]
    PROVE  ToCome(r)' /\ at'[r] \in 1 .. Len(coll') /\ at'[r] = Len(coll) + 1
<1>1. Len(coll) \in Nat /\ DOMAIN coll' = 1 .. Len(coll') /\ at'[r] = Len(coll) + 1
  BY ListDomain DEF IInv, Shape, Kept, Continues, WellFormed
<1>2. Calls(r)' = {}
  BY <1>1 DEF Calls
<1> QED
  BY <1>1, <1>2 DEF ToCome

LEMMA EnterSyncCalls ==
    ASSUME IInv, CallsInv, NEW r \in Ranks, NEW calls, Continues(calls, coll),
           NEW k \in 1 .. Len(calls), EnterSync(r, k, calls),
           \A j \in 1 .. Len(coll) : calls[j] = coll[j],
           \A j \in 1 .. Len(calls) : j > Len(coll) => DOMAIN calls[j].offered \subseteq Ranks,
           UNCHANGED <<bbs, store, handlers, holds>>,
           \A j \in 1 .. Len(coll') : j > Len(coll) => CallOk(j)', \A q \in Ranks \ {r} : Fits(q),
           Kept /\ Len(coll') = Len(calls) => ToCome(r)' /\ at'[r] = k,
           calls[k].op = "sync", calls[k].of \in DOMAIN handlers[r]
    PROVE  CallsInv'
<1>1. /\ Kept /\ Len(coll') = Len(calls)
      /\ \A j \in 1 .. Len(calls) : Same(coll'[j], calls[j])
  <2>1. PICK x : coll' = Offers(calls, k, r, x)
    BY DEF EnterSync, Offers
  <2> QED
    BY <2>1, JoinKept
<1>2. Others(r)
  BY DEF Others, EnterSync, CallsInv, IInv, Shape
<1>3. RankOk(r)'
  <2>1. RankOk(r) /\ \A h \in DOMAIN handlers[r] : h \in 1 .. Len(coll)
    BY ListDomain DEF CallsInv, IInv, Shape, WellFormed, FromCalls
  <2>2. \A j \in 1 .. Len(coll) : Same(coll'[j], coll[j])
    BY <1>1 DEF Kept, Continues
  <2> QED
    BY <1>1, <2>1, <2>2 DEF RankOk, Kept, Same
<1>4. InCall(r)'
  <2>1. coll'[k].op = "sync" /\ coll'[k].of = calls[k].of
    BY <1>1 DEF Same
  <2>2. at'[r] = k /\ handlers' = handlers /\ k \in 1 .. Len(coll')
    BY <1>1
  <2> QED
    BY <2>1, <2>2 DEF InCall, HandlerOf
<1> QED
  BY <1>1, <1>2, <1>3, <1>4, OneRank

LEMMA SyncCalls == ASSUME IInv, CallsInv, NEW r \in Ranks, NEW h, Sync(r, h) PROVE CallsInv'
<1> DEFINE c == SyncCall(h)
           calls == Append(coll, c)
           k == Len(coll) + 1
<1>1. /\ h \in DOMAIN handlers[r] /\ h \in 1 .. Len(coll) /\ Len(coll) \in Nat
      /\ coll[h].op = "open" /\ coll[h].size # Failed /\ coll[h].comm \subseteq Ranks
  BY ListDomain DEF Sync, IInv, FromCalls, Shape, WellFormed, CallsInv, RankOk, CallsOk, CallOk
<1>2. /\ Fields \subseteq DOMAIN c /\ c.op = "sync" /\ c.of = h /\ c.comm = coll[h].comm
      /\ c.file = coll[h].file /\ DOMAIN c.offered = {}
  BY <1>1 DEF SyncCall, Fields, IInv, Shape, WellFormed
<1>3. EnterSync(r, k, calls) /\ UNCHANGED <<dir, disk, bbs, store, handlers, history>>
  BY DEF Sync
<1>4. \A q \in coll[h].comm : at[q] >= h => h \in DOMAIN handlers[q]
  BY DEF Sync
<1> HIDE DEF c
<1>5. /\ Continues(calls, coll) /\ Len(calls) = Len(coll) + 1
      /\ calls[k] = c /\ \A j \in 1 .. Len(coll) : calls[j] = coll[j]
  <2>1. Fields \subseteq DOMAIN c
    BY <1>2
  <2>2. calls = Append(coll, c)
    OBVIOUS
  <2> HIDE DEF calls
  <2>3. Continues(calls, coll)
    BY <2>1, <2>2, Added
  <2>4. Len(calls) = Len(coll) + 1 /\ calls[Len(coll) + 1] = c
    BY <2>1, <2>2, Added
  <2>5. \A j \in 1 .. Len(coll) : calls[j] = coll[j]
    BY <2>1, <2>2, Added
  <2> QED
    BY <2>3, <2>4, <2>5
<1> HIDE DEF calls
<1>6. /\ k \in 1 .. Len(calls) /\ \A j \in 1 .. Len(calls) : j > Len(coll) => j = k
      /\ \A j \in 1 .. Len(coll) : j # k
  BY <1>1, <1>5
<1>7. /\ Kept /\ Len(coll') = Len(calls)
      /\ \A j \in 1 .. Len(calls) : Same(coll'[j], calls[j])
  <2>1. PICK x : coll' = Offers(calls, k, r, x)
    BY <1>3 DEF EnterSync, Offers
  <2> HIDE DEF k
  <2> QED
    BY <1>2, <1>5, <1>6, <2>1, JoinKept
<1>8. Same(coll'[k], c) /\ Same(coll'[h], coll[h]) /\ coll'[h].size = coll[h].size
  <2>1. Same(coll'[k], calls[k])
    BY <1>6, <1>7
  <2> QED
    BY <1>1, <1>5, <1>7, <2>1 DEF Kept, Continues
<1>9. ASSUME NEW j \in 1 .. Len(coll'), j > Len(coll) PROVE CallOk(j)'
  <2>1. DOMAIN coll'[j].offered \subseteq Ranks
    BY <1>7 DEF Kept
  <2>2. j = k /\ h \in 1 .. Len(coll') /\ h < j
    BY <1>1, <1>5, <1>6, <1>7, <1>9
  <2> HIDE DEF k
  <2> QED
    BY <1>1, <1>2, <1>8, <2>1, <2>2 DEF CallOk, Same
<1>10. \A q \in Ranks \ {r} : Fits(q)
  <2> SUFFICES ASSUME NEW q \in Ranks, q \in coll'[k].comm, coll'[k].of <= at[q]
               PROVE  coll'[k].of \in DOMAIN handlers[q]
    BY <1>6, <1>7 DEF Fits
  <2> QED
    BY <1>1, <1>2, <1>4, <1>8 DEF Same, IInv, Shape
<1>11. ToCome(r)' /\ at'[r] = k
  BY <1>3, <1>5, <1>7, NewMade DEF EnterSync
<1>12. calls[k].op = "sync" /\ calls[k].of \in DOMAIN handlers[r]
  BY <1>1, <1>2, <1>5
<1>13. UNCHANGED <<bbs, store, handlers, holds>>
  BY <1>3 DEF history
<1>14. \A j \in 1 .. Len(calls) : j > Len(coll) => DOMAIN calls[j].offered \subseteq Ranks
  BY <1>2, <1>5, <1>6
<1> HIDE DEF k
<1> QED
  BY <1>3, <1>5, <1>6, <1>9, <1>10, <1>11, <1>12, <1>13, <1>14, EnterSyncCalls

\* A rank has the handler of the sync that it comes to next.
LEMMA NextSync ==
    ASSUME IInv, CallsInv, NEW r \in Ranks, NEW k \in Calls(r),
           \A l \in Calls(r) : k <= l, coll[k].op = "sync"
    PROVE  coll[k].of \in DOMAIN handlers[r] /\ coll[coll[k].of].file = coll[k].file
<1>1. r \in coll[k].comm /\ at[r] \in Nat /\ DOMAIN coll = 1 .. Len(coll)
  BY ListDomain DEF Calls, IInv, Shape, WellFormed
<1>2. /\ coll[k].of \in 1 .. Len(coll) /\ coll[coll[k].of].comm = coll[k].comm
      /\ coll[coll[k].of].op = "open" /\ coll[k].of < k
      /\ coll[coll[k].of].file = coll[k].file
  BY <1>1 DEF CallsInv, CallsOk, CallOk, Calls
<1>3. CASE coll[k].of <= at[r]
  BY <1>2, <1>3 DEF CallsInv, ToCome
<1>4. CASE coll[k].of > at[r]
  <2>1. coll[k].of \in Calls(r)
    BY <1>1, <1>2, <1>4 DEF Calls
  <2> QED
    BY <1>1, <1>2, <2>1 DEF Calls
<1> QED
  BY <1>1, <1>2, <1>3, <1>4

LEMMA SyncOtherCalls == ASSUME IInv, CallsInv, NEW r \in Ranks, SyncOther(r) PROVE CallsInv'
<1> DEFINE k == NextCall(r)
<1>1. /\ k \in 1 .. Len(coll) /\ at[r] < k /\ k \in Calls(r) /\ Len(coll) \in Nat
      /\ \A l \in Calls(r) : k <= l
  BY NextCallIsNext, ListDomain DEF SyncOther, IInv, Shape, WellFormed
<1>2. /\ EnterSync(r, k, coll) /\ coll[k].op = "sync" /\ Calls(r) # {}
      /\ UNCHANGED <<bbs, store, handlers, holds>>
  BY DEF SyncOther, history
<1>3. Continues(coll, coll)
  BY Keeping DEF IInv, Shape
<1>4. coll[k].of \in DOMAIN handlers[r]
  BY <1>1, <1>2, NextSync
<1>5. Kept /\ Len(coll') = Len(coll) => ToCome(r)' /\ at'[r] = k
  BY <1>2, NextMade DEF EnterSync
<1>6. \A j \in 1 .. Len(coll) : ~ (j > Len(coll))
  BY <1>1
<1>7. Len(coll') = Len(coll)
  <2>1. PICK x : coll' = Offers(coll, k, r, x)
    BY <1>2 DEF EnterSync, Offers
  <2> HIDE DEF k
  <2> QED
    BY <1>1, <1>3, <1>6, <2>1, JoinKept
<1>8. \A q \in Ranks : Fits(q)
  BY <1>6, <1>7 DEF Fits
<1> HIDE DEF k
<1> QED
  BY <1>1, <1>2, <1>3, <1>4, <1>5, <1>6, <1>7, <1>8, EnterSyncCalls

LEMMA OpenFailsCalls ==
    ASSUME IInv, CallsInv, NEW r \in Ranks, NEW C \in Comms, NEW p, OpenFails(r, C, p)
    PROVE  CallsInv'
<1> DEFINE c == OpenCall(C, p, {}, NoFile, Failed)
<1>1. /\ Fields \subseteq DOMAIN c /\ c.op = "open" /\ c.comm = C /\ DOMAIN c.offered = {}
  BY DEF OpenCall, Fields
<1>2. coll' = Append(coll, c) /\ at' = [at EXCEPT ![r] = Len(coll) + 1] /\ pc[r] = "idle"
  BY DEF OpenFails
<1> HIDE DEF c
<1>3. /\ Continues(coll', coll) /\ Len(coll') = Len(coll) + 1 /\ coll'[Len(coll) + 1] = c
      /\ \A j \in 1 .. Len(coll) : coll'[j] = coll[j]
      /\ Len(coll) \in Nat
  <2>1. Continues(coll', coll) /\ Len(coll') = Len(coll) + 1 /\ Len(coll) \in Nat
    BY <1>1, <1>2, Added
  <2>2. coll'[Len(coll) + 1] = c /\ \A j \in 1 .. Len(coll) : coll'[j] = coll[j]
    BY <1>1, <1>2, Added
  <2> QED
    BY <2>1, <2>2
<1>4. \A j \in 1 .. Len(coll') : j > Len(coll) => j = Len(coll) + 1
  BY <1>3
<1>5. C \subseteq Ranks
  BY StoreAssumption
<1>6. \A j \in 1 .. Len(coll') : DOMAIN coll'[j].offered \subseteq Ranks
  BY <1>1, <1>3, <1>4 DEF CallsInv, CallsOk, CallOk
<1>7. Kept
  BY <1>3, <1>6 DEF Kept
<1>8. ASSUME NEW j \in 1 .. Len(coll'), j > Len(coll) PROVE CallOk(j)'
  BY <1>1, <1>3, <1>4, <1>5, <1>6, <1>8 DEF CallOk
<1>9. \A q \in Ranks : Fits(q)
  BY <1>1, <1>3, <1>4 DEF Fits
<1>10. Others(r)
  BY <1>2 DEF Others, OpenFails, CallsInv, IInv, Shape, history
<1>11. ToCome(r)'
  BY <1>2, <1>3, <1>7, NewMade
<1>12. RankOk(r)'
  <2>1. RankOk(r) /\ \A h \in DOMAIN handlers[r] : h \in 1 .. Len(coll)
    BY ListDomain DEF CallsInv, IInv, Shape, WellFormed, FromCalls
  <2> QED
    BY <1>3, <2>1 DEF RankOk, OpenFails
<1>13. InCall(r)'
  BY <1>2 DEF InCall, OpenFails
<1> QED
  BY <1>7, <1>8, <1>9, <1>10, <1>11, <1>12, <1>13, OneRank

-----------------------------------------------------------------------------
(* A handler is made. *)

\* The bb b, new or found, and the handler of call k.
Attached(r, k, calls, b) ==
    LET i == calls[k].file[1]
    IN  /\ \/ /\ Indexed(r, i) = {} /\ b = k
              /\ DOMAIN bbs'[r] = DOMAIN bbs[r] \cup {k} /\ bbs'[r][k] = NewBb(i)
              /\ \A c \in DOMAIN bbs[r] : c # k /\ bbs'[r][c] = bbs[r][c]
           \/ b \in Indexed(r, i) /\ bbs'[r] = bbs[r]
        /\ store'[r] = store[r] \cup {b}
        /\ DOMAIN handlers'[r] = DOMAIN handlers[r] \cup {k} /\ handlers'[r][k].bb = b
        /\ \A h \in DOMAIN handlers[r] : h # k /\ handlers'[r][h] = handlers[r][h]
        /\ holds'[r] = holds[r] \cup {calls[k].file}
        /\ coll' = Offers(calls, k, r, bbs'[r][b].local)

LEMMA AttachFacts ==
    ASSUME IInv, CallsInv, NEW r \in Ranks, NEW calls, NEW k, NEW fd, Attach(r, k, calls, fd),
           at[r] < k, at' = [at EXCEPT ![r] = k]
    PROVE  Others(r) /\ Attached(r, k, calls, NextBb(r, calls[k].file[1], k))
<1> DEFINE i == calls[k].file[1]
           b == NextBb(r, i, k)
           handler == [bb |-> b, fd |-> fd, size |-> calls[k].size]
<1>1. /\ bbs' = IF Indexed(r, i) = {} THEN [bbs EXCEPT ![r] = With(@, b, NewBb(i))] ELSE bbs
      /\ store' = [store EXCEPT ![r] = @ \cup {b}]
      /\ handlers' = [handlers EXCEPT ![r] = With(@, k, handler)]
      /\ holds' = [holds EXCEPT ![r] = @ \cup {calls[k].file}]
      /\ coll' = Offers(calls, k, r, bbs'[r][b].local)
      /\ pc' = [pc EXCEPT ![r] = IF Cardinality(calls[k].comm) = 1 THEN "idle" ELSE "gather"]
  BY DEF Attach, Gather, Offers
<1>2. handler.bb = b
  OBVIOUS
<1>3. IF Indexed(r, i) = {} THEN b = k ELSE b \in Indexed(r, i)
  BY DEF NextBb
<1> HIDE DEF handler, b, i
<1>4. Others(r)
  BY <1>1 DEF Others, CallsInv, IInv, Shape
<1>5. /\ \A h \in DOMAIN handlers[r] : h # k
      /\ \A c \in DOMAIN bbs[r] : c # k
  BY DEF IInv, Shape, FromCalls
<1>6. /\ handlers'[r] = With(handlers[r], k, handler)
      /\ store'[r] = store[r] \cup {b} /\ holds'[r] = holds[r] \cup {calls[k].file}
      /\ bbs'[r] = IF Indexed(r, i) = {} THEN With(bbs[r], b, NewBb(i)) ELSE bbs[r]
  BY <1>1 DEF IInv, Shape, CallsInv
<1>7. /\ DOMAIN handlers'[r] = DOMAIN handlers[r] \cup {k} /\ handlers'[r][k] = handler
      /\ \A h \in DOMAIN handlers[r] : handlers'[r][h] = handlers[r][h]
  BY <1>5, <1>6 DEF With
<1>8. \/ /\ Indexed(r, i) = {} /\ b = k
         /\ DOMAIN bbs'[r] = DOMAIN bbs[r] \cup {k} /\ bbs'[r][k] = NewBb(i)
         /\ \A c \in DOMAIN bbs[r] : c # k /\ bbs'[r][c] = bbs[r][c]
      \/ b \in Indexed(r, i) /\ bbs'[r] = bbs[r]
  BY <1>3, <1>5, <1>6 DEF With
<1>9. Attached(r, k, calls, b)
  BY <1>1, <1>2, <1>5, <1>6, <1>7, <1>8 DEF Attached, i
<1> QED
  BY <1>4, <1>9 DEF b, i

LEMMA AttachedKept ==
    ASSUME IInv, CallsInv, NEW r \in Ranks, NEW calls, Continues(calls, coll),
           NEW k \in 1 .. Len(calls), NEW b, Attached(r, k, calls, b),
           \A j \in 1 .. Len(coll) : calls[j] = coll[j],
           \A j \in 1 .. Len(calls) : j > Len(coll) => DOMAIN calls[j].offered \subseteq Ranks
    PROVE  /\ Kept /\ Len(coll') = Len(calls)
           /\ \A j \in 1 .. Len(calls) : Same(coll'[j], calls[j]) /\ coll'[j].size = calls[j].size
<1>1. PICK x : x = bbs'[r][b].local
  OBVIOUS
<1>2. coll' = Offers(calls, k, r, x)
  BY <1>1 DEF Attached, Offers
<1> QED
  BY <1>2, JoinKept

LEMMA AttachCalls ==
    ASSUME IInv, CallsInv, NEW r \in Ranks, NEW calls, Continues(calls, coll),
           NEW k \in 1 .. Len(calls), at[r] < k, NEW fd, Attach(r, k, calls, fd),
           at' = [at EXCEPT ![r] = k], pc[r] = "idle",
           \A j \in 1 .. Len(coll) : calls[j] = coll[j],
           \A j \in 1 .. Len(calls) : j > Len(coll) =>
               calls[j].op = "open" /\ calls[j].comm \subseteq Ranks /\ DOMAIN calls[j].offered \subseteq Ranks,
           Kept /\ Len(coll') = Len(calls) /\ k \in DOMAIN handlers'[r]
               /\ DOMAIN handlers[r] \subseteq DOMAIN handlers'[r] => ToCome(r)' /\ at'[r] = k,
           calls[k].op = "open", calls[k].size # Failed
    PROVE  CallsInv'
<1> DEFINE b == NextBb(r, calls[k].file[1], k)
<1>1. Others(r) /\ Attached(r, k, calls, b)
  BY AttachFacts
<1> HIDE DEF b
<1>2. /\ Kept /\ Len(coll') = Len(calls)
      /\ \A j \in 1 .. Len(calls) : Same(coll'[j], calls[j]) /\ coll'[j].size = calls[j].size
  <2>1. \A j \in 1 .. Len(calls) : j > Len(coll) => DOMAIN calls[j].offered \subseteq Ranks
    OBVIOUS
  <2> QED
    BY <1>1, <2>1, AttachedKept
<1>3. ASSUME NEW j \in 1 .. Len(coll'), j > Len(coll) PROVE CallOk(j)'
  <2>1. calls[j].op = "open" /\ calls[j].comm \subseteq Ranks /\ Same(coll'[j], calls[j])
    BY <1>2, <1>3
  <2> QED
    BY <1>2, <2>1 DEF CallOk, Same, Kept
<1>4. \A q \in Ranks : Fits(q)
  BY <1>2 DEF Fits, Same
<1>5. ToCome(r)' /\ at'[r] = k
  BY <1>1, <1>2 DEF Attached
<1>6. coll'[k].op = "open" /\ coll'[k].size # Failed
  BY <1>2 DEF Same
<1>7. InCall(r)'
  <2>1. pc' = [pc EXCEPT ![r] = IF Cardinality(calls[k].comm) = 1 THEN "idle" ELSE "gather"]
    BY DEF Attach, Gather
  <2>2. pc'[r] # "size"
    BY <2>1 DEF CallsInv
  <2> QED
    BY <1>1, <1>2, <1>5, <1>6, <2>2 DEF InCall, HandlerOf, Attached
<1>8. RankOk(r)'
  <2>1. RankOk(r) /\ \A h \in DOMAIN handlers[r] : h \in 1 .. Len(coll)
    BY ListDomain DEF CallsInv, IInv, Shape, WellFormed, FromCalls
  <2>2. \A j \in 1 .. Len(coll) : Same(coll'[j], coll[j])
    BY <1>2 DEF Kept, Continues
  <2>3. \A h \in DOMAIN handlers'[r] : coll'[h].op = "open" /\ coll'[h].size # Failed
    <3>1. \A h \in DOMAIN handlers[r] : coll[h].op = "open" /\ coll[h].size # Failed
      BY <2>1 DEF RankOk
    <3>2. \A h \in DOMAIN handlers[r] : coll'[h].op = coll[h].op
      BY <2>1, <2>2 DEF Same
    <3>3. \A h \in DOMAIN handlers[r] : coll'[h].size = coll[h].size
      BY <1>2, <2>1, <3>1 DEF Kept
    <3>4. \A h \in DOMAIN handlers'[r] : h \in DOMAIN handlers[r] \/ h = k
      BY <1>1 DEF Attached
    <3> QED
      BY <1>6, <3>1, <3>2, <3>3, <3>4
  <2>4. {"ino", "global", "local"} \subseteq DOMAIN NewBb(calls[k].file[1])
    BY DEF NewBb
  <2>5. CASE b \in Indexed(r, calls[k].file[1]) /\ bbs'[r] = bbs[r]
    BY <1>1, <2>1, <2>3, <2>5 DEF RankOk, Attached, Indexed
  <2>6. CASE ~ (b \in Indexed(r, calls[k].file[1]) /\ bbs'[r] = bbs[r])
    <3>1. /\ DOMAIN bbs'[r] = DOMAIN bbs[r] \cup {k} /\ b = k /\ store'[r] = store[r] \cup {k}
          /\ bbs'[r][k] = NewBb(calls[k].file[1]) /\ \A c \in DOMAIN bbs[r] : bbs'[r][c] = bbs[r][c]
      BY <1>1, <2>6 DEF Attached
    <3>2. /\ DOMAIN handlers'[r] = DOMAIN handlers[r] \cup {k} /\ handlers'[r][k].bb = k
          /\ \A h \in DOMAIN handlers[r] : handlers'[r][h] = handlers[r][h]
      BY <1>1, <3>1 DEF Attached
    <3>3. store'[r] \subseteq DOMAIN bbs'[r]
      BY <2>1, <3>1 DEF RankOk
    <3>4. \A c \in DOMAIN bbs'[r] : {"ino", "global", "local"} \subseteq DOMAIN bbs'[r][c]
      BY <2>1, <2>4, <3>1 DEF RankOk
    <3>5. \A h \in DOMAIN handlers'[r] : handlers'[r][h].bb \in DOMAIN bbs'[r]
      BY <2>1, <3>1, <3>2 DEF RankOk
    <3> QED
      BY <2>3, <3>3, <3>4, <3>5 DEF RankOk
  <2> QED
    BY <2>5, <2>6
<1> QED
  BY <1>1, <1>2, <1>3, <1>4, <1>5, <1>7, <1>8, OneRank

LEMMA OpenCalls ==
    ASSUME IInv, CallsInv, NEW r \in Ranks, NEW C \in Comms, NEW p, NEW flags,
           Open(r, C, p, flags), \A o \in OpenPath(p, flags) : o.disk[o.file[1]].size # Failed
    PROVE  CallsInv'
<1> DEFINE k == Len(coll) + 1
<1>1. PICK o \in OpenPath(p, flags) :
          Attach(r, k, Append(coll, OpenCall(C, p, flags, o.file, o.disk[o.file[1]].size)), o.file)
  BY DEF Open
<1> DEFINE size == o.disk[o.file[1]].size
           c == OpenCall(C, p, flags, o.file, size)
           calls == Append(coll, c)
<1>2. size # Failed
  OBVIOUS
<1> HIDE DEF size
<1>3. /\ Fields \subseteq DOMAIN c /\ c.op = "open" /\ c.comm = C /\ DOMAIN c.offered = {}
      /\ c.size # Failed
  BY <1>2 DEF OpenCall, Fields
<1>4. Attach(r, k, calls, o.file)
  BY <1>1 DEF size
<1> HIDE DEF c
<1>5. Continues(calls, coll) /\ Len(calls) = Len(coll) + 1 /\ Len(coll) \in Nat
  BY <1>3, Added
<1>6. calls[k] = c /\ \A j \in 1 .. Len(coll) : calls[j] = coll[j]
  BY <1>3, Added
<1> HIDE DEF calls
<1>7. k \in 1 .. Len(calls) /\ \A j \in 1 .. Len(calls) : j > Len(coll) => j = k
  BY <1>5
<1>8. at[r] < k /\ pc[r] = "idle" /\ at' = [at EXCEPT ![r] = k]
  BY <1>5 DEF IInv, Shape, Open
<1>9. C \subseteq Ranks
  BY StoreAssumption
<1>10. \A j \in 1 .. Len(calls) : j > Len(coll) =>
           calls[j].op = "open" /\ calls[j].comm \subseteq Ranks /\ DOMAIN calls[j].offered \subseteq Ranks
  BY <1>3, <1>6, <1>7, <1>9
<1>11. Kept /\ Len(coll') = Len(calls) => ToCome(r)' /\ at'[r] = k
  BY <1>5, <1>8, NewMade
<1>12. calls[k].op = "open" /\ calls[k].size # Failed
  BY <1>3, <1>6
<1> HIDE DEF k
<1> QED
  BY <1>4, <1>5, <1>6, <1>7, <1>8, <1>10, <1>11, <1>12, AttachCalls

LEMMA OpenOtherCalls ==
    ASSUME IInv, CallsInv, NEW r \in Ranks, OpenOther(r) PROVE CallsInv'
<1> DEFINE k == NextCall(r)
<1>1. k \in 1 .. Len(coll) /\ at[r] < k /\ Calls(r) # {} /\ Len(coll) \in Nat
  BY NextCallIsNext, ListDomain DEF OpenOther, IInv, Shape, WellFormed
<1>2. coll[k].op = "open" /\ at' = [at EXCEPT ![r] = k] /\ pc[r] = "idle"
  BY DEF OpenOther
<1>3. Continues(coll, coll) /\ \A j \in 1 .. Len(coll) : ~ (j > Len(coll))
  BY <1>1, Keeping DEF IInv, Shape
<1>4. CASE coll[k].size = Failed
  <2>1. UNCHANGED <<bbs, store, handlers, coll, pc, holds>>
    BY <1>4 DEF OpenOther
  <2>2. Kept /\ \A q \in Ranks : Fits(q)
    BY <2>1, NoCall
  <2>3. ToCome(r)'
    BY <1>1, <1>2, <1>4, <2>1, <2>2, NextMade
  <2>4. Others(r)
    BY <1>2, <2>1 DEF Others, CallsInv, IInv, Shape
  <2>5. InCall(r)'
    BY <1>2, <2>1 DEF InCall
  <2>6. RankOk(r)'
    BY <2>1 DEF RankOk, CallsInv
  <2> QED
    BY <2>1, <2>2, <2>3, <2>4, <2>5, <2>6, NoCall, OneRank
<1>5. CASE coll[k].size # Failed
  <2>1. Attach(r, k, coll, NoFile)
    BY <1>5 DEF OpenOther
  <2>2. ASSUME Kept, Len(coll') = Len(coll), k \in DOMAIN handlers'[r],
               DOMAIN handlers[r] \subseteq DOMAIN handlers'[r]
        PROVE  ToCome(r)' /\ at'[r] = k
    BY <1>1, <1>2, <2>2, NextMade
  <2> HIDE DEF k
  <2> QED
    BY <1>1, <1>2, <1>3, <1>5, <2>1, <2>2, AttachCalls
<1> QED
  BY <1>4, <1>5

LEMMA CallsStayRight ==
    ASSUME IInv, CallsInv, UNCHANGED <<coll, at, handlers, bbs, store, pc, holds>>
    PROVE  CallsInv'
<1>1. Kept /\ \A q \in Ranks : Fits(q)
  BY NoCall
<1>2. CallsOk'
  BY DEF CallsInv, CallsOk, CallOk
<1>3. \A r \in Ranks : (RankOk(r) /\ InCall(r) /\ ToCome(r))'
  BY DEF CallsInv, RankOk, InCall, ToCome, HandlerOf, Calls
<1> QED
  BY <1>2, <1>3 DEF CallsInv

LEMMA InitCalls == Init => CallsInv
<1> SUFFICES ASSUME Init PROVE CallsInv
  OBVIOUS
<1>1. DOMAIN coll = {} /\ Len(coll) = 0
  BY DEF Init
<1>2. CallsOk
  BY <1>1 DEF CallsOk
<1>3. \A r \in Ranks : Calls(r) = {}
  BY <1>1 DEF Calls
<1> QED
  BY <1>2, <1>3 DEF Init, CallsInv, RankOk, InCall, ToCome

\* What the root learns of the size of a file is a size.
LEMMA SizeIsNatural ==
    ASSUME IInv, dir \in [Paths -> {NoIno} \cup Inos], NEW p \in Paths, NEW flags,
           NEW o \in OpenPath(p, flags)
    PROVE  o.disk[o.file[1]].size # Failed
<1>1. o.disk \in [Inos -> [life : Nat, size : Nat]]
  BY OpenPathFacts DEF IInv
<1>2. o.file[1] \in Inos
  BY DEF OpenPath, Now, File
<1> QED
  BY <1>1, <1>2 DEF Failed

-----------------------------------------------------------------------------
(* Files keep their names, and indices their files. *)

NamesKept == \A f : Named(f) => Named(f)'

NewNamed ==
    \A k \in 1 .. Len(coll') :
        k > Len(coll) /\ coll'[k].op = "open" /\ coll'[k].size # Failed => Named(coll[k].file)'

LEMMA CallsAndIndices ==
    ASSUME IInv, CallsInv, Kept, NEW q \in Ranks
    PROVE  /\ Len(coll) \in Nat /\ Len(coll') \in Nat /\ Len(coll) <= Len(coll')
           /\ DOMAIN coll = 1 .. Len(coll) /\ DOMAIN coll' = 1 .. Len(coll')
           /\ \A k \in 1 .. Len(coll) : Same(coll'[k], coll[k])
           /\ \A b \in DOMAIN bbs[q] : b \in 1 .. Len(coll)
           /\ \A h \in DOMAIN handlers[q] : h \in 1 .. Len(coll) /\ handlers[q][h].bb \in DOMAIN bbs[q]
<1>1. /\ Len(coll) \in Nat /\ Len(coll') \in Nat /\ Len(coll) <= Len(coll')
      /\ DOMAIN coll = 1 .. Len(coll) /\ DOMAIN coll' = 1 .. Len(coll')
  BY ListDomain DEF IInv, Shape, Kept, Continues, WellFormed
<1>2. at[q] \in Nat /\ at[q] <= Len(coll)
  BY DEF IInv, Shape
<1> QED
  BY <1>1, <1>2 DEF IInv, FromCalls, CallsInv, RankOk, Kept, Continues

LEMMA FilesNamedKept ==
    ASSUME IInv, CallsInv, Kept, NEW q \in Ranks, FilesNamed(q), NamesKept, NewNamed,
           at[q] <= at'[q], at'[q] \in Nat, \A f \in holds'[q] : f \in holds[q] \/ Named(f)'
    PROVE  FilesNamed(q)'
<1>1. \A f \in holds'[q] : Named(f)'
  BY DEF FilesNamed, NamesKept
<1>2. ASSUME NEW k \in Calls(q)', coll'[k].op = "open", coll'[k].size # Failed
      PROVE  Named(coll[k].file)'
  <2>1. k \in 1 .. Len(coll') /\ k > at'[q] /\ q \in coll'[k].comm
    BY CallsAndIndices DEF Calls
  <2>2. CASE k > Len(coll)
    BY <1>2, <2>1, <2>2 DEF NewNamed
  <2>3. CASE k \in 1 .. Len(coll)
    <3>1. Same(coll'[k], coll[k]) /\ k \in DOMAIN coll /\ at[q] \in Nat
      BY <2>3, CallsAndIndices DEF IInv, Shape
    <3>2. k \in Calls(q) /\ coll[k].op = "open"
      BY <1>2, <2>1, <2>3, <3>1 DEF Calls, Same
    <3>3. coll[k].size # Failed /\ coll'[k].file = coll[k].file
      BY <1>2, <2>3, <3>1, <3>2 DEF Kept, Same
    <3> QED
      BY <3>2, <3>3 DEF FilesNamed, NamesKept
  <2> QED
    BY <2>1, <2>2, <2>3, CallsAndIndices
<1> QED
  BY <1>1, <1>2 DEF FilesNamed

LEMMA OneFileKept ==
    ASSUME IInv, CallsInv, Kept, NEW q \in Ranks, OneFile(q),
           \A b \in DOMAIN bbs'[q] :
               /\ b \in DOMAIN bbs[q] /\ bbs'[q][b].ino = bbs[q][b].ino
               /\ EntryOf(bbs'[q][b].local, coll[b].file)
               /\ EntryOf(bbs'[q][b].global, coll[b].file),
           \A b \in store'[q] : b \in DOMAIN bbs[q] /\ coll[b].file \in holds'[q],
           \A h \in DOMAIN handlers'[q] :
               h \in DOMAIN handlers[q] /\ handlers'[q][h].bb = handlers[q][h].bb
    PROVE  OneFile(q)'
<1>1. \A b \in DOMAIN bbs[q] : coll'[b].file = coll[b].file
  BY CallsAndIndices DEF Same
<1>2. \A h \in DOMAIN handlers[q] :
          coll'[h].file = coll[h].file /\ coll'[handlers[q][h].bb].file = coll[h].file
  BY <1>1, CallsAndIndices DEF Same, OneFile
<1> QED
  BY <1>1, <1>2 DEF OneFile

LEMMA OneRankFiles ==
    ASSUME IInv, CallsInv, FilesInv, NEW r \in Ranks, Others(r), Kept,
           dir' \in [Paths -> {NoIno} \cup Inos], stale' = stale,
           ~ stale => NamesKept /\ NewNamed /\ OffersOfFile' /\ FilesNamed(r)' /\ OneFile(r)'
    PROVE  FilesInv'
<1> SUFFICES ASSUME ~ stale, NEW q \in Ranks, q # r PROVE FilesNamed(q)' /\ OneFile(q)'
  BY DEF FilesInv
<1>1. FilesNamed(q) /\ OneFile(q) /\ at[q] \in Nat /\ RankOk(q)
  BY DEF FilesInv, IInv, Shape, CallsInv
<1>2. FilesNamed(q)'
  BY <1>1, FilesNamedKept DEF Others
<1>3. OneFile(q)'
  <2>1. /\ \A b \in DOMAIN bbs[q] : bbs'[q] = bbs[q] /\ EntryOf(bbs[q][b].local, coll[b].file)
              /\ EntryOf(bbs[q][b].global, coll[b].file)
        /\ \A b \in store[q] : b \in DOMAIN bbs[q] /\ coll[b].file \in holds[q]
    BY <1>1 DEF OneFile, RankOk, Others
  <2> QED
    BY <1>1, <2>1, OneFileKept DEF Others
<1> QED
  BY <1>2, <1>3

\* A step that adds no call and no offer, and leaves the directory alone.
LEMMA NoFileNamed ==
    ASSUME IInv, CallsInv, FilesInv, UNCHANGED dir, \A i : disk'[i].life = disk[i].life
    PROVE  NamesKept /\ dir' \in [Paths -> {NoIno} \cup Inos]
  BY DEF NamesKept, Named, Now, FilesInv

LEMMA NoOffer ==
    ASSUME IInv, CallsInv, Kept, Len(coll') = Len(coll), OffersOfFile,
           \A k \in 1 .. Len(coll) : coll'[k].offered = coll[k].offered
    PROVE  OffersOfFile' /\ NewNamed
<1>1. /\ Len(coll) \in Nat /\ \A k \in 1 .. Len(coll) : Same(coll'[k], coll[k])
  BY ListDomain DEF IInv, Shape, Kept, Continues, WellFormed
<1> QED
  BY <1>1 DEF OffersOfFile, NewNamed, Same

\* Steps that only change what a rank has.
LEMMA RankFiles ==
    ASSUME IInv, CallsInv, FilesInv, NEW r \in Ranks, Others(r), Kept, Len(coll') = Len(coll),
           \A k \in 1 .. Len(coll) : coll'[k].offered = coll[k].offered,
           UNCHANGED <<dir, disk, at, stale>>, holds'[r] \subseteq holds[r],
           ~ stale /\ OneFile(r) => OneFile(r)'
    PROVE  FilesInv'
<1>1. NamesKept /\ dir' \in [Paths -> {NoIno} \cup Inos]
  BY NoFileNamed
<1> SUFFICES ASSUME ~ stale PROVE NewNamed /\ OffersOfFile' /\ FilesNamed(r)' /\ OneFile(r)'
  BY <1>1, OneRankFiles
<1>2. OffersOfFile' /\ NewNamed
  BY NoOffer DEF FilesInv
<1>3. at[r] \in Nat /\ at'[r] = at[r]
  BY DEF IInv, Shape
<1>4. FilesNamed(r)'
  BY <1>1, <1>2, <1>3, FilesNamedKept DEF FilesInv
<1> QED
  BY <1>2, <1>4 DEF FilesInv

LEMMA SizesFiles ==
    ASSUME IInv, CallsInv, FilesInv, NEW r \in Ranks, SyncSizeRoot(r) \/ SyncSize(r)
    PROVE  FilesInv'
<1>1. SizesKept(r)
  BY SizesFacts
<1>2. ASSUME OneFile(r) PROVE OneFile(r)'
  <2>1. \A b \in store[r] : b \in DOMAIN bbs[r]
    BY DEF CallsInv, RankOk
  <2> QED
    BY <1>1, <1>2, <2>1, OneFileKept DEF OneFile, SizesKept
<1> QED
  BY <1>1, <1>2, RankFiles DEF SizesKept

LEMMA PwriteFiles ==
    ASSUME IInv, CallsInv, FilesInv, NEW r \in Ranks, NEW h, Pwrite(r, h)
    PROVE  FilesInv'
<1> DEFINE b == handlers[r][h].bb
           entry == Entry(nwrites, coll[h].file)
<1>1. bbs' = [bbs EXCEPT ![r][b].local = entry] /\ h \in DOMAIN handlers[r]
  BY DEF Pwrite
<1>2. UNCHANGED <<dir, disk, store, handlers, coll, at, pc, holds, stale>>
  BY DEF Pwrite, history
<1>3. Others(r)
  BY <1>1, <1>2 DEF Others, CallsInv, IInv, Shape
<1>4. entry[2] = coll[h].file
  BY DEF Entry
<1> HIDE DEF b, entry
<1>5. ASSUME OneFile(r) PROVE OneFile(r)'
  <2>1. RankOk(r)
    BY DEF CallsInv
  <2>2. DOMAIN bbs'[r] = DOMAIN bbs[r]
    BY <1>1 DEF IInv, Shape
  <2>3. \A c \in DOMAIN bbs[r] :
            /\ bbs'[r][c].ino = bbs[r][c].ino /\ bbs'[r][c].global = bbs[r][c].global
            /\ bbs'[r][c].local = IF c = b THEN entry ELSE bbs[r][c].local
    BY <1>1, <2>1 DEF IInv, Shape, RankOk
  <2>4. coll[b].file = coll[h].file
    BY <1>1, <1>5 DEF OneFile, b
  <2>5. \A c \in DOMAIN bbs'[r] :
            /\ c \in DOMAIN bbs[r] /\ bbs'[r][c].ino = bbs[r][c].ino
            /\ EntryOf(bbs'[r][c].local, coll[c].file)
            /\ EntryOf(bbs'[r][c].global, coll[c].file)
    BY <1>4, <1>5, <2>2, <2>3, <2>4 DEF OneFile, EntryOf
  <2>6. /\ \A c \in store'[r] : c \in DOMAIN bbs[r] /\ coll[c].file \in holds'[r]
        /\ \A g \in DOMAIN handlers'[r] :
              g \in DOMAIN handlers[r] /\ handlers'[r][g].bb = handlers[r][g].bb
    BY <1>2, <1>5, <2>1 DEF OneFile, RankOk
  <2> QED
    BY <1>2, <1>5, <2>5, <2>6, NoCall, OneFileKept
<1> QED
  BY <1>2, <1>3, <1>5, NoCall, RankFiles

LEMMA OpenDeferredFiles ==
    ASSUME IInv, CallsInv, FilesInv, NEW r \in Ranks, NEW h, OpenDeferred(r, h)
    PROVE  FilesInv'
<1>1. PICK o \in OpenPath(coll[h].path, RankFlags(r, h)) :
          handlers' = [handlers EXCEPT ![r][h].fd = o.file] /\ dir' = o.dir /\ disk' = o.disk
  BY DEF OpenDeferred
<1>2. UNCHANGED <<bbs, store, coll, at, pc, holds, stale>>
  BY DEF OpenDeferred, history
\* The rank is not the root, which has its file open.
<1>3. dir' = dir /\ disk' = disk
  <2>1. r # RootOf(coll[h].comm)
    BY DEF OpenDeferred, IInv, RootsOpen
  <2>2. "creat" \notin RankFlags(r, h) /\ "trunc" \notin RankFlags(r, h)
    BY <2>1 DEF RankFlags
  <2> QED
    BY <1>1, <2>2 DEF OpenPath
<1>4. Others(r)
  BY <1>1, <1>2 DEF Others, CallsInv, IInv, Shape
<1>5. \A g \in DOMAIN handlers'[r] : g \in DOMAIN handlers[r] /\ handlers'[r][g].bb = handlers[r][g].bb
  BY <1>1 DEF IInv, Shape
<1>6. ASSUME OneFile(r) PROVE OneFile(r)'
  <2>1. \A b \in store[r] : b \in DOMAIN bbs[r]
    BY DEF CallsInv, RankOk
  <2> QED
    BY <1>2, <1>5, <1>6, <2>1, NoCall, OneFileKept DEF OneFile
<1> QED
  BY <1>2, <1>3, <1>4, <1>6, NoCall, RankFiles

\* What a rank does not use any more goes, and the rest is as it was.
LEMMA ReleasedFiles ==
    ASSUME IInv, CallsInv, NEW r \in Ranks, Release(r), UNCHANGED coll, OneFile(r),
           \A b \in store'[r] : b \in store[r] /\ coll[b].file \in holds'[r],
           \A h \in DOMAIN handlers'[r] : h \in DOMAIN handlers[r] /\ handlers'[r][h] = handlers[r][h]
    PROVE  OneFile(r)'
<1>1. \A b \in DOMAIN bbs'[r] : b \in DOMAIN bbs[r] /\ bbs'[r][b] = bbs[r][b]
  BY Released
<1>2. \A b \in store[r] : b \in DOMAIN bbs[r]
  BY DEF CallsInv, RankOk
<1>3. \A b \in DOMAIN bbs'[r] :
          /\ b \in DOMAIN bbs[r] /\ bbs'[r][b].ino = bbs[r][b].ino
          /\ EntryOf(bbs'[r][b].local, coll[b].file) /\ EntryOf(bbs'[r][b].global, coll[b].file)
  BY <1>1 DEF OneFile
<1> QED
  BY <1>2, <1>3, NoCall, OneFileKept

LEMMA CloseFiles ==
    ASSUME IInv, CallsInv, FilesInv, NEW r \in Ranks, NEW h, Close(r, h)
    PROVE  FilesInv'
<1>1. /\ UNCHANGED <<dir, disk, store, coll, at, pc, holds, stale>> /\ Release(r)
      /\ handlers' = [handlers EXCEPT ![r] = [k \in DOMAIN @ \ {h} |-> @[k]]]
  BY DEF Close, history
<1>2. Others(r)
  BY <1>1 DEF Others, Release, CallsInv, IInv, Shape
<1>3. \A g \in DOMAIN handlers'[r] : g \in DOMAIN handlers[r] /\ handlers'[r][g] = handlers[r][g]
  BY <1>1 DEF IInv, Shape
<1>4. ASSUME OneFile(r) PROVE OneFile(r)'
  BY <1>1, <1>3, <1>4, ReleasedFiles DEF OneFile
<1> QED
  BY <1>1, <1>2, <1>4, NoCall, RankFiles

LEMMA UnlinkFiles ==
    ASSUME IInv, CallsInv, FilesInv, NEW r \in Ranks, NEW p, Unlink(r, p)
    PROVE  FilesInv'
<1>1. /\ UNCHANGED <<dir, disk, handlers, coll, at, pc, stale>> /\ Release(r)
      /\ store' = [store EXCEPT ![r] = @ \ Indexed(r, dir[p])]
      /\ holds' = [holds EXCEPT ![r] = @ \ {Now(dir[p])}]
  BY DEF Unlink, history
<1>2. Others(r)
  BY <1>1 DEF Others, Release, CallsInv, IInv, Shape
<1>3. /\ store'[r] = store[r] \ Indexed(r, dir[p]) /\ holds'[r] = holds[r] \ {Now(dir[p])}
  BY <1>1 DEF CallsInv, IInv, Shape
<1>4. ASSUME OneFile(r) PROVE OneFile(r)'
  <2>1. ASSUME NEW b \in store'[r] PROVE b \in store[r] /\ coll[b].file \in holds'[r]
    <3>1. b \in store[r] /\ bbs[r][b].ino # dir[p]
      BY <1>3 DEF Indexed
    <3>2. coll[b].file \in holds[r] /\ coll[b].file[1] # dir[p]
      BY <1>4, <3>1 DEF OneFile, CallsInv, RankOk
    <3>3. Now(dir[p])[1] = dir[p]
      BY DEF Now, File
    <3> QED
      BY <1>3, <3>1, <3>2, <3>3
  <2> QED
    BY <1>1, <1>4, <2>1, ReleasedFiles
<1> QED
  BY <1>1, <1>2, <1>3, <1>4, NoCall, RankFiles

\* The highest rank's entry is one that was offered, or there was none.
LEMMA NewestIsOne ==
    ASSUME NEW entry, NEW offered, DOMAIN offered \subseteq Ranks
    PROVE  \/ Newest(entry, offered) = entry
           \/ \E q \in DOMAIN offered : offered[q] # None /\ Newest(entry, offered) = offered[q]
<1> DEFINE writers == {q \in DOMAIN offered : offered[q] # None}
           backwards == {n \in Nat : NRanks - 1 - n \in writers}
<1> SUFFICES ASSUME writers # {} PROVE \E q \in writers : \A s \in writers : s <= q
  BY DEF Newest
<1>1. \A q \in writers : q \in Nat /\ NRanks - 1 - q \in backwards
  BY StoreAssumption DEF Ranks
<1>2. PICK n \in backwards : \A m \in backwards : ~ (<<m, n>> \in OpToRel(<, Nat))
  BY <1>1, NatLessThanWellFounded, WFMin
<1>3. ASSUME NEW m \in backwards PROVE n <= m
  <2>1. m \in Nat /\ n \in Nat
    OBVIOUS
  <2>2. <<m, n>> \in Nat \X Nat /\ <<m, n>>[1] = m /\ <<m, n>>[2] = n
    BY <2>1
  <2> QED
    BY <1>2, <2>1, <2>2 DEF OpToRel
<1>4. NRanks - 1 - n \in writers /\ n \in Nat
  OBVIOUS
<1>5. ASSUME NEW s \in writers PROVE s <= NRanks - 1 - n
  BY <1>1, <1>3, <1>4, StoreAssumption
<1> QED
  BY <1>4, <1>5

LEMMA MergeFiles ==
    ASSUME IInv, CallsInv, FilesInv, NEW r \in Ranks, Merge(r)
    PROVE  FilesInv'
<1> DEFINE k == at[r]
           h == HandlerOf(k)
           b == handlers[r][h].bb
           newest == Newest(bbs[r][b].global, coll[k].offered)
           left == IF coll[k].comm = Ranks THEN None ELSE bbs[r][b].local
<1>1. /\ bbs' = [bbs EXCEPT ![r][b].global = newest, ![r][b].local = left]
      /\ UNCHANGED <<dir, disk, store, handlers, coll, at, holds, stale>>
      /\ pc[r] = "gather" /\ pc' = [pc EXCEPT ![r] = IF coll[at[r]].op = "open" THEN "idle" ELSE "size"]
  BY DEF Merge, history
<1>2. k \in 1 .. Len(coll) /\ h \in DOMAIN handlers[r] /\ RankOk(r) /\ b \in DOMAIN bbs[r]
  BY <1>1 DEF CallsInv, InCall, RankOk
<1>3. coll[h].file = coll[k].file
  BY <1>2 DEF CallsInv, CallsOk, CallOk, HandlerOf
<1>4. DOMAIN coll[k].offered \subseteq Ranks
  BY <1>2 DEF CallsInv, CallsOk, CallOk
<1>5. left = None \/ left = bbs[r][b].local
  OBVIOUS
<1>6. \/ newest = bbs[r][b].global
      \/ \E q \in DOMAIN coll[k].offered :
            coll[k].offered[q] # None /\ newest = coll[k].offered[q]
  BY <1>4, NewestIsOne
<1>7. ASSUME OneFile(r) PROVE coll[b].file = coll[k].file
  BY <1>2, <1>3, <1>7 DEF OneFile
<1> HIDE DEF newest, left, b, h, k
<1>8. Others(r)
  BY <1>1 DEF Others, CallsInv, IInv, Shape
<1>9. ASSUME ~ stale, OneFile(r) PROVE OneFile(r)'
  <2>1. DOMAIN bbs'[r] = DOMAIN bbs[r]
    BY <1>1 DEF IInv, Shape
  <2>2. \A c \in DOMAIN bbs[r] :
            /\ bbs'[r][c].ino = bbs[r][c].ino
            /\ bbs'[r][c].global = IF c = b THEN newest ELSE bbs[r][c].global
            /\ bbs'[r][c].local = IF c = b THEN left ELSE bbs[r][c].local
    BY <1>1, <1>2 DEF IInv, Shape, RankOk
  <2>3. EntryOf(newest, coll[b].file)
    <3>1. \A q \in DOMAIN coll[k].offered : EntryOf(coll[k].offered[q], coll[b].file)
      BY <1>2, <1>7, <1>9 DEF FilesInv, OffersOfFile
    <3>2. EntryOf(bbs[r][b].global, coll[b].file)
      BY <1>2, <1>9 DEF OneFile
    <3> QED
      BY <1>6, <3>1, <3>2
  <2>4. EntryOf(left, coll[b].file)
    BY <1>2, <1>5, <1>9 DEF OneFile, EntryOf
  <2>5. \A c \in DOMAIN bbs'[r] :
            /\ c \in DOMAIN bbs[r] /\ bbs'[r][c].ino = bbs[r][c].ino
            /\ EntryOf(bbs'[r][c].local, coll[c].file)
            /\ EntryOf(bbs'[r][c].global, coll[c].file)
    BY <1>9, <2>1, <2>2, <2>3, <2>4 DEF OneFile
  <2>6. /\ \A c \in store'[r] : c \in DOMAIN bbs[r] /\ coll[c].file \in holds'[r]
        /\ \A g \in DOMAIN handlers'[r] :
              g \in DOMAIN handlers[r] /\ handlers'[r][g].bb = handlers[r][g].bb
    BY <1>1, <1>2, <1>9 DEF OneFile, RankOk
  <2> QED
    BY <1>1, <1>9, <2>5, <2>6, NoCall, OneFileKept
<1> QED
  BY <1>1, <1>8, <1>9, NoCall, RankFiles

\* Offers when a rank has joined call k.
LEMMA JoinedOffers ==
    ASSUME IInv, CallsInv, NEW r \in Ranks, NEW calls, Continues(calls, coll),
           NEW k \in 1 .. Len(calls), NEW x, coll' = Offers(calls, k, r, x),
           \A j \in 1 .. Len(coll) : calls[j] = coll[j],
           \A j \in 1 .. Len(calls) : j > Len(coll) => DOMAIN calls[j].offered = {},
           OffersOfFile, EntryOf(x, calls[k].file)
    PROVE  OffersOfFile'
<1>1. WellFormed(calls)
  BY DEF Continues
<1>2. Len(coll) \in Nat /\ Len(calls) \in Nat /\ Len(coll) <= Len(calls)
  BY <1>1, ListDomain DEF IInv, Shape, WellFormed, Continues
<1> DEFINE w == With(calls[k].offered, r, x)
           t == [calls EXCEPT ![k].offered = w]
<1>3. coll' = t /\ t = [calls EXCEPT ![k].offered = w]
  BY DEF Offers
<1> HIDE DEF w, t
<1>4. Len(t) = Len(calls) /\ t[k].offered = w
  BY <1>1, <1>3, Joined
<1>5. \A j \in 1 .. Len(calls) : Same(t[j], calls[j])
  BY <1>1, <1>3, Joined
<1>6. \A j \in 1 .. Len(calls) : j # k => t[j] = calls[j]
  BY <1>1, <1>3, Joined
<1>7. \A j \in 1 .. Len(calls) : \A q \in DOMAIN calls[j].offered :
          EntryOf(calls[j].offered[q], calls[j].file)
  BY <1>2 DEF OffersOfFile
<1>8. \A j \in 1 .. Len(calls) : t[j].file = calls[j].file
  BY <1>5 DEF Same
<1>9. \A q \in DOMAIN w : EntryOf(w[q], calls[k].file)
  BY <1>7 DEF w, With
<1>10. \A j \in 1 .. Len(t) : \A q \in DOMAIN t[j].offered : EntryOf(t[j].offered[q], t[j].file)
  BY <1>4, <1>6, <1>7, <1>8, <1>9
<1> QED
  BY <1>3, <1>10 DEF OffersOfFile

LEMMA EnterSyncFiles ==
    ASSUME IInv, CallsInv, FilesInv, NEW r \in Ranks, NEW calls, Continues(calls, coll),
           NEW k \in 1 .. Len(calls), at[r] < k, EnterSync(r, k, calls),
           \A j \in 1 .. Len(coll) : calls[j] = coll[j],
           \A j \in 1 .. Len(calls) : j > Len(coll) =>
               DOMAIN calls[j].offered = {} /\ calls[j].op = "sync",
           UNCHANGED <<dir, disk, bbs, store, handlers, holds, stale>>,
           calls[k].of \in DOMAIN handlers[r], coll[calls[k].of].file = calls[k].file
    PROVE  FilesInv'
<1> DEFINE h == calls[k].of
           x == bbs[r][handlers[r][h].bb].local
<1>1. /\ coll' = Offers(calls, k, r, x)
      /\ pc' = [pc EXCEPT ![r] = IF Cardinality(calls[k].comm) = 1 THEN "size" ELSE "gather"]
      /\ at' = [at EXCEPT ![r] = k]
  BY DEF EnterSync, Offers
<1>2. ASSUME OneFile(r) PROVE EntryOf(x, calls[k].file)
  <2>1. h \in DOMAIN handlers[r] /\ handlers[r][h].bb \in DOMAIN bbs[r]
    BY DEF CallsInv, RankOk
  <2>2. coll[handlers[r][h].bb].file = calls[k].file
    BY <1>2, <2>1 DEF OneFile
  <2> QED
    BY <1>2, <2>1, <2>2 DEF OneFile
<1> HIDE DEF h, x
<1>3. \A j \in 1 .. Len(calls) : j > Len(coll) =>
          DOMAIN calls[j].offered \subseteq Ranks /\ DOMAIN calls[j].offered = {}
  OBVIOUS
<1>4. /\ Kept /\ Len(coll') = Len(calls)
      /\ \A j \in 1 .. Len(calls) : Same(coll'[j], calls[j])
  BY <1>1, <1>3, JoinKept
<1>5. Others(r)
  BY <1>1 DEF Others, CallsInv, IInv, Shape
<1>6. NamesKept /\ dir' \in [Paths -> {NoIno} \cup Inos]
  BY NoFileNamed
<1>7. NewNamed
  BY <1>4 DEF NewNamed, Same
<1> SUFFICES ASSUME ~ stale PROVE OffersOfFile' /\ FilesNamed(r)' /\ OneFile(r)'
  BY <1>4, <1>5, <1>6, <1>7, OneRankFiles
<1>8. OneFile(r) /\ FilesNamed(r) /\ OffersOfFile /\ RankOk(r)
  BY DEF FilesInv, CallsInv
<1>9. OffersOfFile'
  BY <1>1, <1>2, <1>3, <1>8, JoinedOffers
<1>10. FilesNamed(r)'
  <2>1. at'[r] = k /\ at'[r] \in Nat /\ at[r] <= at'[r]
    BY <1>1, <1>4, ListDomain DEF IInv, Shape, Continues, WellFormed
  <2> QED
    BY <1>4, <1>6, <1>7, <1>8, <2>1, FilesNamedKept
<1>11. OneFile(r)'
  <2>1. \A b \in DOMAIN bbs[r] :
            EntryOf(bbs[r][b].local, coll[b].file) /\ EntryOf(bbs[r][b].global, coll[b].file)
    BY <1>8 DEF OneFile
  <2>2. \A b \in store[r] : b \in DOMAIN bbs[r] /\ coll[b].file \in holds[r]
    BY <1>8 DEF OneFile, RankOk
  <2> QED
    BY <1>4, <1>8, <2>1, <2>2, OneFileKept
<1> QED
  BY <1>9, <1>10, <1>11

LEMMA SyncFiles ==
    ASSUME IInv, CallsInv, FilesInv, NEW r \in Ranks, NEW h, Sync(r, h)
    PROVE  FilesInv'
<1> DEFINE c == SyncCall(h)
           calls == Append(coll, c)
           k == Len(coll) + 1
<1>1. h \in DOMAIN handlers[r] /\ h \in 1 .. Len(coll) /\ Len(coll) \in Nat
  BY ListDomain DEF Sync, IInv, FromCalls, Shape, WellFormed
<1>2. /\ Fields \subseteq DOMAIN c /\ c.op = "sync" /\ c.of = h
      /\ c.file = coll[h].file /\ DOMAIN c.offered = {}
  BY <1>1 DEF SyncCall, Fields, IInv, Shape, WellFormed
<1>3. EnterSync(r, k, calls) /\ UNCHANGED <<dir, disk, bbs, store, handlers, holds, stale>>
  BY DEF Sync, history
<1> HIDE DEF c
<1>4. Continues(calls, coll) /\ Len(calls) = Len(coll) + 1
  BY <1>2, Added
<1>5. calls[k] = c /\ \A j \in 1 .. Len(coll) : calls[j] = coll[j]
  BY <1>2, Added
<1> HIDE DEF calls
<1>6. k \in 1 .. Len(calls) /\ \A j \in 1 .. Len(calls) : j > Len(coll) => j = k
  BY <1>1, <1>4
<1>7. at[r] < k
  BY <1>1 DEF IInv, Shape
<1>8. /\ \A j \in 1 .. Len(calls) : j > Len(coll) =>
            DOMAIN calls[j].offered = {} /\ calls[j].op = "sync"
      /\ calls[k].of \in DOMAIN handlers[r] /\ coll[calls[k].of].file = calls[k].file
  BY <1>1, <1>2, <1>5, <1>6
<1> HIDE DEF k
<1> QED
  BY <1>3, <1>4, <1>5, <1>6, <1>7, <1>8, EnterSyncFiles

LEMMA SyncOtherFiles ==
    ASSUME IInv, CallsInv, FilesInv, NEW r \in Ranks, SyncOther(r)
    PROVE  FilesInv'
<1> DEFINE k == NextCall(r)
<1>1. /\ k \in 1 .. Len(coll) /\ at[r] < k /\ k \in Calls(r) /\ Len(coll) \in Nat
      /\ \A l \in Calls(r) : k <= l
  BY NextCallIsNext, ListDomain DEF SyncOther, IInv, Shape, WellFormed
<1>2. /\ EnterSync(r, k, coll) /\ coll[k].op = "sync"
      /\ UNCHANGED <<dir, disk, bbs, store, handlers, holds, stale>>
  BY DEF SyncOther, history
<1>3. Continues(coll, coll) /\ \A j \in 1 .. Len(coll) : ~ (j > Len(coll))
  BY <1>1, Keeping DEF IInv, Shape
<1>4. coll[k].of \in DOMAIN handlers[r] /\ coll[coll[k].of].file = coll[k].file
  BY <1>1, <1>2, NextSync
<1> HIDE DEF k
<1> QED
  BY <1>1, <1>2, <1>3, <1>4, EnterSyncFiles

-----------------------------------------------------------------------------
(* What an open finds. *)

LEMMA OneNamePerNumber ==
    ASSUME NEW f, NEW g, Named(f), Named(g), f[1] = g[1]
    PROVE  f = g
  BY DEF Named, Now, File

LEMMA AttachFiles ==
    ASSUME IInv, CallsInv, FilesInv, NEW r \in Ranks, NEW calls, Continues(calls, coll),
           NEW k \in 1 .. Len(calls), at[r] < k, NEW fd, Attach(r, k, calls, fd),
           at' = [at EXCEPT ![r] = k],
           \A j \in 1 .. Len(coll) : calls[j] = coll[j],
           \A j \in 1 .. Len(calls) : j > Len(coll) => j = k /\ DOMAIN calls[j].offered = {},
           dir' \in [Paths -> {NoIno} \cup Inos], stale' = stale,
           ~ stale => NamesKept /\ Named(calls[k].file)',
           ~ stale => \A c \in store[r] :
               bbs[r][c].ino = calls[k].file[1] => coll[c].file = calls[k].file
    PROVE  FilesInv'
<1> DEFINE b == NextBb(r, calls[k].file[1], k)
           x == bbs'[r][b].local
<1>1. Others(r) /\ Attached(r, k, calls, b)
  BY AttachFacts
<1> HIDE DEF b
<1>2. coll' = Offers(calls, k, r, x)
  BY <1>1 DEF Attached
<1>3. \A j \in 1 .. Len(calls) : j > Len(coll) =>
          DOMAIN calls[j].offered \subseteq Ranks /\ DOMAIN calls[j].offered = {}
  OBVIOUS
<1> HIDE DEF x
<1>4. PICK y : y = x
  OBVIOUS
<1>5. coll' = Offers(calls, k, r, y)
  BY <1>2, <1>4
<1>6. /\ Kept /\ Len(coll') = Len(calls)
      /\ \A j \in 1 .. Len(calls) : Same(coll'[j], calls[j])
  BY <1>3, <1>5, JoinKept
<1> SUFFICES ASSUME ~ stale PROVE NewNamed /\ OffersOfFile' /\ FilesNamed(r)' /\ OneFile(r)'
  BY <1>1, <1>6, OneRankFiles
<1>7. OneFile(r) /\ FilesNamed(r) /\ OffersOfFile /\ RankOk(r)
  BY DEF FilesInv, CallsInv
<1>8. coll'[k].file = calls[k].file
  BY <1>6 DEF Same
<1>9. NewNamed
  BY <1>6, <1>8 DEF NewNamed, Named, Now
<1>10. FilesNamed(r)'
  <2>1. at'[r] = k /\ at'[r] \in Nat /\ at[r] <= at'[r]
    BY <1>6, ListDomain DEF IInv, Shape, Continues, WellFormed
  <2>2. \A f \in holds'[r] : f \in holds[r] \/ Named(f)'
    BY <1>1 DEF Attached, Named, Now
  <2> QED
    BY <1>6, <1>7, <1>9, <2>1, <2>2, FilesNamedKept
\* The index that the handler uses is of the file that is opened.
<1>11. /\ \A c \in DOMAIN bbs[r] : coll'[c].file = coll[c].file /\ c # k
       /\ \A g \in DOMAIN handlers[r] : coll'[g].file = coll[g].file /\ g # k
       /\ \A c \in store[r] : c \in DOMAIN bbs[r]
  <2>1. /\ \A c \in DOMAIN bbs[r] : coll'[c].file = coll[c].file
        /\ \A g \in DOMAIN handlers[r] : coll'[g].file = coll[g].file
    BY <1>6, CallsAndIndices DEF Same
  <2>2. /\ \A c \in DOMAIN bbs[r] : c # k
        /\ \A g \in DOMAIN handlers[r] : g # k
    BY DEF IInv, Shape, FromCalls
  <2> QED
    BY <1>7, <2>1, <2>2 DEF RankOk
<1>12. coll'[b].file = calls[k].file /\ b \in DOMAIN bbs'[r]
  <2>1. CASE b = k /\ b \in DOMAIN bbs'[r]
    BY <1>8, <2>1
  <2>2. CASE b \in Indexed(r, calls[k].file[1]) /\ bbs'[r] = bbs[r]
    BY <1>11, <2>2 DEF Indexed
  <2> QED
    BY <1>1, <2>1, <2>2 DEF Attached
<1>13. \A c \in DOMAIN bbs'[r] :
           /\ bbs'[r][c].ino = coll'[c].file[1]
           /\ EntryOf(bbs'[r][c].local, coll'[c].file)
           /\ EntryOf(bbs'[r][c].global, coll'[c].file)
  <2>1. \A c \in DOMAIN bbs[r] :
            /\ bbs[r][c].ino = coll'[c].file[1]
            /\ EntryOf(bbs[r][c].local, coll'[c].file)
            /\ EntryOf(bbs[r][c].global, coll'[c].file)
    BY <1>7, <1>11 DEF OneFile
  <2>2. CASE bbs'[r] = bbs[r]
    BY <2>1, <2>2
  <2>3. CASE /\ DOMAIN bbs'[r] = DOMAIN bbs[r] \cup {k} /\ bbs'[r][k] = NewBb(calls[k].file[1])
             /\ \A c \in DOMAIN bbs[r] : c # k /\ bbs'[r][c] = bbs[r][c]
    BY <1>8, <2>1, <2>3 DEF NewBb, EntryOf
  <2> QED
    BY <1>1, <2>2, <2>3 DEF Attached
<1>14. OneFile(r)'
  <2>1. \A c \in store'[r] : coll'[c].file \in holds'[r]
    BY <1>1, <1>7, <1>11, <1>12 DEF Attached, OneFile
  <2>2. \A g \in DOMAIN handlers'[r] : coll'[handlers'[r][g].bb].file = coll'[g].file
    <3>1. coll'[handlers'[r][k].bb].file = coll'[k].file
      BY <1>1, <1>8, <1>12 DEF Attached
    <3>2. \A g \in DOMAIN handlers[r] : coll'[handlers[r][g].bb].file = coll'[g].file
      BY <1>7, <1>11 DEF OneFile, RankOk
    <3> QED
      BY <1>1, <3>1, <3>2 DEF Attached
  <2> QED
    BY <1>13, <2>1, <2>2 DEF OneFile
<1>15. OffersOfFile'
  <2>1. EntryOf(y, calls[k].file)
    BY <1>4, <1>12, <1>13 DEF x
  <2> QED
    BY <1>3, <1>5, <1>7, <2>1, JoinedOffers
<1> QED
  BY <1>9, <1>10, <1>14, <1>15

\* A file that is opened has a name, and so have those that had one.
LEMMA OpenPathNames ==
    ASSUME IInv, FilesInv, NEW p \in Paths, NEW flags, NEW o \in OpenPath(p, flags),
           dir' = o.dir, disk' = o.disk
    PROVE  /\ dir' \in [Paths -> {NoIno} \cup Inos] /\ NamesKept /\ Named(o.file)'
           /\ \A f : Named(f) /\ f[1] = o.file[1] => f = o.file
<1>1. dir \in [Paths -> {NoIno} \cup Inos] /\ disk \in [Inos -> [life : Nat, size : Nat]]
  BY DEF FilesInv, IInv, Shape
<1>2. CASE dir[p] # NoIno
  <2>1. /\ o.file = Now(dir[p]) /\ dir' = dir
        /\ disk' = IF "trunc" \in flags THEN [disk EXCEPT ![dir[p]].size = 0] ELSE disk
    BY <1>2 DEF OpenPath
  <2>2. \A q \in Paths : dir[q] # NoIno => disk'[dir[q]].life = disk[dir[q]].life
    BY <1>1, <2>1
  <2>3. NamesKept
    BY <2>1, <2>2 DEF NamesKept, Named, Now
  <2>4. Named(o.file)
    BY <1>2, <2>1 DEF Named
  <2> QED
    BY <1>1, <2>1, <2>3, <2>4, OneNamePerNumber DEF NamesKept
<1>3. CASE dir[p] = NoIno
  <2>1. "creat" \in flags
    BY <1>3 DEF OpenPath
  <2>2. PICK i \in Inos :
            /\ ~ InUse(i)
            /\ o = [file |-> File(i, disk[i].life + 1), dir |-> [dir EXCEPT ![p] = i],
                    disk |-> [disk EXCEPT ![i] = [life |-> @.life + 1, size |-> 0]]]
    BY <1>3, <2>1 DEF OpenPath
  <2>3. /\ dir' = [dir EXCEPT ![p] = i] /\ o.file = File(i, disk[i].life + 1)
        /\ disk' = [disk EXCEPT ![i] = [life |-> @.life + 1, size |-> 0]]
    BY <2>2
  <2>4. i # NoIno
    BY StoreAssumption DEF NoIno
  <2>5. \A q \in Paths : dir[q] # i
    BY <2>2 DEF InUse
  <2>6. dir' \in [Paths -> {NoIno} \cup Inos]
    BY <1>1, <2>3
  <2>7. \A q \in Paths : dir[q] # NoIno => dir'[q] = dir[q] /\ disk'[dir[q]] = disk[dir[q]]
    BY <1>1, <1>3, <2>3, <2>5
  <2>8. NamesKept
    BY <2>7 DEF NamesKept, Named, Now
  <2>9. Named(o.file)'
    <3>1. dir'[p] = i /\ disk'[i].life = disk[i].life + 1
      BY <1>1, <2>3
    <3>2. o.file = File(dir'[p], disk'[dir'[p]].life)
      BY <2>3, <3>1
    <3> QED
      BY <2>4, <3>1, <3>2 DEF Named, Now
  <2>10. \A f : Named(f) => f[1] # o.file[1]
    BY <2>3, <2>5 DEF Named, Now, File
  <2> QED
    BY <2>6, <2>8, <2>9, <2>10
<1> QED
  BY <1>2, <1>3

\* An index that a rank may find by its number is of a file that has a name.
LEMMA IndexNamed ==
    ASSUME CallsInv, FilesInv, ~ stale, NEW r \in Ranks, NEW b \in store[r]
    PROVE  Named(coll[b].file) /\ coll[b].file[1] = bbs[r][b].ino
  BY DEF CallsInv, RankOk, FilesInv, FilesNamed, OneFile

LEMMA OpenFiles ==
    ASSUME IInv, CallsInv, FilesInv, NEW r \in Ranks, NEW C, NEW p \in Paths, NEW flags,
           Open(r, C, p, flags)
    PROVE  FilesInv'
<1>1. PICK o \in OpenPath(p, flags) :
          /\ dir' = o.dir /\ disk' = o.disk
          /\ Attach(r, Len(coll) + 1,
                    Append(coll, OpenCall(C, p, flags, o.file, o.disk[o.file[1]].size)), o.file)
  BY DEF Open
<1>2. PICK c : c = OpenCall(C, p, flags, o.file, o.disk[o.file[1]].size)
  OBVIOUS
<1>3. PICK calls : calls = Append(coll, c)
  OBVIOUS
<1>4. PICK k : k = Len(coll) + 1
  OBVIOUS
<1>5. Attach(r, k, calls, o.file)
  BY <1>1, <1>2, <1>3, <1>4
<1>6. Fields \subseteq DOMAIN c /\ c.file = o.file /\ DOMAIN c.offered = {}
  BY <1>2 DEF OpenCall, Fields
<1>7. Continues(calls, coll) /\ Len(calls) = Len(coll) + 1 /\ Len(coll) \in Nat
  BY <1>3, <1>6, Added
<1>8. calls[k] = c /\ \A j \in 1 .. Len(coll) : calls[j] = coll[j]
  BY <1>3, <1>4, <1>6, Added
<1>9. k \in 1 .. Len(calls) /\ \A j \in 1 .. Len(calls) : j > Len(coll) => j = k
  BY <1>4, <1>7
<1>10. at[r] < k /\ at' = [at EXCEPT ![r] = k] /\ stale' = stale
  BY <1>4, <1>7 DEF IInv, Shape, Open
<1>11. /\ dir' \in [Paths -> {NoIno} \cup Inos] /\ NamesKept /\ Named(o.file)'
       /\ \A f : Named(f) /\ f[1] = o.file[1] => f = o.file
  BY <1>1, OpenPathNames
<1>12. calls[k].file = o.file
  BY <1>6, <1>8
<1>13. ASSUME ~ stale, NEW b \in store[r], bbs[r][b].ino = calls[k].file[1]
       PROVE  coll[b].file = calls[k].file
  BY <1>11, <1>12, <1>13, IndexNamed
<1>14. Named(calls[k].file)'
  BY <1>11, <1>12
<1>15. \A j \in 1 .. Len(calls) : j > Len(coll) => j = k /\ DOMAIN calls[j].offered = {}
  BY <1>6, <1>8, <1>9
<1> QED
  BY <1>5, <1>7, <1>8, <1>9, <1>10, <1>11, <1>13, <1>14, <1>15, AttachFiles

LEMMA OpenOtherFiles ==
    ASSUME IInv, CallsInv, FilesInv, NEW r \in Ranks, OpenOther(r)
    PROVE  FilesInv'
<1>1. PICK k : k = NextCall(r)
  OBVIOUS
<1>2. /\ k \in 1 .. Len(coll) /\ at[r] < k /\ k \in Calls(r) /\ Len(coll) \in Nat
      /\ coll[k].op = "open" /\ at' = [at EXCEPT ![r] = k]
      /\ UNCHANGED <<dir, disk, stale>>
  BY <1>1, NextCallIsNext, ListDomain DEF OpenOther, IInv, Shape, WellFormed
<1>3. NamesKept /\ dir' \in [Paths -> {NoIno} \cup Inos]
  BY <1>2, NoFileNamed
<1>4. CASE coll[k].size = Failed
  <2>1. UNCHANGED <<bbs, store, handlers, coll, pc, holds>>
    BY <1>1, <1>4 DEF OpenOther
  <2>2. Kept
    BY <2>1, NoCall
  <2>3. Others(r)
    BY <1>2, <2>1 DEF Others, CallsInv, IInv, Shape
  <2> SUFFICES ASSUME ~ stale PROVE NewNamed /\ OffersOfFile' /\ FilesNamed(r)' /\ OneFile(r)'
    BY <1>2, <1>3, <2>2, <2>3, OneRankFiles
  <2>4. OffersOfFile' /\ NewNamed
    BY <2>1, <2>2, NoOffer DEF FilesInv
  <2>5. OneFile(r)'
    BY <2>1 DEF FilesInv, OneFile
  <2>6. at[r] <= at'[r] /\ at'[r] \in Nat
    BY <1>2 DEF IInv, Shape
  <2>7. FilesNamed(r)'
    BY <1>3, <2>1, <2>2, <2>4, <2>6, FilesNamedKept DEF FilesInv
  <2> QED
    BY <2>4, <2>5, <2>7
<1>5. CASE coll[k].size # Failed
  <2>1. Attach(r, k, coll, NoFile)
    BY <1>1, <1>5 DEF OpenOther
  <2>2. PICK calls : calls = coll
    OBVIOUS
  <2>3. ASSUME ~ stale
        PROVE  /\ Named(calls[k].file)'
               /\ \A b \in store[r] :
                     bbs[r][b].ino = calls[k].file[1] => coll[b].file = calls[k].file
    <3>1. Named(calls[k].file)
      BY <1>2, <1>5, <2>2, <2>3 DEF FilesInv, FilesNamed
    <3>2. Named(calls[k].file)'
      BY <1>3, <3>1 DEF NamesKept
    <3> QED
      BY <2>2, <2>3, <3>1, <3>2, IndexNamed, OneNamePerNumber
  <2>4. Continues(calls, coll) /\ \A j \in 1 .. Len(calls) : ~ (j > Len(coll))
    BY <1>2, <2>2, Keeping DEF IInv, Shape
  <2> QED
    BY <1>2, <1>3, <2>1, <2>2, <2>3, <2>4, AttachFiles
<1> QED
  BY <1>4, <1>5

LEMMA OpenFailsFiles ==
    ASSUME IInv, CallsInv, FilesInv, NEW r \in Ranks, NEW C \in Comms, NEW p, OpenFails(r, C, p)
    PROVE  FilesInv'
<1>1. PICK c : c = OpenCall(C, p, {}, NoFile, Failed)
  OBVIOUS
<1>2. /\ Fields \subseteq DOMAIN c /\ DOMAIN c.offered = {} /\ c.size = Failed
  BY <1>1 DEF OpenCall, Fields
<1>3. /\ coll' = Append(coll, c) /\ at' = [at EXCEPT ![r] = Len(coll) + 1]
      /\ UNCHANGED <<dir, disk, bbs, store, handlers, pc, holds, stale>>
  BY <1>1 DEF OpenFails, history
<1>4. Continues(coll', coll) /\ Len(coll') = Len(coll) + 1 /\ Len(coll) \in Nat
  BY <1>2, <1>3, Added
<1>5. coll'[Len(coll) + 1] = c /\ \A j \in 1 .. Len(coll) : coll'[j] = coll[j]
  BY <1>2, <1>3, Added
<1>6. \A j \in 1 .. Len(coll') : j > Len(coll) => coll'[j] = c
  BY <1>4, <1>5
<1>7. Kept
  <2>1. \A j \in 1 .. Len(coll') : DOMAIN coll'[j].offered \subseteq Ranks
    BY <1>2, <1>4, <1>5, <1>6 DEF CallsInv, CallsOk, CallOk
  <2> QED
    BY <1>4, <1>5, <2>1 DEF Kept
<1>8. Others(r)
  BY <1>3 DEF Others, CallsInv, IInv, Shape
<1>9. NamesKept /\ dir' \in [Paths -> {NoIno} \cup Inos]
  BY <1>3, NoFileNamed
<1> SUFFICES ASSUME ~ stale PROVE NewNamed /\ OffersOfFile' /\ FilesNamed(r)' /\ OneFile(r)'
  BY <1>3, <1>7, <1>8, <1>9, OneRankFiles
<1>10. NewNamed
  BY <1>2, <1>6 DEF NewNamed
<1>11. OffersOfFile'
  BY <1>2, <1>4, <1>5, <1>6 DEF OffersOfFile, FilesInv
<1>12. FilesNamed(r)'
  <2>1. at[r] <= at'[r] /\ at'[r] \in Nat
    BY <1>3, <1>4 DEF IInv, Shape
  <2> QED
    BY <1>3, <1>7, <1>9, <1>10, <2>1, FilesNamedKept DEF FilesInv
<1>13. OneFile(r)'
  <2>1. OneFile(r) /\ RankOk(r)
    BY DEF FilesInv, CallsInv
  <2>2. \A b \in DOMAIN bbs[r] :
            EntryOf(bbs[r][b].local, coll[b].file) /\ EntryOf(bbs[r][b].global, coll[b].file)
    BY <2>1 DEF OneFile
  <2>3. \A b \in store[r] : b \in DOMAIN bbs[r] /\ coll[b].file \in holds[r]
    BY <2>1 DEF OneFile, RankOk
  <2> QED
    BY <1>3, <1>7, <2>1, <2>2, <2>3, OneFileKept
<1> QED
  BY <1>10, <1>11, <1>12, <1>13

\* A file that is removed is one that nobody has an index of, or is to open.
LEMMA RemoveFiles ==
    ASSUME IInv, CallsInv, FilesInv, NEW p \in Paths, Remove(p)
    PROVE  FilesInv'
<1>1. /\ dir' = [dir EXCEPT ![p] = NoIno]
      /\ UNCHANGED <<disk, bbs, store, handlers, coll, at, pc, holds>>
  BY DEF Remove
<1>2. dir' \in [Paths -> {NoIno} \cup Inos]
  BY <1>1 DEF FilesInv
<1> SUFFICES ASSUME ~ stale' PROVE OffersOfFile' /\ \A r \in Ranks : FilesNamed(r)' /\ OneFile(r)'
  BY <1>1, <1>2 DEF FilesInv, CallsInv
<1>3. /\ ~ stale
      /\ \A r \in Ranks : /\ Now(dir[p]) \notin holds[r]
                          /\ \A k \in Calls(r) : coll[k].file # Now(dir[p])
  BY DEF Remove
<1>4. ASSUME NEW f, Named(f), f # Now(dir[p]) PROVE Named(f)'
  BY <1>1, <1>4 DEF Named, Now, FilesInv
<1>5. ASSUME NEW r \in Ranks PROVE FilesNamed(r)'
  <2>1. FilesNamed(r)
    BY <1>3 DEF FilesInv
  <2>2. \A f \in holds'[r] : Named(f)'
    BY <1>1, <1>3, <1>4, <2>1 DEF FilesNamed
  <2>3. ASSUME NEW k \in Calls(r), coll[k].op = "open", coll[k].size # Failed
        PROVE  Named(coll[k].file)'
    <3>1. PICK f : f = coll[k].file
      OBVIOUS
    <3>2. Named(f)'
      BY <1>3, <1>4, <2>1, <2>3, <3>1 DEF FilesNamed
    <3> QED
      BY <1>1, <3>1, <3>2 DEF Named, Now
  <2>4. Calls(r)' = Calls(r)
    BY <1>1 DEF Calls
  <2> QED
    BY <1>1, <2>2, <2>3, <2>4 DEF FilesNamed
<1>6. ASSUME NEW r \in Ranks PROVE OneFile(r)'
  BY <1>1, <1>3 DEF FilesInv, OneFile
<1>7. OffersOfFile'
  BY <1>1, <1>3 DEF FilesInv, OffersOfFile
<1> QED
  BY <1>5, <1>6, <1>7

LEMMA InitFiles == Init => FilesInv
<1> SUFFICES ASSUME Init PROVE FilesInv
  OBVIOUS
<1>1. Len(coll) = 0 /\ \A r \in Ranks : Calls(r) = {} /\ holds[r] = {}
  BY DEF Init, Calls
<1>2. \A r \in Ranks : DOMAIN bbs[r] = {} /\ store[r] = {} /\ DOMAIN handlers[r] = {}
  BY DEF Init
<1> QED
  BY <1>1, <1>2 DEF Init, FilesInv, OffersOfFile, FilesNamed, OneFile

-----------------------------------------------------------------------------

StoreInv == IInv /\ CallsInv /\ FilesInv

LEMMA StutterFiles == ASSUME StoreInv, UNCHANGED vars PROVE (CallsInv /\ FilesInv)'
<1>1. CallsInv'
  BY CallsStayRight DEF StoreInv, vars, history
<1>2. FilesInv'
  BY DEF StoreInv, vars, history, FilesInv, OffersOfFile, FilesNamed, OneFile, Named, Now, Calls
<1> QED
  BY <1>1, <1>2

LEMMA ProgressFiles ==
    ASSUME StoreInv, NEW r \in Ranks, Progress(r)
    PROVE  (CallsInv /\ FilesInv)'
<1>1. CASE OpenOther(r)
  BY <1>1, OpenOtherCalls, OpenOtherFiles DEF StoreInv
<1>2. CASE Merge(r)
  BY <1>2, MergeCalls, MergeFiles DEF StoreInv
<1>3. CASE SyncOther(r)
  BY <1>3, SyncOtherCalls, SyncOtherFiles DEF StoreInv
<1>4. CASE SyncSizeRoot(r) \/ SyncSize(r)
  BY <1>4, SizesCalls, SizesFiles DEF StoreInv
<1> QED
  BY <1>1, <1>2, <1>3, <1>4 DEF Progress

LEMMA StepStoreInv == StoreInv /\ [Next]_vars => StoreInv'
<1> SUFFICES ASSUME StoreInv, [Next]_vars PROVE (CallsInv /\ FilesInv)'
  BY StepIInv DEF StoreInv
<1>1. ASSUME NEW r \in Ranks, NEW C \in Comms, NEW p \in Paths, NEW flags, Open(r, C, p, flags)
      PROVE  (CallsInv /\ FilesInv)'
  <2>1. \A o \in OpenPath(p, flags) : o.disk[o.file[1]].size # Failed
    BY SizeIsNatural DEF StoreInv, FilesInv
  <2> QED
    BY <1>1, <2>1, OpenCalls, OpenFiles DEF StoreInv
<1>2. ASSUME NEW r \in Ranks, NEW C \in Comms, NEW p \in Paths, OpenFails(r, C, p)
      PROVE  (CallsInv /\ FilesInv)'
  BY <1>2, OpenFailsCalls, OpenFailsFiles DEF StoreInv
<1>3. ASSUME NEW r \in Ranks, NEW h \in DOMAIN handlers[r],
             Sync(r, h) \/ Pwrite(r, h) \/ OpenDeferred(r, h) \/ Close(r, h)
      PROVE  (CallsInv /\ FilesInv)'
  <2>1. CASE Sync(r, h)
    BY <2>1, SyncCalls, SyncFiles DEF StoreInv
  <2>2. CASE Pwrite(r, h)
    BY <2>2, PwriteCalls, PwriteFiles DEF StoreInv
  <2>3. CASE OpenDeferred(r, h)
    BY <2>3, OpenDeferredCalls, OpenDeferredFiles DEF StoreInv
  <2>4. CASE Close(r, h)
    BY <2>4, CloseCalls, CloseFiles DEF StoreInv
  <2> QED
    BY <1>3, <2>1, <2>2, <2>3, <2>4
<1>4. ASSUME NEW r \in Ranks, NEW p \in Paths, Unlink(r, p) PROVE (CallsInv /\ FilesInv)'
  BY <1>4, UnlinkCalls, UnlinkFiles DEF StoreInv
<1>5. ASSUME NEW p \in Paths, Remove(p) PROVE (CallsInv /\ FilesInv)'
  <2>1. CallsInv'
    BY <1>5, CallsStayRight DEF StoreInv, Remove
  <2> QED
    BY <1>5, <2>1, RemoveFiles DEF StoreInv
<1> QED
  BY <1>1, <1>2, <1>3, <1>4, <1>5, ProgressFiles, StutterFiles DEF Next, Finished

\* A rank that finds something in a file finds a write to that file, although
\* indices are found by inode numbers (bb.hpp:37-46, 459), which are used again:
\* for any ranks, communicators, paths and numbers of calls, provided that
\* every rank unlinks a file (bb.hpp:478) before it is removed.
THEOREM NoForeignBytesAlways == FairSpec => []NoForeignBytes
<1>1. StoreInv => NoForeignBytes
  <2> SUFFICES ASSUME StoreInv, ~ stale, NEW r \in Ranks, NEW h \in DOMAIN handlers[r],
                      View(r, h) # None
               PROVE  View(r, h)[2] = coll[h].file
    BY DEF NoForeignBytes
  <2>1. OneFile(r) /\ RankOk(r)
    BY DEF StoreInv, FilesInv, CallsInv
  <2>2. handlers[r][h].bb \in DOMAIN bbs[r] /\ coll[handlers[r][h].bb].file = coll[h].file
    BY <2>1 DEF OneFile, RankOk
  <2>3. EntryOf(BbOf(r, h).local, coll[h].file) /\ EntryOf(BbOf(r, h).global, coll[h].file)
    BY <2>1, <2>2 DEF OneFile, BbOf
  <2> QED
    BY <2>3 DEF View, EntryOf
<1>2. Init => StoreInv
  BY InitIInv, InitCalls, InitFiles DEF StoreInv
<1> QED
  BY <1>1, <1>2, StepStoreInv, PTL DEF FairSpec

-----------------------------------------------------------------------------
(* Ranks that exchanged their trees in different groups agree in the end.  *)
(* What follows is about one inode number i, and is said of the list of    *)
(* calls cs, the call A[r] that each rank r has come to, the ranks W that  *)
(* wait for the trees of the others in that call, and the common and the   *)
(* own entry G[r] and L[r] of each rank.                                   *)

\* Call k is of the file that has number i, and all ranks take part in it.
About(cs, i, k) == cs[k].file # NoFile /\ cs[k].file[1] = i

World(cs, i, k) ==
    k \in 1 .. Len(cs) /\ About(cs, i, k) /\ cs[k].comm = Ranks /\ Cardinality(Ranks) # 1

Complete(cs, k) == DOMAIN cs[k].offered = Ranks

\* The last call that rank r is done with.
Past(A, W, r) == IF r \in W THEN A[r] - 1 ELSE A[r]

\* q has an entry of its own that it has not yet given to all: it keeps it and
\* has not come to the next call of all ranks after call a, or it has offered it
\* in that call.
Keeps(cs, A, W, L, i, q) == L[q] # None /\ ~ (q \in W /\ World(cs, i, A[q]))

Owes(cs, A, W, L, i, q, a) ==
    \/ /\ Keeps(cs, A, W, L, i, q)
       /\ \A k \in 1 .. Len(cs) : World(cs, i, k) /\ k > a => A[q] < k
    \/ \E k \in 1 .. Len(cs) :
          /\ World(cs, i, k) /\ k > a /\ k <= A[q]
          /\ \A j \in 1 .. Len(cs) : World(cs, i, j) /\ j > a => k <= j
          /\ cs[k].offered[q] # None

\* T[k] is the entry that all ranks have when they are done with call k, but
\* for what was exchanged in smaller groups.
Trail(cs, i, T) ==
    /\ \A a, b \in 0 .. Len(cs) :
          a <= b /\ (\A k \in a + 1 .. b : ~ World(cs, i, k)) => T[a] = T[b]
    /\ \A k \in 1 .. Len(cs) :
          World(cs, i, k) /\ Complete(cs, k) => T[k] = Newest(T[k - 1], cs[k].offered)

Places(cs, A, W) ==
    \A r \in Ranks :
        /\ A[r] \in 0 .. Len(cs)
        /\ r \in W => A[r] # 0 /\ Cardinality(cs[A[r]].comm) # 1

\* A rank has made its offer in the calls that it has come to.
Offering(cs, A, i) ==
    \A k \in 1 .. Len(cs) :
        /\ \A r \in DOMAIN cs[k].offered : r \in Ranks /\ k <= A[r]
        /\ World(cs, i, k) => \A r \in Ranks : k <= A[r] => r \in DOMAIN cs[k].offered

\* Only the last call may wait for a rank.
Closed(cs, A, W, i) ==
    \A k \in 1 .. Len(cs) :
        World(cs, i, k) /\ (k < Len(cs) \/ \E r \in Ranks : k <= Past(A, W, r)) => Complete(cs, k)

\* Where a rank has not what the calls of all ranks have given it, one of them
\* is still to give an entry to all.
Accounted(cs, A, W, G, L, i, T) ==
    /\ \A r \in Ranks :
          G[r] # T[Past(A, W, r)] => \E q \in Ranks : Owes(cs, A, W, L, i, q, Past(A, W, r))
    /\ \A k \in 1 .. Len(cs) : About(cs, i, k) /\ ~ World(cs, i, k) =>
          \A q \in DOMAIN cs[k].offered :
              cs[k].offered[q] # None => Owes(cs, A, W, L, i, q, k)

Ledger(cs, A, W, G, L, i, T) ==
    /\ Places(cs, A, W) /\ Offering(cs, A, i) /\ Closed(cs, A, W, i)
    /\ Trail(cs, i, T) /\ Accounted(cs, A, W, G, L, i, T)

\* What a rank with the indices B, those in S in bb_store_, has of number i.
Entries(S, B, i) ==
    LET found == {b \in S : B[b].ino = i}
    IN  IF found = {} THEN NewBb(i) ELSE B[CHOOSE b \in found : TRUE]

\* Each file has one index at most.
Sole(S, B) == \A b, c \in S : B[b].ino = B[c].ino => b = c

Globals(i) == [r \in Ranks |-> Entries(store[r], bbs[r], i).global]
Locals(i)  == [r \in Ranks |-> Entries(store[r], bbs[r], i).local]
Waiting    == {r \in Ranks : pc[r] = "gather"}

Balanced(i) == \E T : Ledger(coll, at, Waiting, Globals(i), Locals(i), i, T)

\* An open has a file unless it failed.
HasFiles(cs) ==
    \A k \in 1 .. Len(cs) : cs[k].op = "open" => (cs[k].file = NoFile <=> cs[k].size = Failed)

LedgerInv == HasFiles(coll) /\ (~ dropped => \A i \in Inos : Balanced(i))

-----------------------------------------------------------------------------
(* What the ledger says does not depend on more of the calls than this.    *)

\* The same calls, what has been offered in them aside.
SameCalls(ds, cs) ==
    Len(ds) = Len(cs) /\ \A k \in 1 .. Len(cs) : ds[k].file = cs[k].file /\ ds[k].comm = cs[k].comm

SameOffers(ds, cs) == \A k \in 1 .. Len(cs) : ds[k].offered = cs[k].offered

LEMMA WorldSame ==
    ASSUME NEW ds, NEW cs, SameCalls(ds, cs), NEW i
    PROVE  /\ \A k : World(ds, i, k) <=> World(cs, i, k)
           /\ \A k \in 1 .. Len(cs) : About(ds, i, k) <=> About(cs, i, k)
  BY DEF SameCalls, World, About

\* What is still owed after a call is owed after the next ones, up to the next
\* call of all ranks.
LEMMA OwesAlong ==
    ASSUME NEW cs, NEW A, NEW W, NEW L, NEW i, NEW q, NEW a \in Nat, NEW b \in Nat, a <= b,
           Len(cs) \in Nat,
           \A k \in a + 1 .. b : ~ World(cs, i, k), Owes(cs, A, W, L, i, q, a)
    PROVE  Owes(cs, A, W, L, i, q, b)
<1>1. \A k \in 1 .. Len(cs) : World(cs, i, k) => (k > a <=> k > b)
  OBVIOUS
<1> QED
  BY <1>1 DEF Owes

LEMMA OwesSame ==
    ASSUME NEW ds, NEW cs, SameCalls(ds, cs), SameOffers(ds, cs), NEW A, NEW W, NEW L, NEW i, NEW q, NEW a,
           Owes(cs, A, W, L, i, q, a)
    PROVE  Owes(ds, A, W, L, i, q, a)
<1>1. /\ \A k : World(ds, i, k) <=> World(cs, i, k)
      /\ Len(ds) = Len(cs) /\ \A k \in 1 .. Len(cs) : ds[k].offered = cs[k].offered
  BY WorldSame DEF SameCalls, SameOffers
<1>2. Keeps(cs, A, W, L, i, q) <=> Keeps(ds, A, W, L, i, q)
  BY <1>1 DEF Keeps
<1> QED
  BY <1>1, <1>2 DEF Owes

\* A rank that writes owes no less.
LEMMA OwesMore ==
    ASSUME NEW cs, NEW A, NEW W, NEW L, NEW M, NEW i, NEW q, NEW a,
           L[q] # None => M[q] # None,
           Owes(cs, A, W, L, i, q, a)
    PROVE  Owes(cs, A, W, M, i, q, a)
  BY DEF Owes, Keeps

\* Sizes are broadcast.
LEMMA LedgerSame ==
    ASSUME NEW ds, NEW cs, SameCalls(ds, cs), SameOffers(ds, cs), Len(cs) \in Nat,
           NEW A, NEW W, NEW G, NEW L, NEW i, NEW T, Ledger(cs, A, W, G, L, i, T)
    PROVE  Ledger(ds, A, W, G, L, i, T)
<1>1. /\ \A k : World(ds, i, k) <=> World(cs, i, k)
      /\ \A k \in 1 .. Len(cs) : About(ds, i, k) <=> About(cs, i, k)
      /\ Len(ds) = Len(cs)
      /\ \A k \in 1 .. Len(cs) : ds[k].offered = cs[k].offered /\ ds[k].comm = cs[k].comm
      /\ \A k \in 1 .. Len(cs) : Complete(ds, k) <=> Complete(cs, k)
  BY WorldSame DEF SameCalls, SameOffers, Complete
<1>2. Places(ds, A, W)
  BY <1>1 DEF Ledger, Places
<1>3. Offering(ds, A, i)
  BY <1>1 DEF Ledger, Offering
<1>4. Closed(ds, A, W, i)
  BY <1>1 DEF Ledger, Closed
<1>5. Trail(ds, i, T)
  BY <1>1 DEF Ledger, Trail
<1>6. Accounted(ds, A, W, G, L, i, T)
  <2>1. \A q, a : Owes(cs, A, W, L, i, q, a) => Owes(ds, A, W, L, i, q, a)
    BY OwesSame
  <2> QED
    BY <1>1, <2>1 DEF Ledger, Accounted
<1> QED
  BY <1>2, <1>3, <1>4, <1>5, <1>6 DEF Ledger

\* A rank writes.
LEMMA LedgerWritten ==
    ASSUME NEW cs, NEW A, NEW W, NEW G, NEW L, NEW M, NEW i, NEW T, Ledger(cs, A, W, G, L, i, T),
           \A q \in Ranks : L[q] # None => M[q] # None
    PROVE  Ledger(cs, A, W, G, M, i, T)
<1>1. Accounted(cs, A, W, G, M, i, T)
  <2>1. \A q \in Ranks : \A a : Owes(cs, A, W, L, i, q, a) => Owes(cs, A, W, M, i, q, a)
    BY OwesMore
  <2>2. \A k \in 1 .. Len(cs) : \A q \in DOMAIN cs[k].offered : q \in Ranks
    BY DEF Ledger, Offering
  <2> QED
    BY <2>1, <2>2 DEF Ledger, Accounted
<1> QED
  BY <1>1 DEF Ledger

\* A rank is done with a call whose trees it has waited for.
LEMMA LedgerMerged ==
    ASSUME NEW cs, Len(cs) \in Nat, NEW A, NEW W, NEW V, NEW G, NEW H, NEW L, NEW M, NEW i, NEW T,
           Ledger(cs, A, W, G, L, i, T), IsFiniteSet(Ranks),
           NEW r \in Ranks, r \in W, V = W \ {r},
           NEW k, k = A[r], DOMAIN cs[k].offered = cs[k].comm,
           \A q \in Ranks \ {r} : H[q] = G[q] /\ M[q] = L[q],
           IF About(cs, i, k)
           THEN /\ H[r] = Newest(G[r], cs[k].offered)
                /\ M[r] = IF cs[k].comm = Ranks THEN None ELSE L[r]
           ELSE H[r] = G[r] /\ M[r] = L[r]
    PROVE  Ledger(cs, A, V, H, M, i, T)
<1>1. /\ \A q \in Ranks : A[q] \in 0 .. Len(cs)
      /\ k \in 1 .. Len(cs) /\ Cardinality(cs[k].comm) # 1
  BY DEF Ledger, Places
<1>2. World(cs, i, k) <=> About(cs, i, k) /\ cs[k].comm = Ranks
  BY <1>1 DEF World
<1>3. Past(A, V, r) = k /\ Past(A, W, r) = k - 1
      /\ \A q \in Ranks \ {r} : Past(A, V, q) = Past(A, W, q)
  BY DEF Past
<1>4. World(cs, i, k) => Complete(cs, k)
  BY DEF World, Complete
<1>5. Places(cs, A, V)
  BY DEF Ledger, Places
<1>6. Closed(cs, A, V, i)
  <2> SUFFICES ASSUME NEW j \in 1 .. Len(cs), World(cs, i, j), NEW q \in Ranks, j <= Past(A, V, q)
               PROVE  Complete(cs, j)
    BY DEF Ledger, Closed
  <2>1. CASE q = r /\ j = k
    BY <1>4, <2>1
  <2>2. CASE q = r /\ j # k
    <3>1. j <= Past(A, W, r)
      BY <1>1, <1>3, <2>2
    <3> QED
      BY <3>1 DEF Ledger, Closed
  <2>3. CASE q # r
    BY <1>3, <2>3 DEF Ledger, Closed
  <2> QED
    BY <2>1, <2>2, <2>3
\* What others and the rank itself owe after a call that it was done with.
<1>7. ASSUME NEW q \in Ranks, NEW a \in Nat, Owes(cs, A, W, L, i, q, a)
      PROVE  Owes(cs, A, V, M, i, q, a)
  <2>1. ASSUME Keeps(cs, A, W, L, i, q) PROVE Keeps(cs, A, V, M, i, q)
    <3>1. CASE q # r
      BY <2>1, <3>1 DEF Keeps
    <3>2. CASE q = r
      <4>1. ~ World(cs, i, k) /\ L[r] # None
        BY <2>1, <3>2 DEF Keeps
      <4>2. M[r] = L[r]
        BY <1>2, <4>1
      <4> QED
        BY <3>2, <4>1, <4>2 DEF Keeps
    <3> QED
      BY <3>1, <3>2
  <2> QED
    BY <1>7, <2>1 DEF Owes
\* The rank itself.
<1>8. ASSUME H[r] # T[k] PROVE \E q \in Ranks : Owes(cs, A, V, M, i, q, k)
  <2>1. CASE ~ World(cs, i, k)
    <3>1. T[k - 1] = T[k]
      <4>1. k - 1 \in 0 .. Len(cs) /\ k \in 0 .. Len(cs) /\ k - 1 <= k
            /\ \A j \in (k - 1) + 1 .. k : j = k
        BY <1>1
      <4> QED
        BY <2>1, <4>1 DEF Ledger, Trail
    <3>2. CASE H[r] = G[r]
      <4>1. PICK q \in Ranks : Owes(cs, A, W, L, i, q, k - 1)
        BY <1>3, <1>8, <3>1, <3>2 DEF Ledger, Accounted
      <4>2. Owes(cs, A, W, L, i, q, k)
        <5>1. k - 1 \in Nat /\ k \in Nat /\ k - 1 <= k /\ \A j \in (k - 1) + 1 .. k : ~ World(cs, i, j)
          BY <1>1, <2>1
        <5> QED
          BY <4>1, <5>1, OwesAlong
      <4>3. k \in Nat
        BY <1>1
      <4>4. Owes(cs, A, V, M, i, q, k)
        BY <1>7, <4>2, <4>3
      <4> QED
        BY <4>4
    <3>3. CASE H[r] # G[r]
      <4>1. About(cs, i, k) /\ H[r] = Newest(G[r], cs[k].offered)
        BY <3>3
      <4>2. PICK q \in DOMAIN cs[k].offered : cs[k].offered[q] # None
        BY <3>3, <4>1 DEF Newest
      <4>3. Owes(cs, A, W, L, i, q, k) /\ q \in Ranks
        BY <1>1, <2>1, <4>1, <4>2 DEF Ledger, Accounted, Offering
      <4>4. k \in Nat
        BY <1>1
      <4>5. Owes(cs, A, V, M, i, q, k)
        BY <1>7, <4>3, <4>4
      <4> QED
        BY <4>3, <4>5
    <3> QED
      BY <3>2, <3>3
  <2>2. CASE World(cs, i, k)
    <3>1. H[r] = Newest(G[r], cs[k].offered) /\ T[k] = Newest(T[k - 1], cs[k].offered)
      BY <1>1, <1>2, <1>4, <2>2 DEF Ledger, Trail
    <3>2. G[r] # T[k - 1] /\ ~ \E q \in DOMAIN cs[k].offered : cs[k].offered[q] # None
      BY <1>8, <3>1 DEF Newest
    <3>3. PICK q \in Ranks : Owes(cs, A, W, L, i, q, k - 1)
      BY <1>3, <3>2 DEF Ledger, Accounted
    <3>4. q \in DOMAIN cs[k].offered /\ k <= A[q]
      BY <1>1, <1>4, <2>2 DEF Complete, Ledger, Offering
    <3>5. \A j \in 1 .. Len(cs) : j > k - 1 <=> k <= j
      BY <1>1
    <3>6. A[q] \in Nat
      BY <1>1
    <3>7. ~ \A j \in 1 .. Len(cs) : World(cs, i, j) /\ j > k - 1 => A[q] < j
      BY <1>1, <2>2, <3>4, <3>5, <3>6
    <3>8. PICK j \in 1 .. Len(cs) :
            /\ j > k - 1 /\ \A l \in 1 .. Len(cs) : World(cs, i, l) /\ l > k - 1 => j <= l
            /\ cs[j].offered[q] # None
      BY <3>3, <3>7 DEF Owes
    <3>9. j = k
      BY <1>1, <2>2, <3>5, <3>8
    <3> QED
      BY <3>2, <3>4, <3>8, <3>9
  <2> QED
    BY <2>1, <2>2
<1>9. Accounted(cs, A, V, H, M, i, T)
  <2>1. \A q \in Ranks : Past(A, V, q) \in Nat
    BY <1>1, <1>5 DEF Past, Places
  <2>2. ASSUME NEW q \in Ranks, H[q] # T[Past(A, V, q)]
        PROVE  \E p \in Ranks : Owes(cs, A, V, M, i, p, Past(A, V, q))
    <3>1. CASE q = r
      BY <1>3, <1>8, <2>2, <3>1
    <3>2. CASE q # r
      <4>1. G[q] # T[Past(A, W, q)]
        BY <1>3, <2>2, <3>2
      <4>2. PICK p \in Ranks : Owes(cs, A, W, L, i, p, Past(A, W, q))
        BY <4>1 DEF Ledger, Accounted
      <4> QED
        BY <1>3, <1>7, <2>1, <3>2, <4>2
    <3> QED
      BY <3>1, <3>2
  <2>3. ASSUME NEW j \in 1 .. Len(cs), About(cs, i, j), ~ World(cs, i, j),
               NEW q \in DOMAIN cs[j].offered, cs[j].offered[q] # None
        PROVE  Owes(cs, A, V, M, i, q, j)
    <3>1. Owes(cs, A, W, L, i, q, j) /\ q \in Ranks /\ j \in Nat
      BY <2>3 DEF Ledger, Accounted, Offering
    <3> QED
      BY <1>7, <3>1
  <2> QED
    BY <2>2, <2>3 DEF Accounted
<1> QED
  BY <1>5, <1>6, <1>9 DEF Ledger

\* A call that is made.
LEMMA LedgerLonger ==
    ASSUME NEW cs, Len(cs) \in Nat, NEW ds, Len(ds) = Len(cs) + 1,
           \A k \in 1 .. Len(cs) : ds[k] = cs[k], DOMAIN ds[Len(cs) + 1].offered = {},
           NEW A, NEW W, NEW G, NEW L, NEW i, NEW T, Ledger(cs, A, W, G, L, i, T),
           \A k \in 1 .. Len(cs) : World(cs, i, k) => Complete(cs, k), Ranks # {}
    PROVE  \E U : Ledger(ds, A, W, G, L, i, U)
<1>1. PICK n \in Nat : n = Len(cs)
  OBVIOUS
<1>2. Len(ds) = n + 1 /\ \A k \in 1 .. n : ds[k] = cs[k]
  BY <1>1
<1>3. \A k \in 1 .. n : /\ World(ds, i, k) <=> World(cs, i, k)
                        /\ About(ds, i, k) <=> About(cs, i, k)
                        /\ Complete(ds, k) <=> Complete(cs, k)
  BY <1>1, <1>2 DEF World, About, Complete
<1>4. DOMAIN ds[n + 1].offered = {} /\ ~ Complete(ds, n + 1)
  BY <1>1 DEF Complete
<1>5. \A q \in Ranks : A[q] \in 0 .. n
  BY <1>1 DEF Ledger, Places
<1>6. Places(ds, A, W)
  BY <1>1, <1>2 DEF Ledger, Places
<1>7. Offering(ds, A, i)
  <2>1. \A k \in 1 .. n + 1 : k \in 1 .. n \/ k = n + 1
    OBVIOUS
  <2>2. \A q \in Ranks : ~ (n + 1 <= A[q])
    BY <1>5
  <2>3. ASSUME NEW k \in 1 .. n
        PROVE  /\ \A r \in DOMAIN ds[k].offered : r \in Ranks /\ k <= A[r]
               /\ World(ds, i, k) => \A r \in Ranks : k <= A[r] => r \in DOMAIN ds[k].offered
    BY <1>1, <1>2, <1>3 DEF Ledger, Offering
  <2> QED
    BY <1>2, <1>4, <2>1, <2>2, <2>3 DEF Offering
<1>8. Closed(ds, A, W, i)
  <2>1. \A q \in Ranks : Past(A, W, q) <= n
    BY <1>5 DEF Past
  <2> SUFFICES ASSUME NEW k \in 1 .. n + 1, World(ds, i, k),
                      k < n + 1 \/ \E q \in Ranks : k <= Past(A, W, q)
               PROVE  Complete(ds, k)
    BY <1>2 DEF Closed
  <2>2. \A q \in Ranks : Past(A, W, q) \in Int
    BY <1>5 DEF Past
  <2>3. k \in 1 .. n
    BY <2>1, <2>2
  <2> QED
    BY <1>1, <1>3, <2>3
<1>9. PICK U : U = [a \in 0 .. n + 1 |-> IF a = n + 1 THEN T[n] ELSE T[a]]
  OBVIOUS
<1>10. \A a \in 0 .. n : U[a] = T[a]
  BY <1>9
<1>11. U[n + 1] = T[n]
  BY <1>9
<1>12. Trail(ds, i, U)
  <2>1. ASSUME NEW a \in 0 .. n + 1, NEW b \in 0 .. n + 1, a <= b,
               \A k \in a + 1 .. b : ~ World(ds, i, k)
        PROVE  U[a] = U[b]
    <3>1. CASE b \in 0 .. n
      <4>1. a \in 0 .. n /\ \A k \in a + 1 .. b : k \in 1 .. n
        BY <2>1, <3>1
      <4>2. T[a] = T[b]
        BY <1>1, <1>3, <2>1, <3>1, <4>1 DEF Ledger, Trail
      <4> QED
        BY <1>10, <3>1, <4>1, <4>2
    <3>2. CASE b = n + 1 /\ a # b
      <4>1. a \in 0 .. n /\ n \in 0 .. n /\ a <= n
            /\ \A k \in a + 1 .. n : k \in 1 .. n /\ k \in a + 1 .. b
        BY <2>1, <3>2
      <4>2. T[a] = T[n]
        BY <1>1, <1>3, <2>1, <4>1 DEF Ledger, Trail
      <4> QED
        BY <1>10, <1>11, <3>2, <4>1, <4>2
    <3> QED
      BY <3>1, <3>2
  <2>2. ASSUME NEW k \in 1 .. n + 1, World(ds, i, k), Complete(ds, k)
        PROVE  U[k] = Newest(U[k - 1], ds[k].offered)
    <3>1. k \in 1 .. n
      BY <1>4, <2>2
    <3>2. k \in 0 .. n /\ k - 1 \in 0 .. n
      BY <3>1
    <3>3. T[k] = Newest(T[k - 1], cs[k].offered)
      BY <1>1, <1>3, <2>2, <3>1 DEF Ledger, Trail
    <3> QED
      BY <1>2, <1>10, <3>1, <3>2, <3>3
  <2> QED
    BY <1>2, <2>1, <2>2 DEF Trail
<1>13. ASSUME NEW q \in Ranks, NEW a \in 0 .. n, Owes(cs, A, W, L, i, q, a)
       PROVE  Owes(ds, A, W, L, i, q, a)
  <2>1. World(ds, i, A[q]) <=> World(cs, i, A[q])
    <3>1. CASE A[q] \in 1 .. n
      BY <1>3, <3>1
    <3>2. CASE A[q] = 0
      BY <3>2 DEF World
    <3> QED
      BY <1>5, <3>1, <3>2
  <2>2. CASE Keeps(cs, A, W, L, i, q) /\ \A k \in 1 .. n : World(cs, i, k) /\ k > a => A[q] < k
    <3>1. Keeps(ds, A, W, L, i, q)
      BY <2>1, <2>2 DEF Keeps
    <3>2. ASSUME NEW k \in 1 .. n + 1, World(ds, i, k), k > a PROVE A[q] < k
      <4>1. CASE k \in 1 .. n
        BY <1>3, <2>2, <3>2, <4>1
      <4>2. CASE k = n + 1
        BY <1>5, <4>2
      <4> QED
        BY <4>1, <4>2
    <3> QED
      BY <1>2, <3>1, <3>2 DEF Owes
  <2>3. CASE \E k \in 1 .. n :
                /\ World(cs, i, k) /\ k > a /\ k <= A[q]
                /\ \A j \in 1 .. n : World(cs, i, j) /\ j > a => k <= j
                /\ cs[k].offered[q] # None
    <3>1. PICK k \in 1 .. n :
                /\ World(cs, i, k) /\ k > a /\ k <= A[q]
                /\ \A j \in 1 .. n : World(cs, i, j) /\ j > a => k <= j
                /\ cs[k].offered[q] # None
      BY <2>3
    <3>2. k \in 1 .. n + 1 /\ World(ds, i, k) /\ ds[k].offered[q] # None
      BY <1>2, <1>3, <3>1
    <3>3. ASSUME NEW j \in 1 .. n + 1, World(ds, i, j), j > a PROVE k <= j
      <4>1. CASE j \in 1 .. n
        BY <1>3, <3>1, <3>3, <4>1
      <4>2. CASE j = n + 1
        BY <3>1, <4>2
      <4> QED
        BY <4>1, <4>2
    <3> QED
      BY <1>2, <3>1, <3>2, <3>3 DEF Owes
  <2> QED
    BY <1>1, <1>13, <2>2, <2>3 DEF Owes
<1>14. Accounted(ds, A, W, G, L, i, U)
  <2>1. ASSUME NEW r \in Ranks, G[r] # U[Past(A, W, r)]
        PROVE  \E q \in Ranks : Owes(ds, A, W, L, i, q, Past(A, W, r))
    <3>1. Past(A, W, r) \in 0 .. n
      BY <1>5 DEF Past, Ledger, Places
    <3>2. PICK q \in Ranks : Owes(cs, A, W, L, i, q, Past(A, W, r))
      BY <1>10, <2>1, <3>1 DEF Ledger, Accounted
    <3> QED
      BY <1>13, <3>1, <3>2
  <2>2. ASSUME NEW k \in 1 .. n + 1, About(ds, i, k), ~ World(ds, i, k),
               NEW q \in DOMAIN ds[k].offered, ds[k].offered[q] # None
        PROVE  Owes(ds, A, W, L, i, q, k)
    <3>1. k \in 1 .. n
      BY <1>4, <2>2
    <3>2. q \in DOMAIN cs[k].offered /\ cs[k].offered[q] # None
      BY <1>2, <2>2, <3>1
    <3>3. Owes(cs, A, W, L, i, q, k) /\ q \in Ranks
      BY <1>1, <1>3, <2>2, <3>1, <3>2 DEF Ledger, Accounted, Offering
    <3> QED
      BY <1>13, <3>1, <3>3
  <2> QED
    BY <1>2, <2>1, <2>2 DEF Accounted
<1> QED
  BY <1>6, <1>7, <1>8, <1>12, <1>14 DEF Ledger

\* A rank comes to a call in which no trees of this file are exchanged.
LEMMA LedgerPassed ==
    ASSUME NEW cs, Len(cs) \in Nat, NEW A, NEW B, NEW W, NEW G, NEW L, NEW i, NEW T,
           Ledger(cs, A, W, G, L, i, T), NEW r \in Ranks, r \notin W,
           NEW k \in 1 .. Len(cs), A[r] < k, B[r] = k, \A q \in Ranks \ {r} : B[q] = A[q],
           \A j \in A[r] + 1 .. k : ~ World(cs, i, j)
    PROVE  Ledger(cs, B, W, G, L, i, T)
<1>1. \A q \in Ranks : A[q] \in 0 .. Len(cs) /\ B[q] \in 0 .. Len(cs) /\ A[q] <= B[q]
  BY DEF Ledger, Places
<1>2. ASSUME NEW j \in 1 .. Len(cs), World(cs, i, j), NEW q \in Ranks PROVE j <= B[q] <=> j <= A[q]
  BY <1>1, <1>2
<1>3. Places(cs, B, W)
  BY <1>1 DEF Ledger, Places
<1>4. Offering(cs, B, i)
  <2>1. ASSUME NEW j \in 1 .. Len(cs), NEW q \in DOMAIN cs[j].offered PROVE q \in Ranks /\ j <= B[q]
    <3>1. q \in Ranks /\ j <= A[q]
      BY DEF Ledger, Offering
    <3> QED
      BY <1>1, <3>1
  <2>2. ASSUME NEW j \in 1 .. Len(cs), World(cs, i, j), NEW q \in Ranks, j <= B[q]
        PROVE  q \in DOMAIN cs[j].offered
    BY <1>2, <2>2 DEF Ledger, Offering
  <2> QED
    BY <2>1, <2>2 DEF Offering
<1>5. \A q \in Ranks \ {r} : Past(B, W, q) = Past(A, W, q)
  BY DEF Past
<1>6. Past(B, W, r) = k /\ Past(A, W, r) = A[r]
  BY DEF Past
<1>7. Closed(cs, B, W, i)
  <2> SUFFICES ASSUME NEW j \in 1 .. Len(cs), World(cs, i, j), NEW q \in Ranks, j <= Past(B, W, q)
               PROVE  Complete(cs, j)
    BY DEF Ledger, Closed
  <2>1. j <= Past(A, W, q)
    BY <1>2, <1>5, <1>6
  <2> QED
    BY <2>1 DEF Ledger, Closed
<1>8. ASSUME NEW q \in Ranks, NEW a, Owes(cs, A, W, L, i, q, a) PROVE Owes(cs, B, W, L, i, q, a)
  <2>1. Keeps(cs, A, W, L, i, q) => Keeps(cs, B, W, L, i, q)
    BY DEF Keeps
  <2>2. \A j \in 1 .. Len(cs) : World(cs, i, j) => (A[q] < j <=> B[q] < j) /\ (j <= A[q] <=> j <= B[q])
    BY <1>1, <1>2
  <2> QED
    BY <1>8, <2>1, <2>2 DEF Owes
<1>9. T[A[r]] = T[k]
  <2>1. A[r] \in 0 .. Len(cs) /\ k \in 0 .. Len(cs) /\ A[r] <= k
    BY <1>1
  <2> QED
    BY <2>1 DEF Ledger, Trail
<1>10. Accounted(cs, B, W, G, L, i, T)
  <2>1. ASSUME NEW q \in Ranks, G[q] # T[Past(B, W, q)]
        PROVE  \E p \in Ranks : Owes(cs, B, W, L, i, p, Past(B, W, q))
    <3>1. PICK p \in Ranks : Owes(cs, A, W, L, i, p, Past(A, W, q))
      BY <1>5, <1>6, <1>9, <2>1 DEF Ledger, Accounted
    <3>2. Owes(cs, A, W, L, i, p, Past(B, W, q))
      <4>1. CASE q = r
        <5>1. A[r] \in Nat /\ k \in Nat /\ A[r] <= k
          BY <1>1
        <5>2. Owes(cs, A, W, L, i, p, A[r])
          BY <1>6, <3>1, <4>1
        <5> QED
          BY <1>6, <4>1, <5>1, <5>2, OwesAlong
      <4> QED
        BY <1>5, <3>1, <4>1
    <3> QED
      BY <1>8, <3>2
  <2>2. \A j \in 1 .. Len(cs) : \A q \in DOMAIN cs[j].offered : q \in Ranks
    BY DEF Ledger, Offering
  <2> QED
    BY <1>8, <2>1, <2>2 DEF Ledger, Accounted
<1> QED
  BY <1>3, <1>4, <1>7, <1>10 DEF Ledger

\* A rank r joins the next call that it is a member of, call k, with x.
Joins(cs, ds, A, B, W, V, L, i, r, k, x) ==
    /\ r \notin W /\ V = (IF Cardinality(cs[k].comm) = 1 THEN W ELSE W \cup {r})
    /\ A[r] < k /\ B[r] = k /\ \A q \in Ranks \ {r} : B[q] = A[q]
    /\ \A j \in A[r] + 1 .. k - 1 : ~ World(cs, i, j)
    /\ \A j \in 1 .. Len(cs) : j # k => ds[j].offered = cs[j].offered
    /\ ds[k].offered = With(cs[k].offered, r, x)
    /\ About(cs, i, k) => x = L[r]

\* What was owed is owed when a rank joins a call with what it keeps.
LEMMA OwesJoined ==
    ASSUME NEW cs, Len(cs) \in Nat, NEW ds, SameCalls(ds, cs),
           NEW A, NEW B, NEW W, NEW V, NEW L, NEW i, NEW r \in Ranks, NEW k \in 1 .. Len(cs), NEW x,
           Joins(cs, ds, A, B, W, V, L, i, r, k, x), Places(cs, A, W), Offering(cs, A, i),
           NEW q \in Ranks, NEW a \in Nat, World(cs, i, k) => a < k,
           Owes(cs, A, W, L, i, q, a)
    PROVE  Owes(ds, B, V, L, i, q, a)
<1>0. /\ \A p \in Ranks : A[p] \in 0 .. Len(cs)
      /\ A[r] < k /\ B[r] = k /\ \A p \in Ranks \ {r} : B[p] = A[p] /\ (p \in V <=> p \in W)
      /\ \A j \in A[r] + 1 .. k - 1 : ~ World(cs, i, j)
      /\ \A j \in 1 .. Len(cs) : j # k => ds[j].offered = cs[j].offered
      /\ ds[k].offered = With(cs[k].offered, r, x)
      /\ World(cs, i, k) => x = L[r] /\ \A p \in Ranks : k <= A[p] => p \in DOMAIN cs[k].offered
  BY DEF Joins, Places, Offering, World
<1> USE <1>0
<1>1. Len(ds) = Len(cs) /\ \A j : World(ds, i, j) <=> World(cs, i, j)
  BY WorldSame DEF SameCalls
<1>2. ASSUME q # r PROVE /\ B[q] = A[q] /\ (q \in V <=> q \in W)
                         /\ \A j \in 1 .. Len(cs) : World(cs, i, j) /\ j <= A[q] => ds[j].offered[q] = cs[j].offered[q]
  <2>1. ASSUME NEW j \in 1 .. Len(cs), World(cs, i, j), j <= A[q] PROVE ds[j].offered[q] = cs[j].offered[q]
    <3>1. CASE j = k
      <4>1. q \in DOMAIN cs[k].offered
        BY <2>1, <3>1
      <4> QED
        BY <1>2, <3>1, <4>1 DEF With
    <3>2. CASE j # k
      BY <3>2
    <3> QED
      BY <3>1, <3>2
  <2> QED
    BY <1>2, <2>1
<1>3. CASE q # r
  <2>1. Keeps(cs, A, W, L, i, q) => Keeps(ds, B, V, L, i, q)
    BY <1>1, <1>2, <1>3 DEF Keeps
  <2> QED
    BY <1>1, <1>2, <1>3, <2>1 DEF Owes
<1>4. CASE q = r
  <2>1. A[r] \in 0 .. Len(cs)
    OBVIOUS
  <2>2. World(cs, i, k) => ds[k].offered[r] = L[r]
    BY DEF With
  <2>3. CASE Keeps(cs, A, W, L, i, r) /\ \A j \in 1 .. Len(cs) : World(cs, i, j) /\ j > a => A[r] < j
    <3>1. L[r] # None
      BY <2>3 DEF Keeps
    <3>2. \A j \in 1 .. Len(cs) : World(cs, i, j) /\ j > a => k <= j
      <4>1. \A j \in 1 .. Len(cs) : World(cs, i, j) => ~ (A[r] < j /\ j < k)
        BY <2>1
      <4> QED
        BY <2>3, <4>1
    <3>3. CASE World(cs, i, k)
      <4>1. k > a /\ k <= B[r]
        BY <3>3
      <4> QED
        BY <1>1, <1>4, <2>2, <3>1, <3>2, <3>3, <4>1 DEF Owes
    <3>4. CASE ~ World(cs, i, k)
      <4>1. Keeps(ds, B, V, L, i, r)
        BY <1>1, <3>1, <3>4 DEF Keeps
      <4>2. \A j \in 1 .. Len(cs) : World(cs, i, j) /\ j > a => B[r] < j
        BY <3>2, <3>4
      <4> QED
        BY <1>1, <1>4, <4>1, <4>2 DEF Owes
    <3> QED
      BY <3>3, <3>4
  <2>4. CASE \E j \in 1 .. Len(cs) :
                /\ World(cs, i, j) /\ j > a /\ j <= A[r]
                /\ \A l \in 1 .. Len(cs) : World(cs, i, l) /\ l > a => j <= l
                /\ cs[j].offered[r] # None
    <3>1. PICK j \in 1 .. Len(cs) :
                /\ World(cs, i, j) /\ j > a /\ j <= A[r]
                /\ \A l \in 1 .. Len(cs) : World(cs, i, l) /\ l > a => j <= l
                /\ cs[j].offered[r] # None
      BY <2>4
    <3>2. j # k /\ j <= B[r]
      BY <2>1, <3>1
    <3>3. ds[j].offered = cs[j].offered
      BY <3>2
    <3> QED
      BY <1>1, <1>4, <3>1, <3>2, <3>3 DEF Owes
  <2> QED
    BY <1>4, <2>3, <2>4 DEF Owes
<1> QED
  BY <1>3, <1>4

LEMMA LedgerJoined ==
    ASSUME NEW cs, Len(cs) \in Nat, NEW ds, SameCalls(ds, cs),
           NEW A, NEW B, NEW W, NEW V, NEW G, NEW L, NEW i, NEW T,
           Ledger(cs, A, W, G, L, i, T),
           NEW r \in Ranks, NEW k \in 1 .. Len(cs), NEW x, Joins(cs, ds, A, B, W, V, L, i, r, k, x)
    PROVE  \E U : Ledger(ds, B, V, G, L, i, U)
<1>0. /\ r \notin W /\ V = (IF Cardinality(cs[k].comm) = 1 THEN W ELSE W \cup {r})
      /\ A[r] < k /\ B[r] = k /\ \A q \in Ranks \ {r} : B[q] = A[q]
      /\ \A j \in A[r] + 1 .. k - 1 : ~ World(cs, i, j)
      /\ \A j \in 1 .. Len(cs) : j # k => ds[j].offered = cs[j].offered
      /\ ds[k].offered = With(cs[k].offered, r, x)
      /\ About(cs, i, k) => x = L[r]
  BY DEF Joins
<1> USE <1>0
<1>1. Len(ds) = Len(cs) /\ (\A j : World(ds, i, j) <=> World(cs, i, j))
      /\ (\A j \in 1 .. Len(cs) : About(ds, i, j) <=> About(cs, i, j))
      /\ (\A j \in 1 .. Len(cs) : ds[j].comm = cs[j].comm)
  BY WorldSame DEF SameCalls
<1>2. \A q \in Ranks : A[q] \in 0 .. Len(cs) /\ B[q] \in 0 .. Len(cs)
  BY DEF Ledger, Places
<1>3. r \notin DOMAIN cs[k].offered
  BY <1>2 DEF Ledger, Offering
<1>4. DOMAIN ds[k].offered = DOMAIN cs[k].offered \cup {r}
      /\ \A q \in DOMAIN cs[k].offered : ds[k].offered[q] = cs[k].offered[q]
  BY <1>3 DEF With
<1>5. World(cs, i, k) => ~ Complete(cs, k)
  BY <1>3 DEF Complete
<1>6. World(cs, i, k) => k = Len(cs) /\ \A q \in Ranks : ~ (k <= Past(A, W, q))
  BY <1>5 DEF Ledger, Closed
<1>7. World(cs, i, k) => r \in V
  BY DEF World
<1>8. /\ \A q \in Ranks \ {r} : (q \in V <=> q \in W) /\ Past(B, V, q) = Past(A, W, q)
      /\ Past(A, W, r) = A[r]
      /\ Past(B, V, r) = IF r \in V THEN k - 1 ELSE k
  BY DEF Past
<1>9. Places(ds, B, V)
  <2>1. ASSUME NEW q \in Ranks, q \in V PROVE B[q] # 0 /\ Cardinality(ds[B[q]].comm) # 1
    <3>1. CASE q = r
      BY <1>1, <2>1, <3>1
    <3>2. CASE q # r
      <4>1. q \in W /\ B[q] = A[q] /\ A[q] # 0 /\ Cardinality(cs[A[q]].comm) # 1
        BY <1>8, <2>1, <3>2 DEF Ledger, Places
      <4>2. A[q] \in 1 .. Len(cs)
        BY <1>2, <4>1
      <4> QED
        BY <1>1, <4>1, <4>2
    <3> QED
      BY <3>1, <3>2
  <2> QED
    BY <1>1, <1>2, <2>1 DEF Places
<1>10. Offering(ds, B, i)
  <2>1. ASSUME NEW j \in 1 .. Len(cs), NEW q \in DOMAIN ds[j].offered PROVE q \in Ranks /\ j <= B[q]
    <3>1. CASE q \in DOMAIN cs[j].offered
      <4>1. q \in Ranks /\ j <= A[q]
        BY <3>1 DEF Ledger, Offering
      <4> QED
        BY <1>2, <4>1
    <3>2. CASE q \notin DOMAIN cs[j].offered
      BY <1>4, <2>1, <3>2
    <3> QED
      BY <3>1, <3>2
  <2>2. ASSUME NEW j \in 1 .. Len(cs), World(cs, i, j), NEW q \in Ranks, j <= B[q]
        PROVE  q \in DOMAIN ds[j].offered
    <3>1. CASE j <= A[q]
      <4>1. q \in DOMAIN cs[j].offered
        BY <2>2, <3>1 DEF Ledger, Offering
      <4> QED
        BY <1>4, <4>1
    <3>2. CASE ~ j <= A[q]
      <4>1. q = r /\ j = k
        BY <1>2, <2>2, <3>2
      <4> QED
        BY <1>4, <4>1
    <3> QED
      BY <3>1, <3>2
  <2> QED
    BY <1>1, <2>1, <2>2 DEF Offering
<1>11. \A j \in 1 .. Len(cs) : j # k => (Complete(ds, j) <=> Complete(cs, j))
  BY DEF Complete
<1>12. Closed(ds, B, V, i)
  <2> SUFFICES ASSUME NEW j \in 1 .. Len(cs), World(cs, i, j),
                      j < Len(cs) \/ \E q \in Ranks : j <= Past(B, V, q)
               PROVE  Complete(ds, j)
    BY <1>1 DEF Closed
  <2>1. j # k
    <3> SUFFICES ASSUME j = k PROVE FALSE
      OBVIOUS
    <3>0. World(cs, i, k) /\ k = Len(cs) /\ ~ (j < Len(cs))
      BY <1>6
    <3>1. PICK q \in Ranks : k <= Past(B, V, q)
      BY <3>0
    <3>2. CASE q = r
      BY <1>7, <1>8, <3>1, <3>2
    <3>3. CASE q # r
      BY <1>6, <1>8, <3>1, <3>3
    <3> QED
      BY <3>2, <3>3
  <2>2. Complete(cs, j)
    <3>1. CASE j < Len(cs)
      BY <3>1 DEF Ledger, Closed
    <3>2. CASE \E q \in Ranks : j <= Past(B, V, q)
      <4>1. PICK q \in Ranks : j <= Past(B, V, q)
        BY <3>2
      <4>2. j <= Past(A, W, q)
        <5>1. CASE q = r
          <6>1. j <= k /\ A[r] \in Nat
            BY <1>2, <1>8, <4>1, <5>1
          <6>2. j <= A[r]
            BY <2>1, <6>1
          <6> QED
            BY <1>8, <5>1, <6>2
        <5>2. CASE q # r
          BY <1>8, <4>1, <5>2
        <5> QED
          BY <5>1, <5>2
      <4> QED
        BY <4>2 DEF Ledger, Closed
    <3> QED
      BY <3>1, <3>2
  <2> QED
    BY <1>11, <2>1, <2>2
\* The call is decided if this was the last rank.
<1>13. PICK U : U = [a \in 0 .. Len(cs) |-> IF a = k /\ World(cs, i, k) /\ Complete(ds, k)
                                            THEN Newest(T[k - 1], ds[k].offered) ELSE T[a]]
  OBVIOUS
<1>14. \A a \in 0 .. Len(cs) : a # k \/ ~ World(cs, i, k) => U[a] = T[a]
  BY <1>13
<1>15. Trail(ds, i, U)
  <2>1. ASSUME NEW a \in 0 .. Len(cs), NEW b \in 0 .. Len(cs), a <= b,
               \A j \in a + 1 .. b : ~ World(cs, i, j)
        PROVE  U[a] = U[b]
    <3>1. CASE a = b
      BY <3>1
    <3>2. CASE a # b
      <4>1. T[a] = T[b]
        BY <2>1 DEF Ledger, Trail
      <4>2. b \in a + 1 .. b /\ ~ World(cs, i, b)
        BY <2>1, <3>2
      <4>3. World(cs, i, k) => a # k /\ b # k
        BY <1>6, <2>1, <3>2, <4>2
      <4> QED
        BY <1>14, <4>1, <4>3
    <3> QED
      BY <3>1, <3>2
  <2>2. ASSUME NEW j \in 1 .. Len(cs), World(cs, i, j), Complete(ds, j)
        PROVE  U[j] = Newest(U[j - 1], ds[j].offered)
    <3>1. j \in 0 .. Len(cs) /\ j - 1 \in 0 .. Len(cs)
      OBVIOUS
    <3>2. CASE j = k
      <4>1. U[k] = Newest(T[k - 1], ds[k].offered)
        BY <1>13, <2>2, <3>1, <3>2
      <4>2. U[k - 1] = T[k - 1]
        BY <1>14, <3>1, <3>2
      <4> QED
        BY <3>2, <4>1, <4>2
    <3>3. CASE j # k
      <4>1. T[j] = Newest(T[j - 1], cs[j].offered)
        BY <1>11, <2>2, <3>3 DEF Ledger, Trail
      <4>2. U[j] = T[j]
        BY <1>14, <3>1, <3>3
      <4>3. U[j - 1] = T[j - 1]
        BY <1>6, <1>14, <3>1, <3>3
      <4> QED
        BY <3>3, <4>1, <4>2, <4>3
    <3> QED
      BY <3>2, <3>3
  <2> QED
    BY <1>1, <2>1, <2>2 DEF Trail
<1>16. About(cs, i, k) => x = L[r]
  OBVIOUS
<1>17. ASSUME NEW q \in Ranks, NEW a \in Nat, World(cs, i, k) => a < k, Owes(cs, A, W, L, i, q, a)
      PROVE  Owes(ds, B, V, L, i, q, a)
  BY <1>17, OwesJoined DEF Ledger
<1>18. ASSUME NEW j \in 1 .. Len(cs), About(ds, i, j), ~ World(ds, i, j),
             NEW q \in DOMAIN ds[j].offered, ds[j].offered[q] # None
      PROVE  Owes(ds, B, V, L, i, q, j)
  <2>1. CASE q \in DOMAIN cs[j].offered
    <3>1. cs[j].offered[q] # None
      BY <1>4, <1>18, <2>1
    <3>2. Owes(cs, A, W, L, i, q, j) /\ q \in Ranks /\ j <= A[q]
      BY <1>1, <1>18, <2>1, <3>1 DEF Ledger, Accounted, Offering
    <3>3. World(cs, i, k) => j < k
      BY <1>1, <1>6, <1>18
    <3>4. j \in Nat
      OBVIOUS
    <3> QED
      BY <1>17, <3>2, <3>3, <3>4
  <2>2. CASE q \notin DOMAIN cs[j].offered
    <3>1. j = k /\ q = r
      BY <1>4, <1>18, <2>2
    <3>2. L[r] # None
      BY <1>1, <1>16, <1>18, <3>1 DEF With
    <3>3. ~ World(ds, i, k) /\ B[r] = k
      BY <1>18, <3>1
    <3>4. Keeps(ds, B, V, L, i, r)
      BY <3>2, <3>3 DEF Keeps
    <3> QED
      BY <3>1, <3>3, <3>4 DEF Owes
  <2> QED
    BY <2>1, <2>2
<1>19. ASSUME NEW q \in Ranks, G[q] # U[Past(B, V, q)]
      PROVE  \E p \in Ranks : Owes(ds, B, V, L, i, p, Past(B, V, q))
  <2>1. Past(A, W, q) \in 0 .. Len(cs) /\ Past(B, V, q) \in 0 .. Len(cs)
    BY <1>2, <1>9 DEF Past, Ledger, Places
  <2>2. World(cs, i, k) => Past(B, V, q) < k
    <3> SUFFICES ASSUME World(cs, i, k) PROVE Past(B, V, q) < k
      OBVIOUS
    <3>1. CASE q = r
      BY <1>7, <1>8, <3>1
    <3>2. CASE q # r
      <4>1. ~ (k <= Past(B, V, q))
        BY <1>6, <1>8, <3>2
      <4> QED
        BY <2>1, <4>1
    <3> QED
      BY <3>1, <3>2
  <2>3. U[Past(B, V, q)] = T[Past(B, V, q)]
    BY <1>14, <2>1, <2>2
  <2>4. \E a, b \in 0 .. Len(cs) : /\ a = Past(A, W, q) /\ b = Past(B, V, q) /\ a <= b
                                   /\ \A j \in a + 1 .. b : ~ World(cs, i, j)
    <3>1. PICK a \in 0 .. Len(cs) : a = Past(A, W, q)
      BY <2>1
    <3>2. PICK b \in 0 .. Len(cs) : b = Past(B, V, q)
      BY <2>1
    <3>3. CASE q # r
      <4>1. a = b
        BY <1>8, <3>1, <3>2, <3>3
      <4>2. a <= b /\ \A j \in a + 1 .. b : ~ World(cs, i, j)
        BY <4>1
      <4> QED
        BY <3>1, <3>2, <4>2
    <3>4. CASE q = r
      <4>1. a = A[r] /\ b = IF r \in V THEN k - 1 ELSE k
        BY <1>8, <3>1, <3>2, <3>4
      <4>2. \A j \in a + 1 .. k : j = k \/ j \in a + 1 .. k - 1
        OBVIOUS
      <4>3. \A j \in a + 1 .. k - 1 : ~ World(cs, i, j)
        BY <4>1
      <4>4. a <= b /\ \A j \in a + 1 .. b : ~ World(cs, i, j)
        BY <1>7, <4>1, <4>2, <4>3
      <4> QED
        BY <3>1, <3>2, <4>4
    <3> QED
      BY <3>3, <3>4
  <2>5. T[Past(A, W, q)] = T[Past(B, V, q)]
    BY <2>1, <2>4 DEF Ledger, Trail
  <2>6. PICK p \in Ranks : Owes(cs, A, W, L, i, p, Past(A, W, q))
    BY <1>19, <2>3, <2>5 DEF Ledger, Accounted
  <2>7. PICK a \in Nat, b \in Nat : a = Past(A, W, q) /\ b = Past(B, V, q)
    BY <2>1
  <2>8. Owes(cs, A, W, L, i, p, b)
    <3>1. a <= b /\ \A j \in a + 1 .. b : ~ World(cs, i, j)
      BY <2>4, <2>7
    <3>2. Owes(cs, A, W, L, i, p, a)
      BY <2>6, <2>7
    <3> QED
      BY <3>1, <3>2, OwesAlong
  <2> QED
    BY <1>17, <2>2, <2>7, <2>8
<1> QED
  BY <1>1, <1>9, <1>10, <1>12, <1>15, <1>18, <1>19 DEF Ledger, Accounted

-----------------------------------------------------------------------------
(* What a rank has of a file. *)

LEMMA OneEntry ==
    ASSUME NEW S, NEW B, Sole(S, B), NEW b \in S
    PROVE  Entries(S, B, B[b].ino) = B[b]
<1>1. {c \in S : B[c].ino = B[b].ino} = {b}
  BY DEF Sole
<1> QED
  BY <1>1 DEF Entries

LEMMA EntriesSame ==
    ASSUME NEW S, NEW B, NEW D, \A b \in S : D[b] = B[b], NEW i
    PROVE  Entries(S, D, i) = Entries(S, B, i)
<1>1. {b \in S : D[b].ino = i} = {b \in S : B[b].ino = i}
  OBVIOUS
<1> QED
  BY <1>1 DEF Entries

\* A new index has nothing.
LEMMA EntriesNew ==
    ASSUME NEW S, NEW B, NEW D, NEW e, NEW n, D[e] = NewBb(n),
           \A b \in S : D[b] = B[b] /\ B[b].ino # n, NEW i
    PROVE  Entries(S \cup {e}, D, i) = Entries(S, B, i)
<1>1. D[e].ino = n
  BY DEF NewBb
<1>2. CASE i = n
  <2>1. {b \in S \cup {e} : D[b].ino = n} = {e} /\ {b \in S : B[b].ino = n} = {}
    BY <1>1
  <2> QED
    BY <1>2, <2>1 DEF Entries
<1>3. CASE i # n
  <2>1. {b \in S \cup {e} : D[b].ino = i} = {b \in S : B[b].ino = i}
    BY <1>1, <1>3
  <2> QED
    BY <2>1 DEF Entries
<1> QED
  BY <1>2, <1>3

\* The index b alone changes.
LEMMA EntriesOther ==
    ASSUME NEW S, NEW B, NEW D, NEW b \in S, \A c \in S : c # b => D[c] = B[c],
           D[b].ino = B[b].ino, NEW i, i # B[b].ino
    PROVE  Entries(S, D, i) = Entries(S, B, i)
<1>1. {c \in S : D[c].ino = i} = {c \in S : B[c].ino = i}
  OBVIOUS
<1>2. b \notin {c \in S : B[c].ino = i}
  OBVIOUS
<1> QED
  BY <1>1, <1>2 DEF Entries

\* The index that the handlers of a rank for a file use.
LEMMA HandlersEntry ==
    ASSUME IInv, ~ dropped, NEW r \in Ranks, NEW h \in DOMAIN handlers[r], NEW b, b = handlers[r][h].bb
    PROVE  /\ b \in store[r] /\ bbs[r][b].ino = coll[h].file[1]
           /\ Sole(store[r], bbs[r])
           /\ Entries(store[r], bbs[r], coll[h].file[1]) = bbs[r][b]
<1>1. IndexOfRank(r)
  BY DEF IInv, OneIndex
<1>2. b \in store[r] /\ bbs[r][b].ino = coll[h].file[1]
  BY <1>1 DEF IndexOfRank
<1>3. Sole(store[r], bbs[r])
  BY <1>1 DEF IndexOfRank, Sole
<1>4. Entries(store[r], bbs[r], bbs[r][b].ino) = bbs[r][b]
  BY <1>2, <1>3, OneEntry
<1> QED
  BY <1>2, <1>3, <1>4

-----------------------------------------------------------------------------
(* The steps. *)

\* Steps that give nothing.
LEMMA BalanceStays ==
    ASSUME NEW i, Balanced(i), UNCHANGED <<coll, at, pc, store>>,
           \A r \in Ranks : \A b \in store[r] : bbs'[r][b] = bbs[r][b]
    PROVE  Balanced(i)'
<1>1. \A r \in Ranks : Entries(store[r], bbs'[r], i) = Entries(store[r], bbs[r], i)
  BY EntriesSame
<1>2. Globals(i)' = Globals(i) /\ Locals(i)' = Locals(i) /\ Waiting' = Waiting
  BY <1>1 DEF Globals, Locals, Waiting
<1> QED
  BY <1>2 DEF Balanced

LEMMA SizesBalance ==
    ASSUME IInv, CallsInv, NEW r \in Ranks, SyncSizeRoot(r) \/ SyncSize(r), NEW i, Balanced(i)
    PROVE  Balanced(i)'
<1>1. SizesKept(r)
  BY SizesFacts
<1>2. SameCalls(coll', coll) /\ SameOffers(coll', coll) /\ Len(coll) \in Nat
  BY <1>1, ListDomain DEF SizesKept, Kept, Continues, Same, SameCalls, SameOffers, IInv, Shape, WellFormed
<1>3. Waiting' = Waiting
  BY <1>1 DEF SizesKept, Others, Waiting
<1>4. Globals(i)' = Globals(i) /\ Locals(i)' = Locals(i) /\ at' = at
  BY <1>1 DEF SizesKept, Globals, Locals
<1>5. PICK T : Ledger(coll, at, Waiting, Globals(i), Locals(i), i, T)
  BY DEF Balanced
<1>6. Ledger(coll', at, Waiting, Globals(i), Locals(i), i, T)
  BY <1>2, <1>5, LedgerSame
<1> QED
  BY <1>3, <1>4, <1>6 DEF Balanced

LEMMA PwriteBalance ==
    ASSUME IInv, CallsInv, ~ dropped, NEW r \in Ranks, NEW h, Pwrite(r, h), NEW i, Balanced(i)
    PROVE  Balanced(i)'
<1>1. PICK b : b = handlers[r][h].bb
  OBVIOUS
<1>2. PICK entry : entry = Entry(nwrites, coll[h].file)
  OBVIOUS
<1>3. /\ h \in DOMAIN handlers[r] /\ bbs' = [bbs EXCEPT ![r][b].local = entry]
      /\ UNCHANGED <<store, coll, at, pc>>
  BY <1>1, <1>2 DEF Pwrite
<1>4. entry # None
  BY <1>2 DEF Entry, None
<1>5. /\ b \in store[r] /\ store[r] \subseteq DOMAIN bbs[r]
      /\ {"ino", "global", "local"} \subseteq DOMAIN bbs[r][b]
  BY <1>1, <1>3, HandlersEntry DEF CallsInv, RankOk
<1>6. /\ \A q \in Ranks \ {r} : bbs'[q] = bbs[q]
      /\ \A c \in store[r] : c # b => bbs'[r][c] = bbs[r][c]
      /\ bbs'[r][b] = [bbs[r][b] EXCEPT !.local = entry]
  BY <1>3, <1>5 DEF IInv, Shape
<1>7. /\ bbs'[r][b].ino = bbs[r][b].ino /\ bbs'[r][b].global = bbs[r][b].global
      /\ bbs'[r][b].local = entry
  BY <1>5, <1>6
<1>8. \A q \in Ranks \ {r} : Entries(store[q], bbs'[q], i) = Entries(store[q], bbs[q], i)
  BY <1>6
<1>9. /\ Entries(store[r], bbs'[r], i).global = Entries(store[r], bbs[r], i).global
      /\ Entries(store[r], bbs[r], i).local # None => Entries(store[r], bbs'[r], i).local # None
  <2>1. CASE i # bbs[r][b].ino
    BY <1>5, <1>6, <1>7, <2>1, EntriesOther
  <2>2. CASE i = bbs[r][b].ino
    <3>1. Sole(store[r], bbs[r])
      BY <1>1, <1>3, HandlersEntry
    <3>2. Sole(store[r], bbs'[r])
      <4>1. \A c \in store[r] : bbs'[r][c].ino = bbs[r][c].ino
        BY <1>6, <1>7
      <4> QED
        BY <3>1, <4>1 DEF Sole
    <3>3. Entries(store[r], bbs[r], i) = bbs[r][b]
      BY <1>5, <2>2, <3>1, OneEntry
    <3>4. Entries(store[r], bbs'[r], i) = bbs'[r][b]
      <4>1. Entries(store[r], bbs'[r], bbs'[r][b].ino) = bbs'[r][b]
        BY <1>5, <3>2, OneEntry
      <4> QED
        BY <1>7, <2>2, <4>1
    <3> QED
      BY <1>4, <1>7, <3>3, <3>4
  <2> QED
    BY <2>1, <2>2
<1>10. Globals(i)' = Globals(i) /\ Waiting' = Waiting
  BY <1>3, <1>8, <1>9 DEF Globals, Waiting
<1>11. \A q \in Ranks : Locals(i)[q] # None => Locals(i)'[q] # None
  BY <1>3, <1>8, <1>9 DEF Locals
<1>12. PICK T : Ledger(coll, at, Waiting, Globals(i), Locals(i), i, T)
  BY DEF Balanced
<1>13. Ledger(coll, at, Waiting, Globals(i), Locals(i)', i, T)
  BY <1>11, <1>12, LedgerWritten
<1> QED
  BY <1>3, <1>10, <1>13 DEF Balanced

LEMMA MergeBalance ==
    ASSUME IInv, CallsInv, HasFiles(coll), ~ dropped, NEW r \in Ranks, Merge(r), NEW i, Balanced(i)
    PROVE  Balanced(i)'
<1>1. PICK k : k = at[r]
  OBVIOUS
<1>2. PICK h : h = HandlerOf(k)
  OBVIOUS
<1>3. PICK b : b = handlers[r][h].bb
  OBVIOUS
<1>4. PICK newest : newest = Newest(bbs[r][b].global, coll[k].offered)
  OBVIOUS
<1>5. PICK left : left = IF coll[k].comm = Ranks THEN None ELSE bbs[r][b].local
  OBVIOUS
<1>6. /\ pc[r] = "gather" /\ DOMAIN coll[k].offered = coll[k].comm
      /\ bbs' = [bbs EXCEPT ![r][b].global = newest, ![r][b].local = left]
      /\ pc' = [pc EXCEPT ![r] = IF coll[k].op = "open" THEN "idle" ELSE "size"]
      /\ UNCHANGED <<store, coll, at>>
  BY <1>1, <1>2, <1>3, <1>4, <1>5 DEF Merge
<1>7. k \in 1 .. Len(coll) /\ h \in DOMAIN handlers[r]
  BY <1>1, <1>2, <1>6 DEF CallsInv, InCall
<1>8. coll[h].op = "open" /\ coll[h].size # Failed /\ coll[h].file = coll[k].file /\ h \in 1 .. Len(coll)
  BY <1>2, <1>7 DEF CallsInv, CallsOk, CallOk, RankOk, HandlerOf
<1>9. coll[k].file # NoFile
  BY <1>8 DEF HasFiles
<1>10. /\ b \in store[r] /\ bbs[r][b].ino = coll[k].file[1]
       /\ Sole(store[r], bbs[r])
       /\ Entries(store[r], bbs[r], coll[k].file[1]) = bbs[r][b]
  BY <1>3, <1>7, <1>8, HandlersEntry
<1>11. store[r] \subseteq DOMAIN bbs[r] /\ {"ino", "global", "local"} \subseteq DOMAIN bbs[r][b]
  BY <1>10 DEF CallsInv, RankOk
<1>12. /\ \A q \in Ranks \ {r} : bbs'[q] = bbs[q]
       /\ \A c \in store[r] : c # b => bbs'[r][c] = bbs[r][c]
       /\ bbs'[r][b] = [bbs[r][b] EXCEPT !.global = newest, !.local = left]
  BY <1>6, <1>10, <1>11 DEF IInv, Shape
<1>13. bbs'[r][b].ino = bbs[r][b].ino /\ bbs'[r][b].global = newest /\ bbs'[r][b].local = left
  BY <1>11, <1>12
<1>14. \A q \in Ranks \ {r} : Entries(store[q], bbs'[q], i) = Entries(store[q], bbs[q], i)
  BY <1>12
<1>15. PICK G, H, L, M : G = Globals(i) /\ H = Globals(i)' /\ L = Locals(i) /\ M = Locals(i)'
  OBVIOUS
<1>16. \A q \in Ranks \ {r} : H[q] = G[q] /\ M[q] = L[q]
  <2> SUFFICES ASSUME NEW q \in Ranks \ {r} PROVE H[q] = G[q] /\ M[q] = L[q]
    OBVIOUS
  <2>1. Entries(store'[q], bbs'[q], i) = Entries(store[q], bbs[q], i)
    BY <1>6, <1>14
  <2>2. H[q] = Entries(store'[q], bbs'[q], i).global /\ G[q] = Entries(store[q], bbs[q], i).global
    BY <1>15 DEF Globals
  <2>3. M[q] = Entries(store'[q], bbs'[q], i).local /\ L[q] = Entries(store[q], bbs[q], i).local
    BY <1>15 DEF Locals
  <2> QED
    BY <2>1, <2>2, <2>3
<1>17. ASSUME About(coll, i, k)
       PROVE  /\ H[r] = Newest(G[r], coll[k].offered)
              /\ M[r] = IF coll[k].comm = Ranks THEN None ELSE L[r]
  <2>1. i = bbs[r][b].ino /\ Entries(store[r], bbs[r], i) = bbs[r][b]
    BY <1>10, <1>17 DEF About
  <2>2. Entries(store[r], bbs'[r], i) = bbs'[r][b]
    <3>1. \A c \in store[r] : bbs'[r][c].ino = bbs[r][c].ino
      BY <1>12, <1>13
    <3>2. Sole(store[r], bbs'[r])
      BY <1>10, <3>1 DEF Sole
    <3>3. Entries(store[r], bbs'[r], bbs'[r][b].ino) = bbs'[r][b]
      BY <1>10, <3>2, OneEntry
    <3> QED
      BY <1>13, <2>1, <3>3
  <2>3. G[r] = bbs[r][b].global /\ L[r] = bbs[r][b].local /\ H[r] = newest /\ M[r] = left
    BY <1>6, <1>13, <1>15, <2>1, <2>2 DEF Globals, Locals
  <2> QED
    BY <1>4, <1>5, <2>3
<1>18. ASSUME ~ About(coll, i, k) PROVE H[r] = G[r] /\ M[r] = L[r]
  <2>1. i # bbs[r][b].ino
    BY <1>9, <1>10, <1>18 DEF About
  <2>2. Entries(store[r], bbs'[r], i) = Entries(store[r], bbs[r], i)
    <3>1. b \in store[r] /\ bbs'[r][b].ino = bbs[r][b].ino
      BY <1>10, <1>13
    <3>2. \A c \in store[r] : c # b => bbs'[r][c] = bbs[r][c]
      BY <1>12
    <3> QED
      BY <2>1, <3>1, <3>2, EntriesOther
  <2> QED
    BY <1>6, <1>15, <1>18, <2>2 DEF Globals, Locals
<1>19. PICK T : Ledger(coll, at, Waiting, G, L, i, T)
  BY <1>15 DEF Balanced
<1>20. IsFiniteSet(Ranks)
  BY StoreAssumption, FS_Interval DEF Ranks
<1>21. r \in Waiting /\ Waiting' = Waiting \ {r}
  BY <1>6 DEF Waiting, CallsInv
<1>22. Len(coll) \in Nat
  BY ListDomain DEF IInv, Shape, WellFormed
<1>23. PICK V : V = Waiting \ {r}
  OBVIOUS
<1>24. Ledger(coll, at, V, H, M, i, T)
  <2>1. IF About(coll, i, k)
        THEN /\ H[r] = Newest(G[r], coll[k].offered)
             /\ M[r] = IF coll[k].comm = Ranks THEN None ELSE L[r]
        ELSE H[r] = G[r] /\ M[r] = L[r]
    BY <1>17, <1>18
  <2> QED
    BY <1>1, <1>6, <1>16, <1>19, <1>20, <1>21, <1>22, <1>23, <2>1, LedgerMerged
<1> QED
  BY <1>6, <1>15, <1>21, <1>23, <1>24 DEF Balanced

\* A rank joins call k with x.
LEMMA JoinBalance ==
    ASSUME IInv, CallsInv, NEW r \in Ranks, pc[r] = "idle", NEW calls, WellFormed(calls),
           NEW k \in 1 .. Len(calls), at[r] < k, at' = [at EXCEPT ![r] = k],
           NEW x, coll' = Offers(calls, k, r, x), NEW next, next # "gather",
           pc' = [pc EXCEPT ![r] = IF Cardinality(calls[k].comm) = 1 THEN next ELSE "gather"],
           NEW i, NEW T, Ledger(calls, at, Waiting, Globals(i), Locals(i), i, T),
           \A j \in at[r] + 1 .. k - 1 : ~ World(calls, i, j),
           About(calls, i, k) => x = Locals(i)[r],
           Globals(i)' = Globals(i), Locals(i)' = Locals(i)
    PROVE  Balanced(i)'
<1>1. PICK w : w = With(calls[k].offered, r, x)
  OBVIOUS
<1>2. coll' = [calls EXCEPT ![k].offered = w]
  BY <1>1 DEF Offers
<1>3. Len(coll') = Len(calls) /\ coll'[k].offered = w
  BY <1>2, Joined
<1>4. \A j \in 1 .. Len(calls) : Same(coll'[j], calls[j])
  <2>1. PICK t : t = [calls EXCEPT ![k].offered = w]
    OBVIOUS
  <2>2. \A j \in 1 .. Len(calls) : Same(t[j], calls[j])
    BY <2>1, Joined
  <2> QED
    BY <1>2, <2>1, <2>2
<1>5. \A j \in 1 .. Len(calls) : j # k => coll'[j] = calls[j]
  BY <1>2, Joined
<1>6. Len(calls) \in Nat
  BY ListDomain DEF WellFormed
<1>7. SameCalls(coll', calls)
  BY <1>3, <1>4 DEF SameCalls, Same
<1>8. PICK A, B, W, V, G, L, ds : /\ A = at /\ B = at' /\ W = Waiting /\ V = Waiting'
                                  /\ G = Globals(i) /\ L = Locals(i) /\ ds = coll'
  OBVIOUS
<1>9. Ledger(calls, A, W, G, L, i, T) /\ SameCalls(ds, calls)
  BY <1>7, <1>8
<1>10. /\ r \notin W /\ A[r] < k /\ \A j \in A[r] + 1 .. k - 1 : ~ World(calls, i, j)
       /\ About(calls, i, k) => x = L[r]
  BY <1>8 DEF Waiting
<1>11. B[r] = k /\ \A q \in Ranks \ {r} : B[q] = A[q]
  BY <1>8 DEF IInv, Shape
<1>12. V = IF Cardinality(calls[k].comm) = 1 THEN W ELSE W \cup {r}
  BY <1>8 DEF Waiting, CallsInv
<1>13. /\ \A j \in 1 .. Len(calls) : j # k => ds[j].offered = calls[j].offered
       /\ ds[k].offered = With(calls[k].offered, r, x)
  BY <1>1, <1>3, <1>5, <1>8
<1>14. Joins(calls, ds, A, B, W, V, L, i, r, k, x)
  BY <1>10, <1>11, <1>12, <1>13 DEF Joins
<1>15. \E U : Ledger(ds, B, V, G, L, i, U)
  BY <1>6, <1>9, <1>14, LedgerJoined
<1> QED
  BY <1>8, <1>15 DEF Balanced

\* No call of all ranks comes before the next call of a rank.
LEMMA NoneBefore ==
    ASSUME IInv, NEW r \in Ranks, NEW k \in Nat, \A l \in Calls(r) : k <= l, NEW i
    PROVE  \A j \in at[r] + 1 .. k - 1 : ~ World(coll, i, j)
<1>1. at[r] \in Nat /\ DOMAIN coll = 1 .. Len(coll) /\ Len(coll) \in Nat
  BY ListDomain DEF IInv, Shape, WellFormed
<1> SUFFICES ASSUME NEW j \in at[r] + 1 .. k - 1, World(coll, i, j) PROVE FALSE
  OBVIOUS
<1>2. j \in Calls(r)
  BY <1>1 DEF World, Calls
<1>3. k <= j /\ j <= k - 1 /\ j \in Int
  BY <1>2
<1> QED
  BY <1>3

\* A rank makes a call when it has made all those of others.
LEMMA LongerBalance ==
    ASSUME IInv, CallsInv, NEW r \in Ranks, pc[r] = "idle", Calls(r) = {},
           NEW c, Fields \subseteq DOMAIN c, DOMAIN c.offered = {}, NEW calls, calls = Append(coll, c),
           NEW i, Balanced(i)
    PROVE  /\ \E T : Ledger(calls, at, Waiting, Globals(i), Locals(i), i, T)
           /\ \A j \in at[r] + 1 .. Len(coll) : ~ World(calls, i, j)
<1>1. /\ Len(calls) = Len(coll) + 1 /\ Len(coll) \in Nat
      /\ calls[Len(coll) + 1] = c /\ \A k \in 1 .. Len(coll) : calls[k] = coll[k]
      /\ DOMAIN coll = 1 .. Len(coll)
  BY Added
<1>2. PICK T : Ledger(coll, at, Waiting, Globals(i), Locals(i), i, T)
  BY DEF Balanced
<1>3. at[r] \in Nat /\ at[r] <= Len(coll)
  BY DEF IInv, Shape
<1>4. ASSUME NEW k \in 1 .. Len(coll), World(coll, i, k) PROVE k <= at[r] /\ Complete(coll, k)
  <2>1. k <= at[r]
    BY <1>1, <1>3, <1>4 DEF World, Calls
  <2>2. k <= Past(at, Waiting, r)
    BY <2>1 DEF Past, Waiting
  <2>3. Complete(coll, k)
    BY <1>2, <1>4, <2>2 DEF Ledger, Closed
  <2> QED
    BY <2>1, <2>3
<1>5. \E U : Ledger(calls, at, Waiting, Globals(i), Locals(i), i, U)
  <2>1. \A k \in 1 .. Len(coll) : World(coll, i, k) => Complete(coll, k)
    BY <1>4
  <2>2. DOMAIN calls[Len(coll) + 1].offered = {}
    BY <1>1
  <2> QED
    BY <1>1, <1>2, <2>1, <2>2, LedgerLonger
<1>6. ASSUME NEW j \in at[r] + 1 .. Len(coll), World(calls, i, j) PROVE FALSE
  <2>1. j \in 1 .. Len(coll) /\ ~ (j <= at[r])
    BY <1>1, <1>3
  <2>2. World(coll, i, j)
    BY <1>1, <1>6, <2>1 DEF World, About
  <2> QED
    BY <1>4, <2>1, <2>2
<1> QED
  BY <1>5, <1>6

LEMMA EnterSyncBalance ==
    ASSUME IInv, CallsInv, ~ dropped, NEW r \in Ranks, pc[r] = "idle", NEW calls, WellFormed(calls),
           NEW k \in 1 .. Len(calls), at[r] < k, EnterSync(r, k, calls), UNCHANGED <<bbs, store>>,
           calls[k].of \in DOMAIN handlers[r], coll[calls[k].of].file = calls[k].file,
           NEW i, \E T : Ledger(calls, at, Waiting, Globals(i), Locals(i), i, T),
           \A j \in at[r] + 1 .. k - 1 : ~ World(calls, i, j)
    PROVE  Balanced(i)'
<1>1. PICK b : b = handlers[r][calls[k].of].bb
  OBVIOUS
<1>2. PICK x : x = bbs[r][b].local
  OBVIOUS
<1>3. /\ coll' = Offers(calls, k, r, x) /\ at' = [at EXCEPT ![r] = k]
      /\ pc' = [pc EXCEPT ![r] = IF Cardinality(calls[k].comm) = 1 THEN "size" ELSE "gather"]
  BY <1>1, <1>2 DEF EnterSync, Offers
<1>4. Entries(store[r], bbs[r], calls[k].file[1]) = bbs[r][b]
  BY <1>1, HandlersEntry
<1>5. About(calls, i, k) => x = Locals(i)[r]
  BY <1>2, <1>4 DEF About, Locals
<1>6. Globals(i)' = Globals(i) /\ Locals(i)' = Locals(i)
  BY DEF Globals, Locals
<1>7. PICK T : Ledger(calls, at, Waiting, Globals(i), Locals(i), i, T)
  OBVIOUS
<1>8. PICK next : next = "size" /\ next # "gather"
  OBVIOUS
<1>9. pc' = [pc EXCEPT ![r] = IF Cardinality(calls[k].comm) = 1 THEN next ELSE "gather"]
  BY <1>3, <1>8
<1> QED
  BY <1>3, <1>5, <1>6, <1>7, <1>8, <1>9, JoinBalance

LEMMA SyncBalance ==
    ASSUME IInv, CallsInv, ~ dropped, NEW r \in Ranks, NEW h, Sync(r, h), NEW i, Balanced(i)
    PROVE  Balanced(i)'
<1>1. h \in DOMAIN handlers[r] /\ h \in 1 .. Len(coll) /\ Len(coll) \in Nat
  BY ListDomain DEF Sync, IInv, FromCalls, Shape, WellFormed
<1>2. PICK c : c = SyncCall(h)
  OBVIOUS
<1>3. PICK calls : calls = Append(coll, c)
  OBVIOUS
<1>4. PICK k : k = Len(coll) + 1
  OBVIOUS
<1>5. Fields \subseteq DOMAIN c /\ c.of = h /\ c.file = coll[h].file /\ DOMAIN c.offered = {}
  BY <1>1, <1>2 DEF SyncCall, Fields, IInv, Shape, WellFormed
<1>6. /\ pc[r] = "idle" /\ Calls(r) = {} /\ EnterSync(r, k, calls) /\ UNCHANGED <<bbs, store>>
  BY <1>2, <1>3, <1>4 DEF Sync
<1>7. Continues(calls, coll) /\ Len(calls) = k /\ calls[k] = c
  BY <1>3, <1>4, <1>5, Added
<1>8. WellFormed(calls) /\ k \in 1 .. Len(calls) /\ at[r] < k
  BY <1>1, <1>4, <1>7 DEF Continues, IInv, Shape
<1>9. /\ \E T : Ledger(calls, at, Waiting, Globals(i), Locals(i), i, T)
      /\ \A j \in at[r] + 1 .. Len(coll) : ~ World(calls, i, j)
  BY <1>3, <1>5, <1>6, LongerBalance
<1>10. \A j \in at[r] + 1 .. k - 1 : ~ World(calls, i, j)
  BY <1>1, <1>4, <1>9
<1>11. calls[k].of \in DOMAIN handlers[r] /\ coll[calls[k].of].file = calls[k].file
  BY <1>1, <1>5, <1>7
<1> QED
  BY <1>6, <1>8, <1>9, <1>10, <1>11, EnterSyncBalance

LEMMA SyncOtherBalance ==
    ASSUME IInv, CallsInv, ~ dropped, NEW r \in Ranks, SyncOther(r), NEW i, Balanced(i)
    PROVE  Balanced(i)'
<1>1. PICK k : k = NextCall(r)
  OBVIOUS
<1>2. /\ k \in 1 .. Len(coll) /\ at[r] < k /\ k \in Calls(r) /\ \A l \in Calls(r) : k <= l
  BY <1>1, NextCallIsNext DEF SyncOther, IInv
<1>3. /\ EnterSync(r, k, coll) /\ coll[k].op = "sync" /\ pc[r] = "idle" /\ UNCHANGED <<bbs, store>>
  BY <1>1 DEF SyncOther
<1>4. coll[k].of \in DOMAIN handlers[r] /\ coll[coll[k].of].file = coll[k].file
  BY <1>2, <1>3, NextSync
<1>5. \A j \in at[r] + 1 .. k - 1 : ~ World(coll, i, j)
  <2>1. k \in Nat
    BY <1>2
  <2> QED
    BY <1>2, <2>1, NoneBefore
<1>6. WellFormed(coll) /\ \E T : Ledger(coll, at, Waiting, Globals(i), Locals(i), i, T)
  BY DEF Balanced, IInv, Shape
<1> QED
  BY <1>2, <1>3, <1>4, <1>5, <1>6, EnterSyncBalance

LEMMA AttachBalance ==
    ASSUME IInv, CallsInv, ~ dropped, NEW r \in Ranks, pc[r] = "idle", NEW calls, WellFormed(calls),
           NEW k \in 1 .. Len(calls), at[r] < k, NEW fd, Attach(r, k, calls, fd),
           at' = [at EXCEPT ![r] = k],
           NEW i, \E T : Ledger(calls, at, Waiting, Globals(i), Locals(i), i, T),
           \A j \in at[r] + 1 .. k - 1 : ~ World(calls, i, j)
    PROVE  Balanced(i)'
<1>1. PICK n : n = calls[k].file[1]
  OBVIOUS
<1>2. PICK b : b = NextBb(r, n, k)
  OBVIOUS
<1>3. Others(r) /\ Attached(r, k, calls, b)
  BY <1>1, <1>2, AttachFacts
<1>4. /\ \/ /\ Indexed(r, n) = {} /\ b = k /\ bbs'[r][k] = NewBb(n)
            /\ \A c \in DOMAIN bbs[r] : bbs'[r][c] = bbs[r][c]
         \/ b \in Indexed(r, n) /\ bbs'[r] = bbs[r]
      /\ store'[r] = store[r] \cup {b} /\ coll' = Offers(calls, k, r, bbs'[r][b].local)
  BY <1>1, <1>3 DEF Attached
<1>5. /\ store[r] \subseteq DOMAIN bbs[r] /\ Sole(store[r], bbs[r])
  BY DEF IInv, OneIndex, IndexOfRank, Sole
<1>6. PICK x : x = bbs'[r][b].local
  OBVIOUS
<1>7. /\ Entries(store'[r], bbs'[r], i) = Entries(store[r], bbs[r], i)
      /\ x = Entries(store[r], bbs[r], n).local
  <2>1. CASE b \in Indexed(r, n) /\ bbs'[r] = bbs[r]
    <3>1. b \in store[r] /\ bbs[r][b].ino = n
      BY <2>1 DEF Indexed
    <3>2. store'[r] = store[r]
      BY <1>4, <3>1
    <3>3. Entries(store[r], bbs[r], bbs[r][b].ino) = bbs[r][b]
      BY <1>5, <3>1, OneEntry
    <3> QED
      BY <1>6, <2>1, <3>1, <3>2, <3>3
  <2>2. CASE ~ (b \in Indexed(r, n) /\ bbs'[r] = bbs[r])
    <3>1. /\ Indexed(r, n) = {} /\ b = k /\ bbs'[r][b] = NewBb(n)
          /\ \A c \in DOMAIN bbs[r] : bbs'[r][c] = bbs[r][c]
      BY <1>4, <2>2
    <3>2. \A c \in store[r] : bbs'[r][c] = bbs[r][c] /\ bbs[r][c].ino # n
      BY <1>5, <3>1 DEF Indexed
    <3>3. Entries(store[r] \cup {b}, bbs'[r], i) = Entries(store[r], bbs[r], i)
      <4>1. PICK S, B, D : S = store[r] /\ B = bbs[r] /\ D = bbs'[r]
        OBVIOUS
      <4>2. D[b] = NewBb(n) /\ \A c \in S : D[c] = B[c] /\ B[c].ino # n
        BY <3>1, <3>2, <4>1
      <4>3. Entries(S \cup {b}, D, i) = Entries(S, B, i)
        BY <4>2, EntriesNew
      <4> QED
        BY <4>1, <4>3
    <3>4. Entries(store[r], bbs[r], n) = NewBb(n)
      BY <3>1 DEF Entries, Indexed
    <3> QED
      BY <1>4, <1>6, <3>1, <3>3, <3>4
  <2> QED
    BY <2>1, <2>2
<1>8. \A q \in Ranks : Entries(store'[q], bbs'[q], i) = Entries(store[q], bbs[q], i)
  BY <1>3, <1>7 DEF Others
<1>9. Globals(i)' = Globals(i) /\ Locals(i)' = Locals(i)
  BY <1>8 DEF Globals, Locals
<1>10. About(calls, i, k) => x = Locals(i)[r]
  BY <1>1, <1>7 DEF About, Locals
<1>11. coll' = Offers(calls, k, r, x)
  BY <1>4, <1>6
<1>12. PICK next : next = "idle" /\ next # "gather"
  OBVIOUS
<1>13. pc' = [pc EXCEPT ![r] = IF Cardinality(calls[k].comm) = 1 THEN next ELSE "gather"]
  BY <1>12 DEF Attach, Gather
<1>14. PICK T : Ledger(calls, at, Waiting, Globals(i), Locals(i), i, T)
  OBVIOUS
<1> QED
  BY <1>9, <1>10, <1>11, <1>12, <1>13, <1>14, JoinBalance

LEMMA OpenBalance ==
    ASSUME IInv, CallsInv, ~ dropped, NEW r \in Ranks, NEW C, NEW p, NEW flags,
           Open(r, C, p, flags), NEW i, Balanced(i)
    PROVE  Balanced(i)'
<1>1. PICK o \in OpenPath(p, flags) :
          Attach(r, Len(coll) + 1,
                 Append(coll, OpenCall(C, p, flags, o.file, o.disk[o.file[1]].size)), o.file)
  BY DEF Open
<1>2. PICK c : c = OpenCall(C, p, flags, o.file, o.disk[o.file[1]].size)
  OBVIOUS
<1>3. PICK calls : calls = Append(coll, c)
  OBVIOUS
<1>4. PICK k : k = Len(coll) + 1
  OBVIOUS
<1>5. Attach(r, k, calls, o.file)
  BY <1>1, <1>2, <1>3, <1>4
<1>6. Fields \subseteq DOMAIN c /\ DOMAIN c.offered = {}
  BY <1>2 DEF OpenCall, Fields
<1>7. Continues(calls, coll) /\ Len(calls) = k /\ Len(coll) \in Nat
  BY <1>3, <1>4, <1>6, Added
<1>8. pc[r] = "idle" /\ Calls(r) = {} /\ at' = [at EXCEPT ![r] = k]
  BY <1>4 DEF Open
<1>9. WellFormed(calls) /\ k \in 1 .. Len(calls) /\ at[r] < k
  BY <1>4, <1>7 DEF Continues, IInv, Shape
<1>10. /\ \E T : Ledger(calls, at, Waiting, Globals(i), Locals(i), i, T)
       /\ \A j \in at[r] + 1 .. Len(coll) : ~ World(calls, i, j)
  BY <1>3, <1>6, <1>8, LongerBalance
<1>11. \A j \in at[r] + 1 .. k - 1 : ~ World(calls, i, j)
  BY <1>4, <1>7, <1>10
<1> QED
  BY <1>5, <1>8, <1>9, <1>10, <1>11, AttachBalance

\* A call of no file.
LEMMA PassBalance ==
    ASSUME IInv, CallsInv, NEW r \in Ranks, pc[r] = "idle", Len(coll') \in Nat,
           NEW k \in 1 .. Len(coll'), at[r] < k, at' = [at EXCEPT ![r] = k], coll'[k].file = NoFile,
           UNCHANGED <<bbs, store, pc>>,
           NEW i, \E T : Ledger(coll', at, Waiting, Globals(i), Locals(i), i, T),
           \A j \in at[r] + 1 .. k - 1 : ~ World(coll', i, j)
    PROVE  Balanced(i)'
<1>1. PICK T : Ledger(coll', at, Waiting, Globals(i), Locals(i), i, T)
  OBVIOUS
<1>2. at[r] \in Nat /\ at'[r] = k /\ \A q \in Ranks \ {r} : at'[q] = at[q]
  BY DEF IInv, Shape
<1>3. \A j \in at[r] + 1 .. k : j = k \/ j \in at[r] + 1 .. k - 1
  BY <1>2
<1>4. \A j \in at[r] + 1 .. k : ~ World(coll', i, j)
  BY <1>3 DEF World, About
<1>5. r \notin Waiting
  BY DEF Waiting
<1>6. Ledger(coll', at', Waiting, Globals(i), Locals(i), i, T)
  BY <1>1, <1>2, <1>4, <1>5, LedgerPassed
<1>7. Globals(i)' = Globals(i) /\ Locals(i)' = Locals(i) /\ Waiting' = Waiting
  BY DEF Globals, Locals, Waiting
<1> QED
  BY <1>6, <1>7 DEF Balanced

LEMMA OpenFailsBalance ==
    ASSUME IInv, CallsInv, NEW r \in Ranks, NEW C, NEW p, OpenFails(r, C, p), NEW i, Balanced(i)
    PROVE  Balanced(i)'
<1>1. PICK c : c = OpenCall(C, p, {}, NoFile, Failed)
  OBVIOUS
<1>2. Fields \subseteq DOMAIN c /\ DOMAIN c.offered = {} /\ c.file = NoFile
  BY <1>1 DEF OpenCall, Fields
<1>3. PICK k : k = Len(coll) + 1
  OBVIOUS
<1>4. /\ coll' = Append(coll, c) /\ at' = [at EXCEPT ![r] = k] /\ pc[r] = "idle" /\ Calls(r) = {}
      /\ UNCHANGED <<bbs, store, pc>>
  BY <1>1, <1>3 DEF OpenFails
<1>5. PICK calls : calls = coll'
  OBVIOUS
<1>6. Len(calls) = k /\ calls[k] = c /\ Len(coll) \in Nat
  BY <1>2, <1>3, <1>4, <1>5, Added
<1>7. /\ \E T : Ledger(calls, at, Waiting, Globals(i), Locals(i), i, T)
      /\ \A j \in at[r] + 1 .. Len(coll) : ~ World(calls, i, j)
  BY <1>2, <1>4, <1>5, LongerBalance
<1>8. k \in 1 .. Len(calls) /\ at[r] < k /\ k - 1 = Len(coll)
  BY <1>3, <1>6 DEF IInv, Shape
<1>9. \A j \in at[r] + 1 .. k - 1 : ~ World(coll', i, j)
  BY <1>5, <1>7, <1>8
<1>10. \E T : Ledger(coll', at, Waiting, Globals(i), Locals(i), i, T)
  BY <1>5, <1>7
<1>11. Len(coll') \in Nat /\ k \in 1 .. Len(coll') /\ coll'[k].file = NoFile
  BY <1>2, <1>3, <1>5, <1>6, <1>8
<1> QED
  BY <1>4, <1>8, <1>9, <1>10, <1>11, PassBalance

LEMMA OpenOtherBalance ==
    ASSUME IInv, CallsInv, HasFiles(coll), ~ dropped, NEW r \in Ranks, OpenOther(r), NEW i, Balanced(i)
    PROVE  Balanced(i)'
<1>1. PICK k : k = NextCall(r)
  OBVIOUS
<1>2. /\ k \in 1 .. Len(coll) /\ at[r] < k /\ \A l \in Calls(r) : k <= l
  BY <1>1, NextCallIsNext DEF OpenOther, IInv
<1>3. coll[k].op = "open" /\ at' = [at EXCEPT ![r] = k] /\ pc[r] = "idle"
  BY <1>1 DEF OpenOther
<1>4. WellFormed(coll) /\ Len(coll) \in Nat /\ k \in Nat
  BY <1>2, ListDomain DEF IInv, Shape, WellFormed
<1>5. \A j \in at[r] + 1 .. k - 1 : ~ World(coll, i, j)
  BY <1>2, <1>4, NoneBefore
<1>6. \E T : Ledger(coll, at, Waiting, Globals(i), Locals(i), i, T)
  BY DEF Balanced
<1>7. CASE coll[k].size = Failed
  <2>1. coll' = coll /\ UNCHANGED <<bbs, store, pc>>
    BY <1>1, <1>7 DEF OpenOther
  <2>2. coll'[k].file = NoFile
    BY <1>2, <1>3, <1>7, <2>1 DEF HasFiles
  <2>3. \E T : Ledger(coll', at, Waiting, Globals(i), Locals(i), i, T)
    BY <1>6, <2>1
  <2>4. \A j \in at[r] + 1 .. k - 1 : ~ World(coll', i, j)
    BY <1>5, <2>1
  <2>5. Len(coll') \in Nat /\ k \in 1 .. Len(coll')
    BY <1>2, <1>4, <2>1
  <2> QED
    BY <1>2, <1>3, <2>1, <2>2, <2>3, <2>4, <2>5, PassBalance
<1>8. CASE coll[k].size # Failed
  <2>1. Attach(r, k, coll, NoFile)
    BY <1>1, <1>8 DEF OpenOther
  <2> QED
    BY <1>2, <1>3, <1>4, <1>5, <1>6, <2>1, AttachBalance
<1> QED
  BY <1>7, <1>8

LEMMA InitBalance == Init => LedgerInv
<1> SUFFICES ASSUME Init PROVE LedgerInv
  OBVIOUS
<1>1. Len(coll) = 0 /\ Waiting = {} /\ \A r \in Ranks : at[r] = 0 /\ store[r] = {}
  BY DEF Init, Waiting
<1>2. HasFiles(coll)
  BY <1>1 DEF HasFiles
<1>3. ASSUME NEW i PROVE Balanced(i)
  <2>1. \A r \in Ranks : Globals(i)[r] = None
    BY <1>1 DEF Globals, Entries, NewBb
  <2>2. PICK T : T = [a \in {0} |-> None]
    OBVIOUS
  <2>3. Places(coll, at, Waiting)
    BY <1>1 DEF Places
  <2>4. Offering(coll, at, i)
    BY <1>1 DEF Offering
  <2>5. Closed(coll, at, Waiting, i)
    BY <1>1 DEF Closed
  <2>6. Trail(coll, i, T)
    BY <1>1 DEF Trail
  <2>7. Accounted(coll, at, Waiting, Globals(i), Locals(i), i, T)
    BY <1>1, <2>1, <2>2 DEF Accounted, Past
  <2> QED
    BY <2>3, <2>4, <2>5, <2>6, <2>7 DEF Balanced, Ledger
<1> QED
  BY <1>2, <1>3 DEF LedgerInv

LEMMA OfferedHaveFiles ==
    ASSUME NEW calls, WellFormed(calls), HasFiles(calls), NEW k \in 1 .. Len(calls), NEW r, NEW x,
           coll' = Offers(calls, k, r, x)
    PROVE  HasFiles(coll')
<1>1. PICK w, t : w = With(calls[k].offered, r, x) /\ t = [calls EXCEPT ![k].offered = w]
  OBVIOUS
<1>2. coll' = t /\ t = [calls EXCEPT ![k].offered = w]
  BY <1>1 DEF Offers
<1>3. Len(t) = Len(calls) /\ \A j \in 1 .. Len(calls) : Same(t[j], calls[j]) /\ t[j].size = calls[j].size
  BY <1>2, Joined
<1> QED
  BY <1>2, <1>3 DEF HasFiles, Same

LEMMA AddedHaveFiles ==
    ASSUME IInv, HasFiles(coll), NEW c, Fields \subseteq DOMAIN c, NEW calls, calls = Append(coll, c),
           c.op = "open" => (c.file = NoFile <=> c.size = Failed)
    PROVE  HasFiles(calls) /\ WellFormed(calls) /\ Len(coll) + 1 \in 1 .. Len(calls)
<1>1. Continues(calls, coll) /\ Len(calls) = Len(coll) + 1 /\ Len(coll) \in Nat
  BY Added
<1>2. calls[Len(coll) + 1] = c /\ \A k \in 1 .. Len(coll) : calls[k] = coll[k]
  BY Added
<1>3. \A k \in 1 .. Len(calls) : k \in 1 .. Len(coll) \/ k = Len(coll) + 1
  BY <1>1
<1> QED
  BY <1>1, <1>2, <1>3 DEF HasFiles, Continues

LEMMA FilesStayWithOpens ==
    ASSUME IInv, CallsInv, HasFiles(coll), dir \in [Paths -> {NoIno} \cup Inos], NEW r \in Ranks,
           \/ \E C, flags : \E p \in Paths : Open(r, C, p, flags) \/ OpenFails(r, C, p)
           \/ Progress(r)
           \/ \E h : Sync(r, h)
    PROVE  HasFiles(coll')
<1>1. WellFormed(coll) /\ Len(coll) \in Nat
  BY ListDomain DEF IInv, Shape, WellFormed
<1>2. ASSUME NEW C, NEW flags, NEW p \in Paths, Open(r, C, p, flags) PROVE HasFiles(coll')
  <2>1. PICK o \in OpenPath(p, flags) :
            Attach(r, Len(coll) + 1,
                   Append(coll, OpenCall(C, p, flags, o.file, o.disk[o.file[1]].size)), o.file)
    BY <1>2 DEF Open
  <2>2. o.file # NoFile /\ o.disk[o.file[1]].size # Failed
    BY OpenPathFacts, SizeIsNatural DEF IInv
  <2>3. PICK size : size = o.disk[o.file[1]].size
    OBVIOUS
  <2>4. PICK c : c = OpenCall(C, p, flags, o.file, size)
    OBVIOUS
  <2>5. Fields \subseteq DOMAIN c /\ c.file # NoFile /\ c.size # Failed
    BY <2>2, <2>3, <2>4 DEF OpenCall, Fields
  <2>6. PICK calls : calls = Append(coll, c)
    OBVIOUS
  <2>7. HasFiles(calls) /\ WellFormed(calls) /\ Len(coll) + 1 \in 1 .. Len(calls)
    BY <2>5, <2>6, AddedHaveFiles
  <2>8. PICK x : coll' = Offers(calls, Len(coll) + 1, r, x)
    BY <2>1, <2>3, <2>4, <2>6 DEF Attach, Gather, Offers
  <2> QED
    BY <2>7, <2>8, OfferedHaveFiles
<1>3. ASSUME NEW C, NEW p \in Paths, OpenFails(r, C, p) PROVE HasFiles(coll')
  <2>1. PICK c : c = OpenCall(C, p, {}, NoFile, Failed)
    OBVIOUS
  <2>2. Fields \subseteq DOMAIN c /\ c.file = NoFile /\ c.size = Failed
    BY <2>1 DEF OpenCall, Fields
  <2>3. PICK calls : calls = Append(coll, c)
    OBVIOUS
  <2>4. HasFiles(calls)
    BY <2>2, <2>3, AddedHaveFiles
  <2> QED
    BY <1>3, <2>1, <2>3, <2>4 DEF OpenFails
<1>4. CASE OpenOther(r)
  <2>1. PICK k : k = NextCall(r)
    OBVIOUS
  <2>2. k \in 1 .. Len(coll)
    BY <1>4, <2>1, NextCallIsNext DEF OpenOther, IInv
  <2>3. CASE coll[k].size = Failed
    BY <1>4, <2>1, <2>3 DEF OpenOther
  <2>4. CASE coll[k].size # Failed
    <3>1. PICK x : coll' = Offers(coll, k, r, x)
      BY <1>4, <2>1, <2>4 DEF OpenOther, Attach, Gather, Offers
    <3> QED
      BY <1>1, <2>2, <3>1, OfferedHaveFiles
  <2> QED
    BY <2>3, <2>4
<1>5. CASE Merge(r)
  BY <1>5 DEF Merge
<1>6. CASE SyncOther(r)
  <2>1. PICK k : k = NextCall(r)
    OBVIOUS
  <2>2. k \in 1 .. Len(coll)
    BY <1>6, <2>1, NextCallIsNext DEF SyncOther, IInv
  <2>3. PICK x : coll' = Offers(coll, k, r, x)
    BY <1>6, <2>1 DEF SyncOther, EnterSync, Offers
  <2> QED
    BY <1>1, <2>2, <2>3, OfferedHaveFiles
<1>7. CASE SyncSizeRoot(r) \/ SyncSize(r)
  <2>1. Kept /\ Len(coll') = Len(coll)
    BY <1>7, SizesFacts DEF SizesKept
  <2>2. \A k \in 1 .. Len(coll) : Same(coll'[k], coll[k])
    BY <2>1 DEF Kept, Continues
  <2> QED
    BY <2>1, <2>2 DEF HasFiles, Kept, Same
<1>8. ASSUME NEW h, Sync(r, h) PROVE HasFiles(coll')
  <2>1. PICK c : c = SyncCall(h)
    OBVIOUS
  <2>2. h \in 1 .. Len(coll)
    BY <1>8 DEF Sync, IInv, FromCalls, Shape
  <2>3. Fields \subseteq DOMAIN c /\ c.op # "open"
    BY <2>1, <2>2 DEF SyncCall, Fields, IInv, Shape, WellFormed
  <2>4. PICK calls : calls = Append(coll, c)
    OBVIOUS
  <2>5. HasFiles(calls) /\ WellFormed(calls) /\ Len(coll) + 1 \in 1 .. Len(calls)
    BY <2>3, <2>4, AddedHaveFiles
  <2>6. PICK x : coll' = Offers(calls, Len(coll) + 1, r, x)
    BY <1>8, <2>1, <2>4 DEF Sync, EnterSync, Offers
  <2> QED
    BY <2>5, <2>6, OfferedHaveFiles
<1> QED
  BY <1>2, <1>3, <1>4, <1>5, <1>6, <1>7, <1>8 DEF Progress

LEMMA LedgerStep == StoreInv /\ LedgerInv /\ [Next]_vars => LedgerInv'
<1> SUFFICES ASSUME StoreInv, LedgerInv, [Next]_vars PROVE LedgerInv'
  OBVIOUS
<1>1. /\ IInv /\ CallsInv /\ HasFiles(coll) /\ dir \in [Paths -> {NoIno} \cup Inos]
      /\ ~ dropped => \A i \in Inos : Balanced(i)
  BY DEF StoreInv, FilesInv, LedgerInv
<1>2. ASSUME NEW r \in Ranks, NEW C \in Comms, NEW p \in Paths, NEW flags, Open(r, C, p, flags)
      PROVE  LedgerInv'
  <2>1. HasFiles(coll') /\ dropped' = dropped
    BY <1>1, <1>2, FilesStayWithOpens DEF Open
  <2> QED
    BY <1>1, <1>2, <2>1, OpenBalance DEF LedgerInv, HasFiles
<1>3. ASSUME NEW r \in Ranks, NEW C \in Comms, NEW p \in Paths, OpenFails(r, C, p)
      PROVE  LedgerInv'
  <2>1. HasFiles(coll') /\ dropped' = dropped
    BY <1>1, <1>3, FilesStayWithOpens DEF OpenFails, history
  <2> QED
    BY <1>1, <1>3, <2>1, OpenFailsBalance DEF LedgerInv, HasFiles
<1>4. ASSUME NEW r \in Ranks, Progress(r) PROVE LedgerInv'
  <2>1. HasFiles(coll')
    BY <1>1, <1>4, FilesStayWithOpens
  <2>2. dropped' = dropped
    BY <1>4 DEF Progress, OpenOther, Merge, SyncOther, SyncSizeRoot, SyncSize, history
  <2>3. ASSUME ~ dropped, NEW i \in Inos PROVE Balanced(i)'
    <3>1. Balanced(i)
      BY <1>1, <2>3
    <3>2. CASE OpenOther(r)
      BY <1>1, <2>3, <3>1, <3>2, OpenOtherBalance
    <3>3. CASE Merge(r)
      BY <1>1, <2>3, <3>1, <3>3, MergeBalance
    <3>4. CASE SyncOther(r)
      BY <1>1, <2>3, <3>1, <3>4, SyncOtherBalance
    <3>5. CASE SyncSizeRoot(r) \/ SyncSize(r)
      BY <1>1, <3>1, <3>5, SizesBalance
    <3> QED
      BY <1>4, <3>2, <3>3, <3>4, <3>5 DEF Progress
  <2> QED
    BY <2>1, <2>2, <2>3 DEF LedgerInv, HasFiles
<1>5. ASSUME NEW r \in Ranks, NEW h \in DOMAIN handlers[r], Sync(r, h) PROVE LedgerInv'
  <2>1. HasFiles(coll') /\ dropped' = dropped
    BY <1>1, <1>5, FilesStayWithOpens DEF Sync, history
  <2> QED
    BY <1>1, <1>5, <2>1, SyncBalance DEF LedgerInv, HasFiles
<1>6. ASSUME NEW r \in Ranks, NEW h \in DOMAIN handlers[r], Pwrite(r, h) PROVE LedgerInv'
  <2>1. coll' = coll /\ dropped' = dropped
    BY <1>6 DEF Pwrite, history
  <2> QED
    BY <1>1, <1>6, <2>1, PwriteBalance DEF LedgerInv, HasFiles
\* No index changes, or one goes that is not in bb_store_.
<1>7. ASSUME UNCHANGED <<coll, at, pc, store, dropped>>, ~ dropped =>
                 \A r \in Ranks : \A b \in store[r] : bbs'[r][b] = bbs[r][b]
      PROVE  LedgerInv'
  BY <1>1, <1>7, BalanceStays DEF LedgerInv, HasFiles
<1>8. ASSUME NEW r \in Ranks, NEW h \in DOMAIN handlers[r], OpenDeferred(r, h) \/ Close(r, h)
      PROVE  LedgerInv'
  <2>1. CASE OpenDeferred(r, h)
    BY <1>7, <2>1 DEF OpenDeferred, history
  <2>2. CASE Close(r, h)
    <3>1. Release(r) /\ UNCHANGED <<coll, at, pc, store, dropped>>
      BY <2>2 DEF Close, history
    <3>2. ~ dropped => \A q \in Ranks : store[q] \subseteq DOMAIN bbs[q]
      BY <1>1 DEF IInv, OneIndex, IndexOfRank
    <3>3. ~ dropped => \A q \in Ranks : \A b \in store[q] : bbs'[q][b] = bbs[q][b]
      BY <1>1, <3>1, <3>2, Released
    <3> QED
      BY <1>7, <3>1, <3>3
  <2> QED
    BY <1>8, <2>1, <2>2
<1>9. ASSUME NEW r \in Ranks, NEW p \in Paths, Unlink(r, p) PROVE LedgerInv'
  BY <1>1, <1>9 DEF Unlink, LedgerInv, HasFiles
<1>10. ASSUME NEW p \in Paths, Remove(p) PROVE LedgerInv'
  BY <1>7, <1>10 DEF Remove
<1>11. CASE UNCHANGED vars
  BY <1>7, <1>11 DEF vars, history
<1> QED
  BY <1>2, <1>3, <1>4, <1>5, <1>6, <1>8, <1>9, <1>10, <1>11 DEF Next, Finished

LEMMA NothingIsLeft == StoreInv /\ LedgerInv => NothingLeftBehind
<1> SUFFICES ASSUME StoreInv, LedgerInv, ~ dropped, NEW i \in Inos, Quiet(i),
                    NEW r \in Ranks, NEW q \in Ranks, NEW b \in Indexed(r, i), NEW c \in Indexed(q, i)
             PROVE  bbs[r][b].global = bbs[q][c].global
  BY DEF NothingLeftBehind
<1>1. PICK T : Ledger(coll, at, Waiting, Globals(i), Locals(i), i, T)
  BY DEF LedgerInv, Balanced
<1>2. /\ DOMAIN coll = 1 .. Len(coll) /\ Len(coll) \in Nat
      /\ \A p \in Ranks : at[p] \in 0 .. Len(coll)
  BY <1>1, ListDomain DEF StoreInv, IInv, Shape, WellFormed, Ledger, Places
\* All ranks have given what they had, and are done with the calls of all.
<1>3. \A p \in Ranks : Locals(i)[p] = None
  BY DEF Locals, Entries, NewBb, Quiet, Indexed
<1>4. ASSUME NEW p \in Ranks, NEW k \in 1 .. Len(coll), World(coll, i, k) PROVE k <= Past(at, Waiting, p)
  <2>1. k \notin Calls(p) /\ ~ (p \in Waiting /\ k = at[p])
    BY <1>4 DEF Quiet, World, About, Waiting
  <2>2. k <= at[p]
    BY <1>2, <1>4, <2>1 DEF Calls, World
  <2> QED
    BY <1>2, <2>1, <2>2 DEF Past
<1>5. \A p \in Ranks : Past(at, Waiting, p) \in 0 .. Len(coll)
  BY <1>1, <1>2 DEF Past, Ledger, Places
<1>6. ASSUME NEW p \in Ranks PROVE Globals(i)[p] = T[Past(at, Waiting, p)]
  <2> SUFFICES ASSUME NEW s \in Ranks, Owes(coll, at, Waiting, Locals(i), i, s, Past(at, Waiting, p))
               PROVE  FALSE
    BY <1>1 DEF Ledger, Accounted
  <2>1. ~ Keeps(coll, at, Waiting, Locals(i), i, s)
    BY <1>3 DEF Keeps
  <2> QED
    BY <1>4, <1>5, <2>1 DEF Owes
<1>7. ASSUME NEW p \in Ranks, NEW s \in Ranks, Past(at, Waiting, p) <= Past(at, Waiting, s)
      PROVE  Globals(i)[p] = Globals(i)[s]
  <2>1. PICK x, y \in 0 .. Len(coll) : x = Past(at, Waiting, p) /\ y = Past(at, Waiting, s)
    BY <1>5
  <2>2. \A k \in x + 1 .. y : ~ World(coll, i, k)
    BY <1>2, <1>4, <2>1
  <2>3. T[x] = T[y]
    BY <1>1, <1>7, <2>1, <2>2 DEF Ledger, Trail
  <2> QED
    BY <1>6, <2>1, <2>3
<1>8. Globals(i)[r] = Globals(i)[q]
  BY <1>5, <1>7
<1>9. ASSUME NEW p \in Ranks, NEW d \in Indexed(p, i) PROVE Globals(i)[p] = bbs[p][d].global
  <2>1. d \in store[p] /\ bbs[p][d].ino = i /\ Sole(store[p], bbs[p])
    BY DEF Indexed, StoreInv, IInv, OneIndex, IndexOfRank, Sole
  <2>2. Entries(store[p], bbs[p], bbs[p][d].ino) = bbs[p][d]
    BY <2>1, OneEntry
  <2> QED
    BY <2>1, <2>2 DEF Globals
<1> QED
  BY <1>8, <1>9

\* Ranks that exchanged their trees in different groups agree on a file when
\* nobody has anything more to exchange (bb.hpp:116-167, 214-233): for any
\* ranks, any communicators in any order, and any number of calls.
THEOREM NothingLeftBehindAlways == FairSpec => []NothingLeftBehind
<1>1. Init => StoreInv /\ LedgerInv
  BY InitIInv, InitCalls, InitFiles, InitBalance DEF StoreInv
<1> QED
  BY <1>1, StepStoreInv, LedgerStep, NothingIsLeft, PTL DEF FairSpec

=============================================================================
