---------------------------- MODULE UtilitiesProofs ----------------------------
(***************************************************************************)
(* The parts that serve the burst buffer, for every size of them.          *)
(***************************************************************************)
EXTENDS SenseBarrier, ThreadLocal, Handles, Runtime, DeferredFile, WholeFile,
        SparseExtent, Encoding, Archive, Clocks, FiniteSetTheorems, WellFoundedInduction, TLAPS

LEMMA LeastNumber ==
    ASSUME NEW S \in SUBSET Nat, S # {}
    PROVE  \E n \in S : \A m \in S : n <= m
<1>1. PICK n \in S : \A m \in S : ~ (<<m, n>> \in OpToRel(<, Nat))
  BY NatLessThanWellFounded, WFMin
<1>2. ASSUME NEW m \in S PROVE n <= m
  <2>1. <<m, n>> \in Nat \X Nat /\ <<m, n>>[1] = m /\ <<m, n>>[2] = n
    OBVIOUS
  <2> QED
    BY <1>1, <2>1 DEF OpToRel
<1> QED
  BY <1>2

-----------------------------------------------------------------------------
(* The sense-reversing barrier implements the rendezvous, for any finite   *)
(* set of threads.  TypeOK and RoundsAgree together are inductive.         *)

BarrierInv == TypeOK /\ RoundsAgree

\* Some thread is setting up the next round.
Closing == \E t \in Threads : pc[t] \in {"reset", "publish"}

LEMMA ThreadsCounted == nthreads \in Nat \ {0}
<1>1. IsFiniteSet(Threads) /\ Threads # {}
  BY SenseBarrierAssumption
<1>2. Cardinality(Threads) \in Nat
  BY <1>1, FS_CardinalityType
<1>3. Cardinality(Threads) # 0
  BY <1>1, FS_EmptySet
<1> QED
  BY <1>2, <1>3 DEF nthreads

LEMMA CountedFinite ==
    /\ Counted \subseteq Threads
    /\ IsFiniteSet(Counted)
    /\ Cardinality(Counted) \in Nat
    /\ Cardinality(Counted) <= nthreads
    /\ Cardinality(Counted) = nthreads => Counted = Threads
<1>1. Counted \subseteq Threads
  BY DEF Counted
<1>2. IsFiniteSet(Threads)
  BY SenseBarrierAssumption
<1>3. /\ IsFiniteSet(Counted)
      /\ Cardinality(Counted) <= Cardinality(Threads)
      /\ Cardinality(Counted) = Cardinality(Threads) => Counted = Threads
  BY <1>1, <1>2, FS_Subset
<1> QED
  BY <1>1, <1>3, FS_CardinalityType DEF nthreads

LEMMA InitBarrierInv == Init => BarrierInv
<1> SUFFICES ASSUME Init PROVE BarrierInv
  OBVIOUS
<1>1. Counted = {}
  BY DEF Init, Counted
<1>2. Cardinality(Counted) = 0
  BY <1>1, FS_EmptySet
<1>3. TypeOK
  BY ThreadsCounted DEF Init, TypeOK
<1>4. RoundsAgree
  BY <1>1, <1>2, ThreadsCounted DEF Init, RoundsAgree
<1> QED
  BY <1>3, <1>4 DEF BarrierInv

\* A thread that is not part of the count cannot be in wait() while another
\* closes the round.
LEMMA NobodyElse ==
    ASSUME BarrierInv, NEW t \in Threads, t \notin Counted
    PROVE  ~ Closing
  BY DEF BarrierInv, RoundsAgree, Closing

LEMMA CallInv ==
    ASSUME BarrierInv, NEW t \in Threads, Call(t)
    PROVE  BarrierInv'
<1>1. TypeOK'
  BY DEF BarrierInv, TypeOK, Call
<1>2. t \notin Counted /\ ~ Closing
  <2>1. t \notin Counted
    BY DEF Call, Counted
  <2> QED
    BY <2>1, NobodyElse
<1>3. Counted' = Counted
  BY DEF BarrierInv, TypeOK, Call, Counted
<1>4. \A u \in Threads : pc'[u] \notin {"reset", "publish"}
  BY <1>2 DEF BarrierInv, TypeOK, Call, Closing
<1>5. \A u \in Threads :
        /\ pc'[u] = "away" => tl_sense'[u] # sense'
        /\ pc'[u] \in {"sub", "reset", "publish"} => my_sense'[u] # sense'
        /\ pc'[u] # "away" => tl_sense'[u] # my_sense'[u]
  BY DEF BarrierInv, TypeOK, RoundsAgree, Call
<1>6. waits' = nthreads - Cardinality(Counted') /\ waits' > 0
  BY <1>2, <1>3 DEF BarrierInv, RoundsAgree, Call, Closing
<1> QED
  BY <1>1, <1>4, <1>5, <1>6 DEF BarrierInv, RoundsAgree, nthreads

LEMMA FetchSubInv ==
    ASSUME BarrierInv, NEW t \in Threads, FetchSub(t)
    PROVE  BarrierInv'
<1>1. t \notin Counted /\ my_sense[t] # sense
  BY DEF FetchSub, Counted, BarrierInv, RoundsAgree
<1>2. ~ Closing
  BY <1>1, NobodyElse
<1>3. waits = nthreads - Cardinality(Counted) /\ waits > 0
  BY <1>2 DEF BarrierInv, RoundsAgree, Closing
<1>4. TypeOK'
  BY <1>3, ThreadsCounted DEF BarrierInv, TypeOK, FetchSub
<1>5. Counted' = Counted \cup {t}
  BY <1>1 DEF BarrierInv, TypeOK, FetchSub, Counted
<1>6. Cardinality(Counted') = Cardinality(Counted) + 1
  BY <1>1, <1>5, CountedFinite, FS_AddElement
<1>7. waits' = nthreads - Cardinality(Counted')
  BY <1>3, <1>6, CountedFinite, ThreadsCounted DEF FetchSub
<1>8. \A u \in Threads :
        /\ pc'[u] = "away" => tl_sense'[u] # sense'
        /\ pc'[u] \in {"sub", "reset", "publish"} => my_sense'[u] # sense'
        /\ pc'[u] # "away" => tl_sense'[u] # my_sense'[u]
  BY <1>1 DEF BarrierInv, TypeOK, RoundsAgree, FetchSub
<1>9. CASE waits = 1
  <2>1. Cardinality(Counted') = nthreads /\ waits' = 0
    BY <1>7, <1>9, CountedFinite, ThreadsCounted, <1>6 DEF FetchSub
  <2>2. Counted' = Threads
    <3>1. Counted' \subseteq Threads
      BY DEF Counted
    <3> QED
      BY <3>1, <2>1, SenseBarrierAssumption, FS_Subset DEF nthreads
  <2>3. pc'[t] = "reset" /\ \A u \in Threads \ {t} : pc'[u] = pc[u]
    BY <1>9 DEF BarrierInv, TypeOK, FetchSub
  <2>4. \A u \in Threads \ {t} : pc'[u] = "spin"
    <3>1. \A u \in Threads \ {t} : u \in Counted
      BY <2>2, <1>5
    <3> QED
      BY <3>1, <2>3, <1>2 DEF Counted, Closing
  <2>5. \A u \in Threads :
          pc'[u] \in {"reset", "publish"} =>
              /\ Counted' = Threads
              /\ \A v \in Threads \ {u} : pc'[v] = "spin"
              /\ waits' = IF pc'[u] = "reset" THEN 0 ELSE nthreads
    BY <2>1, <2>2, <2>3, <2>4
  <2> QED
    BY <1>4, <1>8, <2>3, <2>5 DEF BarrierInv, RoundsAgree, nthreads
<1>10. CASE waits # 1
  <2>1. \A u \in Threads : pc'[u] \notin {"reset", "publish"}
    BY <1>2, <1>10 DEF BarrierInv, TypeOK, FetchSub, Closing
  <2>2. waits' > 0
    BY <1>3, <1>10 DEF BarrierInv, TypeOK, FetchSub, nthreads
  <2> QED
    BY <1>4, <1>7, <1>8, <2>1, <2>2 DEF BarrierInv, RoundsAgree, nthreads
<1> QED
  BY <1>9, <1>10

LEMMA ResetInv ==
    ASSUME BarrierInv, NEW t \in Threads, Reset(t)
    PROVE  BarrierInv'
<1>1. /\ Counted = Threads
      /\ \A u \in Threads \ {t} : pc[u] = "spin"
  BY DEF BarrierInv, RoundsAgree, Reset
<1>2. TypeOK'
  BY ThreadsCounted DEF BarrierInv, TypeOK, Reset
<1>3. Counted' = Counted
  BY DEF BarrierInv, TypeOK, Reset, Counted
<1>4. pc'[t] = "publish" /\ \A u \in Threads \ {t} : pc'[u] = "spin"
  BY <1>1 DEF BarrierInv, TypeOK, Reset
<1>5. \A u \in Threads :
        /\ pc'[u] = "away" => tl_sense'[u] # sense'
        /\ pc'[u] \in {"sub", "reset", "publish"} => my_sense'[u] # sense'
        /\ pc'[u] # "away" => tl_sense'[u] # my_sense'[u]
  BY DEF BarrierInv, TypeOK, RoundsAgree, Reset
<1>6. waits' = nthreads
  BY DEF Reset
<1> QED
  BY <1>1, <1>2, <1>3, <1>4, <1>5, <1>6 DEF BarrierInv, RoundsAgree, nthreads

LEMMA PublishInv ==
    ASSUME BarrierInv, NEW t \in Threads, Publish(t)
    PROVE  BarrierInv'
<1>1. /\ Counted = Threads
      /\ \A u \in Threads \ {t} : pc[u] = "spin"
      /\ waits = nthreads
  BY DEF BarrierInv, RoundsAgree, Publish
<1>2. TypeOK'
  BY DEF BarrierInv, TypeOK, Publish
<1>3. \A u \in Threads : my_sense'[u] = sense'
  BY <1>1 DEF BarrierInv, TypeOK, Publish, Counted
<1>4. Counted' = {} /\ Cardinality(Counted') = 0
  <2>1. Counted' = {}
    BY <1>3 DEF Counted
  <2> QED
    BY <2>1, FS_EmptySet
<1>5. pc'[t] = "away" /\ \A u \in Threads \ {t} : pc'[u] = "spin"
  BY <1>1 DEF BarrierInv, TypeOK, Publish
<1>6. \A u \in Threads : tl_sense'[u] # my_sense'[u]
  BY <1>1 DEF BarrierInv, RoundsAgree, Publish
<1>7. waits' = nthreads - Cardinality(Counted') /\ waits' > 0
  BY <1>1, <1>4, ThreadsCounted DEF Publish
<1> QED
  BY <1>2, <1>3, <1>5, <1>6, <1>7 DEF BarrierInv, RoundsAgree, nthreads

LEMMA SpinEndsInv ==
    ASSUME BarrierInv, NEW t \in Threads, SpinEnds(t)
    PROVE  BarrierInv'
<1>1. t \notin Counted
  BY DEF SpinEnds, Counted
<1>2. ~ Closing
  BY <1>1, NobodyElse
<1>3. TypeOK'
  BY DEF BarrierInv, TypeOK, SpinEnds
<1>4. Counted' = Counted
  BY <1>1 DEF BarrierInv, TypeOK, SpinEnds, Counted
<1>5. \A u \in Threads : pc'[u] \notin {"reset", "publish"}
  BY <1>2 DEF BarrierInv, TypeOK, SpinEnds, Closing
<1>6. \A u \in Threads :
        /\ pc'[u] = "away" => tl_sense'[u] # sense'
        /\ pc'[u] \in {"sub", "reset", "publish"} => my_sense'[u] # sense'
        /\ pc'[u] # "away" => tl_sense'[u] # my_sense'[u]
  BY DEF BarrierInv, TypeOK, RoundsAgree, SpinEnds
<1>7. waits' = nthreads - Cardinality(Counted') /\ waits' > 0
  BY <1>2, <1>4 DEF BarrierInv, RoundsAgree, SpinEnds, Closing
<1> QED
  BY <1>3, <1>5, <1>6, <1>7 DEF BarrierInv, RoundsAgree, nthreads

LEMMA StepBarrierInv == BarrierInv /\ [Next]_vars => BarrierInv'
<1> SUFFICES ASSUME BarrierInv, [Next]_vars PROVE BarrierInv'
  OBVIOUS
<1>1. CASE UNCHANGED vars
  BY <1>1 DEF vars, BarrierInv, TypeOK, RoundsAgree, Counted
<1>2. CASE Next
  BY <1>2, CallInv, FetchSubInv, ResetInv, PublishInv, SpinEndsInv DEF Next, Wait
<1> QED
  BY <1>1, <1>2

\* Counter and senses agree in every state (sense_barrier.hpp:19-30).
THEOREM RoundsAlwaysAgree == Spec => []RoundsAgree
<1>1. BarrierInv => RoundsAgree
  BY DEF BarrierInv
<1> QED
  BY <1>1, InitBarrierInv, StepBarrierInv, PTL DEF Spec

-----------------------------------------------------------------------------
(* The rendezvous. *)

\* Steps inside wait() before the sense changes are not seen.
LEMMA InnerStep ==
    ASSUME BarrierInv, NEW t \in Threads, FetchSub(t) \/ Reset(t)
    PROVE  UNCHANGED where
<1>1. \A u \in Threads : At(u)' = At(u)
  BY DEF BarrierInv, TypeOK, RoundsAgree, FetchSub, Reset, At
<1> QED
  BY <1>1 DEF where

LEMMA CallComes ==
    ASSUME BarrierInv, NEW t \in Threads, Call(t)
    PROVE  Barrier!Come(t)
<1>1. At(t) = "away"
  BY DEF Call, At
<1>2. At(t)' = "waiting"
  BY DEF BarrierInv, TypeOK, RoundsAgree, Call, At
<1>3. \A u \in Threads \ {t} : At(u)' = At(u)
  BY DEF BarrierInv, TypeOK, Call, At
<1> QED
  BY <1>1, <1>2, <1>3 DEF Barrier!Come, where

\* The store of the sense lets all the others go.
LEMMA PublishOpens ==
    ASSUME BarrierInv, NEW t \in Threads, Publish(t)
    PROVE  Barrier!Open(t)
<1>1. /\ Counted = Threads
      /\ \A u \in Threads \ {t} : pc[u] = "spin"
  BY DEF BarrierInv, RoundsAgree, Publish
<1>2. \A u \in Threads : At(u) = "waiting"
  BY <1>1 DEF Counted, At
<1>3. \A u \in Threads : At(u)' = IF u = t THEN "away" ELSE "free"
  BY <1>1 DEF BarrierInv, TypeOK, Publish, Counted, At
<1> QED
  BY <1>2, <1>3 DEF Barrier!Open, where

LEMMA SpinEndsGoes ==
    ASSUME BarrierInv, NEW t \in Threads, SpinEnds(t)
    PROVE  Barrier!Go(t)
<1>1. At(t) = "free" /\ At(t)' = "away"
  BY DEF BarrierInv, TypeOK, SpinEnds, At
<1>2. \A u \in Threads \ {t} : At(u)' = At(u)
  BY DEF BarrierInv, TypeOK, SpinEnds, At
<1> QED
  BY <1>1, <1>2 DEF Barrier!Go, where

LEMMA StepImplements == BarrierInv /\ [Next]_vars => [Barrier!Next]_where
<1> SUFFICES ASSUME BarrierInv, [Next]_vars PROVE [Barrier!Next]_where
  OBVIOUS
<1>1. CASE UNCHANGED vars
  BY <1>1 DEF vars, where, At
<1>2. ASSUME NEW t \in Threads, Call(t) \/ Wait(t) PROVE [Barrier!Next]_where
  <2>1. CASE Call(t)
    BY <2>1, CallComes DEF Barrier!Next
  <2>2. CASE FetchSub(t) \/ Reset(t)
    BY <2>2, InnerStep
  <2>3. CASE Publish(t)
    BY <2>3, PublishOpens DEF Barrier!Next
  <2>4. CASE SpinEnds(t)
    BY <2>4, SpinEndsGoes DEF Barrier!Next
  <2> QED
    BY <1>2, <2>1, <2>2, <2>3, <2>4 DEF Wait
<1> QED
  BY <1>1, <1>2 DEF Next

\* No thread leaves a round of the barrier before all have come to it
\* (sense_barrier.hpp:19-30).
THEOREM BarrierRefinement == Spec => ImplementsRendezvous
<1>1. Init => Barrier!Init
  BY DEF Init, Barrier!Init, where, At
<1> QED
  BY <1>1, InitBarrierInv, StepBarrierInv, StepImplements, PTL
     DEF Spec, ImplementsRendezvous, Barrier!Spec

-----------------------------------------------------------------------------
(* However many objects and handles there are, each handle that was made   *)
(* has one owner, an object or the program.  HandlesOwned is inductive     *)
(* together with the types and the classes that never borrow; the proof    *)
(* goes by what an action does to the owners: none changes, a new one      *)
(* comes, one goes, or one hands over to another.                          *)

HolderStates == [native : Handles \cup {Null, Predefined}, deletes : BOOLEAN, absent : BOOLEAN]

HandlesTypes ==
    /\ holder \in [Holders -> HolderStates]
    /\ alive \subseteq Handles \cup {Predefined} /\ raw \subseteq Handles

HandlesInv == HandlesTypes /\ HandlesOwned

\* HolderStates of the other classes never borrow.
LentToSome ==
    class \notin Borrowing =>
        \A h \in Holders : holder[h].native # Null => holder[h].deletes = TRUE

-----------------------------------------------------------------------------

LEMMA HandlesApart == Null \notin Handles /\ Predefined \notin Handles /\ Null # Predefined
  BY HandlesAssumption DEF Handles, Null, Predefined

LEMMA HoldingIsObject ==
    ASSUME NEW n \in Handles \cup {Null, Predefined}, NEW d \in BOOLEAN
    PROVE  /\ Holding(n, d) \in HolderStates /\ Absent \in HolderStates
           /\ Holding(n, d).native = n /\ Holding(n, d).deletes = d
           /\ Absent.native = Null
  BY DEF Holding, HolderStates, Absent

LEMMA InitHandlesInv == HandlesInit => HandlesInv
  BY HandlesApart, HandlesAssumption
     DEF HandlesInit, HandlesInv, HandlesTypes, HandlesOwned, Owns, HolderStates, Absent

\* An object that owns nothing in the place of one that owned nothing.
LEMMA NothingOwned ==
    ASSUME HandlesInv, NEW h \in Holders, NEW o \in HolderStates,
           holder[h].native = Null, o.native = Null \/ ~ o.deletes,
           holder' = [holder EXCEPT ![h] = o], alive' = alive, raw' = raw
    PROVE  HandlesInv'
<1>1. HandlesTypes'
  BY DEF HandlesInv, HandlesTypes
<1>2. holder'[h] = o /\ \A g \in Holders : g # h => holder'[g] = holder[g]
  BY DEF HandlesInv, HandlesTypes
<1>3. \A g \in Holders, n \in Handles \cup {Predefined} : Owns(g, n)' <=> Owns(g, n)
  BY <1>2, HandlesApart DEF Owns
<1> QED
  BY <1>1, <1>3 DEF HandlesInv, HandlesOwned

\* A handle is made for an object.
LEMMA OneMade ==
    ASSUME HandlesInv, NEW h \in Holders, holder[h] = Absent, Made(h)
    PROVE  HandlesInv'
<1>1. PICK n \in Handles \ alive :
           /\ alive' = alive \cup {n} /\ raw' = raw
           /\ holder' = [holder EXCEPT ![h] = Holding(n, TRUE)]
  BY DEF Made
<1>2. HandlesTypes'
  BY <1>1, HoldingIsObject DEF HandlesInv, HandlesTypes
<1>3. holder'[h] = Holding(n, TRUE) /\ \A g \in Holders : g # h => holder'[g] = holder[g]
  BY <1>1 DEF HandlesInv, HandlesTypes
<1>4. \A g \in Holders, m \in Handles \cup {Predefined} :
          Owns(g, m)' <=> Owns(g, m) \/ (g = h /\ m = n)
  <2>1. holder'[h].native = n /\ holder'[h].deletes = TRUE /\ holder[h].native = Null
    BY <1>3, HoldingIsObject
  <2> QED
    BY <1>3, <2>1, HandlesApart DEF Owns
<1>5. n \notin raw /\ \A g \in Holders : ~ Owns(g, n)
  BY DEF HandlesInv, HandlesOwned
<1> QED
  BY <1>1, <1>2, <1>4, <1>5, HandlesApart DEF HandlesInv, HandlesOwned

\* An object at h takes over a handle that the program held, or none.
LEMMA OneAdopted ==
    ASSUME HandlesInv, NEW h \in Holders, holder[h] = Absent, NEW n \in raw \cup {Null},
           holder' = [holder EXCEPT ![h] = Holding(n, TRUE)], raw' = raw \ {n}, alive' = alive
    PROVE  HandlesInv'
<1>1. n \in Handles \cup {Null, Predefined}
  BY DEF HandlesInv, HandlesTypes
<1>2. HandlesTypes'
  BY <1>1, HoldingIsObject DEF HandlesInv, HandlesTypes
<1>3. holder'[h] = Holding(n, TRUE) /\ \A g \in Holders : g # h => holder'[g] = holder[g]
  BY DEF HandlesInv, HandlesTypes
<1>4. \A g \in Holders, m \in Handles \cup {Predefined} :
          Owns(g, m)' <=> Owns(g, m) \/ (g = h /\ m = n)
  <2>1. holder'[h].native = n /\ holder'[h].deletes = TRUE /\ holder[h].native = Null
    BY <1>1, <1>3, HoldingIsObject
  <2> QED
    BY <1>3, <2>1, HandlesApart DEF Owns
<1>5. n \in raw => n \in Handles /\ n \in alive /\ \A g \in Holders : ~ Owns(g, n)
  BY DEF HandlesInv, HandlesOwned, HandlesTypes
<1> QED
  BY <1>2, <1>4, <1>5, HandlesApart DEF HandlesInv, HandlesOwned

\* The program takes the handle out of the object at h, which would free it.
LEMMA OneReleased ==
    ASSUME HandlesInv, NEW h \in Holders, NEW o \in HolderStates, o.native = Null,
           holder[h].native # Null => holder[h].native \in Handles /\ Owns(h, holder[h].native),
           holder' = [holder EXCEPT ![h] = o],
           raw' = raw \cup ({holder[h].native} \ {Null}), alive' = alive
    PROVE  HandlesInv'
<1>1. HandlesTypes'
  BY DEF HandlesInv, HandlesTypes
<1>2. holder'[h] = o /\ \A g \in Holders : g # h => holder'[g] = holder[g]
  BY DEF HandlesInv, HandlesTypes
<1>3. \A g \in Holders, m \in Handles \cup {Predefined} : Owns(g, m)' <=> Owns(g, m) /\ g # h
  BY <1>2, HandlesApart DEF Owns
<1>4. \A m \in Handles \cup {Predefined} : m \in raw' <=> m \in raw \/ Owns(h, m)
  BY HandlesApart DEF Owns
<1> QED
  BY <1>1, <1>3, <1>4, HandlesApart DEF HandlesInv, HandlesOwned

\* The object at h gives up what it holds, and it is freed.
LEMMA OneFreed ==
    ASSUME HandlesInv, NEW h \in Holders, NEW o \in HolderStates, o.native = Null,
           holder' = [holder EXCEPT ![h] = o], alive' = alive \ Freed(holder[h]), raw' = raw
    PROVE  HandlesInv'
<1>1. HandlesTypes'
  BY DEF HandlesInv, HandlesTypes
<1>2. holder'[h] = o /\ \A g \in Holders : g # h => holder'[g] = holder[g]
  BY DEF HandlesInv, HandlesTypes
<1>3. \A g \in Holders, m \in Handles \cup {Predefined} : Owns(g, m)' <=> Owns(g, m) /\ g # h
  BY <1>2, HandlesApart DEF Owns
<1>4. \A m \in Handles \cup {Predefined} : m \in Freed(holder[h]) <=> Owns(h, m)
  BY HandlesApart DEF Freed, Owns
<1> QED
  BY <1>1, <1>3, <1>4 DEF HandlesInv, HandlesOwned

\* The object at h gives what it holds to the one at g, and what that held is
\* freed.
LEMMA OneMoved ==
    ASSUME HandlesInv, NEW h \in Holders, NEW g \in Holders, h # g, NEW o \in HolderStates,
           o.native = holder[h].native,
           o.native # Null => o.deletes = holder[h].deletes,
           holder' = [holder EXCEPT ![g] = o, ![h].native = Null],
           alive' = alive \ Freed(holder[g]), raw' = raw
    PROVE  HandlesInv'
<1>1. holder[h] \in HolderStates
  BY DEF HandlesInv, HandlesTypes
<1>2. HandlesTypes'
  BY <1>1 DEF HandlesInv, HandlesTypes, HolderStates
<1>3. /\ holder'[g] = o /\ holder'[h] = [holder[h] EXCEPT !.native = Null]
      /\ \A x \in Holders : x # h /\ x # g => holder'[x] = holder[x]
  BY DEF HandlesInv, HandlesTypes
<1>4. holder'[h].native = Null
  BY <1>1, <1>3 DEF HolderStates
<1>5. \A x \in Holders, m \in Handles \cup {Predefined} :
          Owns(x, m)' <=> (x = g /\ Owns(h, m)) \/ (x # g /\ x # h /\ Owns(x, m))
  <2> TAKE x \in Holders, m \in Handles \cup {Predefined}
  <2>1. m # Null
    BY HandlesApart
  <2>2. CASE x = g
    <3>1. Owns(g, m)' <=> o.native = m /\ o.deletes
      BY <1>3 DEF Owns
    <3>2. Owns(h, m) <=> o.native = m /\ o.deletes
      BY <2>1 DEF Owns
    <3> QED
      BY <2>2, <3>1, <3>2
  <2>3. CASE x = h
    BY <1>4, <2>1, <2>3 DEF Owns
  <2>4. CASE x # g /\ x # h
    BY <1>3, <2>4 DEF Owns
  <2> QED
    BY <2>2, <2>3, <2>4
<1>6. \A m \in Handles \cup {Predefined} : m \in Freed(holder[g]) <=> Owns(g, m)
  BY HandlesApart DEF Freed, Owns
<1> QED
  BY <1>2, <1>5, <1>6 DEF HandlesInv, HandlesOwned

-----------------------------------------------------------------------------

LEMMA StepLent == HandlesInv /\ LentToSome /\ [HandlesNext]_handlesVars => LentToSome'
<1> SUFFICES ASSUME HandlesInv, LentToSome, class \notin Borrowing, [HandlesNext]_handlesVars
             PROVE  LentToSome'
  BY DEF LentToSome, HandlesNext, handlesVars, DefaultConstruct, Borrow, SplitComm, SubGroup,
         DerivedDtype, NewInfo, NewWindow, NewPmem2, OpenFd, OpenFile, DestroyHolder,
         MoveConstruct, MoveAssign, SwapAssign, Adopt, Release, ObtainRaw, FreeRaw, Made
<1> USE DEF LentToSome
<1>1. holder \in [Holders -> HolderStates] /\ \A h \in Holders : holder[h] \in HolderStates
  BY DEF HandlesInv, HandlesTypes
<1>2. Absent.native = Null
  BY HoldingIsObject
<1>3. ASSUME NEW h \in Holders, NEW n, holder' = [holder EXCEPT ![h] = Holding(n, TRUE)]
      PROVE  LentToSome'
  BY <1>1, <1>3 DEF Holding
<1>4. ASSUME NEW h \in Holders, DefaultConstruct(h) PROVE LentToSome'
  BY <1>3, <1>4 DEF DefaultConstruct
<1>5. ASSUME NEW h \in Holders, Borrow(h) PROVE LentToSome'
  BY <1>5 DEF Borrow, Constructs
<1>6. ASSUME NEW h \in Holders, Made(h) PROVE LentToSome'
  BY <1>3, <1>6 DEF Made
<1>7. ASSUME NEW h \in Holders, SplitComm(h) PROVE LentToSome'
  BY <1>3, <1>6, <1>7 DEF SplitComm
<1>8. ASSUME NEW h \in Holders, NewInfo(h) PROVE LentToSome'
  BY <1>6, <1>8 DEF NewInfo, handlesVars
<1>9. ASSUME NEW h \in Holders, DestroyHolder(h) PROVE LentToSome'
  BY <1>1, <1>2, <1>9 DEF DestroyHolder
<1>10. ASSUME NEW h \in Holders, NEW g \in Holders, h # g,
              holder' = [holder EXCEPT ![g] = holder[h], ![h].native = Null]
       PROVE  LentToSome'
  BY <1>1, <1>10 DEF HolderStates
<1>11. ASSUME NEW h \in Holders, NEW g \in Holders, MoveConstruct(h, g) \/ MoveAssign(h, g)
       PROVE  LentToSome'
  BY <1>10, <1>11 DEF MoveConstruct, MoveAssign
<1>12. ASSUME NEW h \in Holders, NEW g \in Holders, SwapAssign(h, g) PROVE LentToSome'
  BY <1>1, <1>12 DEF SwapAssign, HolderStates
<1>13. ASSUME NEW h \in Holders, Adopt(h) PROVE LentToSome'
  BY <1>3, <1>13 DEF Adopt
<1>14. ASSUME NEW h \in Holders, Release(h) PROVE LentToSome'
  BY <1>1, <1>14 DEF Release, HolderStates
<1>15. CASE ObtainRaw \/ FreeRaw
  BY <1>1, <1>15 DEF ObtainRaw, FreeRaw
<1> QED
  BY <1>4, <1>5, <1>6, <1>7, <1>8, <1>9, <1>11, <1>12, <1>13, <1>14, <1>15
     DEF HandlesNext, handlesVars, SubGroup, DerivedDtype, NewWindow, NewPmem2, OpenFd, OpenFile

LEMMA StepHandlesInv == HandlesInv /\ LentToSome /\ [HandlesNext]_handlesVars => HandlesInv'
<1> SUFFICES ASSUME HandlesInv, LentToSome, [HandlesNext]_handlesVars PROVE HandlesInv'
  OBVIOUS
<1>0. Absent.native = Null /\ Absent \in HolderStates /\ Predefined \in Handles \cup {Null, Predefined}
  BY HoldingIsObject
<1>1. ASSUME NEW h \in Holders, DefaultConstruct(h) PROVE HandlesInv'
  <2>1. holder[h].native = Null /\ Holding(Null, TRUE).native = Null /\ Holding(Null, TRUE) \in HolderStates
    BY <1>0, <1>1, HoldingIsObject DEF DefaultConstruct, Constructs
  <2> QED
    BY <1>1, <2>1, NothingOwned DEF DefaultConstruct
<1>2. ASSUME NEW h \in Holders, Borrow(h) PROVE HandlesInv'
  <2>1. PICK n \in alive : holder' = [holder EXCEPT ![h] = Holding(n, FALSE)]
    BY <1>2 DEF Borrow
  <2>2. n \in Handles \cup {Null, Predefined}
    BY DEF HandlesInv, HandlesTypes
  <2>3. holder[h].native = Null /\ ~ Holding(n, FALSE).deletes /\ Holding(n, FALSE) \in HolderStates
    BY <1>0, <1>2, <2>2, HoldingIsObject DEF Borrow, Constructs
  <2> QED
    BY <1>2, <2>1, <2>3, NothingOwned DEF Borrow
<1>3. ASSUME NEW h \in Holders, SplitComm(h) PROVE HandlesInv'
  <2>1. CASE Made(h)
    BY <1>3, <2>1, OneMade DEF SplitComm, Constructs
  <2>2. CASE holder' = [holder EXCEPT ![h] = Holding(Null, TRUE)] /\ UNCHANGED <<class, alive, raw>>
    <3>1. holder[h].native = Null /\ Holding(Null, TRUE).native = Null /\ Holding(Null, TRUE) \in HolderStates
      BY <1>0, <1>3, HoldingIsObject DEF SplitComm, Constructs
    <3> QED
      BY <2>2, <3>1, NothingOwned
  <2> QED
    BY <1>3, <2>1, <2>2 DEF SplitComm
<1>4. ASSUME NEW h \in Holders,
             SubGroup(h) \/ DerivedDtype(h) \/ NewWindow(h) \/ NewPmem2(h) \/ OpenFd(h) \/ OpenFile(h)
      PROVE  HandlesInv'
  BY <1>4, OneMade DEF SubGroup, DerivedDtype, NewWindow, NewPmem2, OpenFd, OpenFile, Constructs
<1>5. ASSUME NEW h \in Holders, NewInfo(h) PROVE HandlesInv'
  <2>1. CASE Made(h)
    BY <1>5, <2>1, OneMade DEF NewInfo, Constructs
  <2>2. CASE UNCHANGED handlesVars
    BY <2>2 DEF handlesVars, HandlesInv, HandlesTypes, HandlesOwned, Owns
  <2> QED
    BY <1>5, <2>1, <2>2 DEF NewInfo
<1>6. ASSUME NEW h \in Holders, DestroyHolder(h) PROVE HandlesInv'
  BY <1>0, <1>6, OneFreed DEF DestroyHolder
<1>7. ASSUME NEW h \in Holders, NEW g \in Holders, MoveConstruct(h, g) PROVE HandlesInv'
  <2>1. holder[h] \in HolderStates /\ holder[g].native = Null
    BY <1>0, <1>7 DEF MoveConstruct, HandlesInv, HandlesTypes
  <2>2. alive' = alive \ Freed(holder[g])
    BY <1>7, <2>1 DEF MoveConstruct, Freed
  <2> QED
    BY <1>7, <2>1, <2>2, OneMoved DEF MoveConstruct
<1>8. ASSUME NEW h \in Holders, NEW g \in Holders, MoveAssign(h, g) PROVE HandlesInv'
  <2>1. holder[h] \in HolderStates
    BY DEF HandlesInv, HandlesTypes
  <2> QED
    BY <1>8, <2>1, OneMoved DEF MoveAssign
<1>9. ASSUME NEW h \in Holders, NEW g \in Holders, SwapAssign(h, g) PROVE HandlesInv'
  <2> DEFINE released == [holder EXCEPT ![h].native = Null]
  <2>1. holder[h] \in HolderStates /\ holder[g] \in HolderStates /\ holder \in [Holders -> HolderStates]
    BY DEF HandlesInv, HandlesTypes
  <2>2. CASE h = g
    <3>1. released[g].native = Null
      BY <2>1, <2>2 DEF HolderStates
    <3>2. alive' = alive /\ raw' = raw
      BY <1>9, <3>1 DEF SwapAssign, Freed
    <3>3. holder' = holder
      BY <1>9, <2>1, <2>2 DEF SwapAssign
    <3> QED
      BY <3>2, <3>3 DEF HandlesInv, HandlesTypes, HandlesOwned, Owns
  <2>3. CASE h # g
    <3>1. released[g] = holder[g]
      BY <2>1, <2>3
    <3>2. holder' = [holder EXCEPT ![g] = holder[h], ![h].native = Null]
      BY <1>9, <2>1, <2>3 DEF SwapAssign
    <3> QED
      BY <1>9, <2>1, <2>3, <3>1, <3>2, OneMoved DEF SwapAssign
  <2> QED
    BY <2>2, <2>3
<1>10. ASSUME NEW h \in Holders, Release(h) PROVE HandlesInv'
  <2> DEFINE o == [holder[h] EXCEPT !.native = Null]
  <2>1. holder[h] \in HolderStates
    BY DEF HandlesInv, HandlesTypes
  <2>2. o \in HolderStates /\ o.native = Null
    BY <2>1 DEF HolderStates
  <2>3. holder' = [holder EXCEPT ![h] = o]
    BY <1>10, <2>1 DEF Release, HandlesInv, HandlesTypes
  <2>4. raw' = raw \cup ({holder[h].native} \ {Null}) /\ alive' = alive
    BY <1>10 DEF Release
  <2>5. holder[h].native # Null => Owns(h, holder[h].native)
    BY <1>10 DEF Release, LentToSome, Borrowing, Owns
  <2>6. holder[h].native # Null => holder[h].native \in Handles
    BY <2>1, <2>5 DEF HolderStates, HandlesInv, HandlesOwned
  <2> HIDE DEF o
  <2> QED
    BY <2>2, <2>3, <2>4, <2>5, <2>6, OneReleased
<1>12. ASSUME NEW h \in Holders, Adopt(h) PROVE HandlesInv'
  BY <1>12, OneAdopted DEF Adopt, Constructs
<1>13. CASE ObtainRaw
  <2>1. PICK n \in Handles \ alive : alive' = alive \cup {n} /\ raw' = raw \cup {n}
    BY <1>13 DEF ObtainRaw
  <2>2. holder' = holder
    BY <1>13 DEF ObtainRaw
  <2>3. \A h \in Holders : ~ Owns(h, n)
    BY <2>1 DEF HandlesInv, HandlesOwned
  <2> QED
    BY <2>1, <2>2, <2>3, HandlesApart DEF HandlesInv, HandlesTypes, HandlesOwned, Owns
<1>14. CASE FreeRaw
  <2>1. PICK n \in raw : alive' = alive \ {n} /\ raw' = raw \ {n}
    BY <1>14 DEF FreeRaw
  <2>2. holder' = holder
    BY <1>14 DEF FreeRaw
  <2>3. n \in Handles /\ \A h \in Holders : ~ Owns(h, n)
    BY <2>1 DEF HandlesInv, HandlesOwned, HandlesTypes
  <2> QED
    BY <2>1, <2>2, <2>3, HandlesApart DEF HandlesInv, HandlesTypes, HandlesOwned, Owns
<1>11. CASE UNCHANGED handlesVars
  BY <1>11 DEF handlesVars, HandlesInv, HandlesTypes, HandlesOwned, Owns
<1> QED
  BY <1>1, <1>2, <1>3, <1>4, <1>5, <1>6, <1>7, <1>8, <1>9, <1>10, <1>11,
     <1>12, <1>13, <1>14 DEF HandlesNext

\* A handle that was made has one owner, an object that frees it or the program,
\* and one that was borrowed has none (mpi/raii.hpp:64-73, utils/cond_deleter.hpp:18-22,
\* zpp/file.h:902-927), for any number of objects and handles.
THEOREM HandlesAlwaysOwned == HandlesSpec => []HandlesOwned
<1>1. HandlesInv => HandlesOwned
  BY DEF HandlesInv
<1>2. HandlesInit => LentToSome
  BY HoldingIsObject DEF HandlesInit, LentToSome
<1> QED
  BY <1>1, <1>2, InitHandlesInv, StepHandlesInv, StepLent, PTL DEF HandlesSpec

-----------------------------------------------------------------------------
(* A read of a file of any size, with any guess of its size, has all of it *)
(* and nothing else.                                                       *)

\* Every byte before the position that the read has come to is the file's.
ReadSoFar == bytesRead + inner.done

WholeTypes ==
    /\ \E n \in 0 .. MaxWhole : whole = Bytes(n)
    /\ from \in Nat /\ bytesRead \in Nat
    /\ inner \in [wanted : Nat, done : Nat] /\ inner.done <= inner.wanted
    /\ vector \in Seq(Int)
    /\ loop \in {"begin", "inner", "outer", "returned", "threw", "stuck"}
    /\ loop \notin {"inner", "threw"} => inner.done = 0

Filled == \A i \in 1 .. Len(vector) : i <= ReadSoFar => vector[i] = from + i

\* The vector is as large as the loop over it makes it.
Sized ==
    /\ loop = "begin" => bytesRead = 0 /\ vector = <<>>
    /\ loop = "inner" => Len(vector) = bytesRead + inner.wanted
    /\ loop \in {"inner", "outer"} =>
          \/ bytesRead = 0 /\ Len(vector) > 0
          \/ bytesRead > 0 /\ Len(vector) = NewSize(bytesRead)
    /\ loop = "returned" => Len(vector) = bytesRead
    /\ loop = "stuck" => bytesRead \in {1, 3}

\* While nobody changes the file the read does not come beyond its end.
NotBeyond ==
    ~ changed => \/ from + ReadSoFar <= Len(whole)
                 \/ from >= Len(whole) /\ ReadSoFar = 0

Complete ==
    loop = "returned" /\ ~ changed =>
        from + bytesRead = Len(whole) \/ (from >= Len(whole) /\ bytesRead = 0)

WholeInv == WholeTypes /\ Filled /\ Sized /\ NotBeyond /\ Complete

LEMMA ResizedIs ==
    ASSUME NEW v \in Seq(Int), NEW n \in Nat
    PROVE  /\ ResizedTo(v, n) \in Seq(Int) /\ Len(ResizedTo(v, n)) = n
           /\ \A i \in 1 .. n : i <= Len(v) => ResizedTo(v, n)[i] = v[i]
<1> DEFINE f == [i \in 1 .. n |-> IF i <= Len(v) THEN v[i] ELSE Garbage0]
<1>1. f \in [1 .. n -> Int]
  BY DEF Garbage0
<1>2. f \in Seq(Int)
  BY <1>1
<1>3. DOMAIN f = 1 .. n
  OBVIOUS
<1>4. Len(f) = n
  BY <1>2, <1>3
<1>5. \A i \in 1 .. n : i <= Len(v) => f[i] = v[i]
  OBVIOUS
<1> QED
  BY <1>2, <1>4, <1>5 DEF ResizedTo

LEMMA BytesAre ==
    ASSUME NEW n \in Nat
    PROVE  Len(Bytes(n)) = n /\ \A i \in 1 .. n : Bytes(n)[i] = i
<1> DEFINE f == [i \in 1 .. n |-> i]
<1>1. f \in [1 .. n -> Int]
  OBVIOUS
<1>2. f \in Seq(Int) /\ DOMAIN f = 1 .. n
  BY <1>1
<1>3. Len(f) = n
  BY <1>2
<1> QED
  BY <1>3 DEF Bytes

\* Only vectors of no byte and of three do not grow, and only one of one byte
\* shrinks.
LEMMA Growth ==
    ASSUME NEW n \in Nat
    PROVE  /\ NewSize(n) \in Nat
           /\ NewSize(n) < n => n = 1
           /\ NewSize(n) = n => n \in {0, 3}
<1>1. PICK h \in Nat : h = n \div 2 /\ (n = 2 * h \/ n = 2 * h + 1)
  OBVIOUS
<1> QED
  BY <1>1 DEF NewSize

LEMMA InitWholeInv == WholeInit => WholeInv
<1> SUFFICES ASSUME WholeInit PROVE WholeInv
  OBVIOUS
<1>1. /\ \E n \in 0 .. MaxWhole : whole = Bytes(n)
      /\ from \in 0 .. MaxWhole
      /\ loop = "begin" /\ vector = <<>> /\ bytesRead = 0
      /\ inner = [wanted |-> 0, done |-> 0] /\ changed = FALSE
  BY DEF WholeInit, NoInner
<1>2. from \in Nat /\ ReadSoFar = 0 /\ Len(vector) = 0 /\ vector \in Seq(Int)
  BY <1>1, WholeFileAssumption DEF ReadSoFar
<1>3. Len(whole) \in Nat
  BY <1>1, BytesAre, WholeFileAssumption
<1>4. WholeTypes
  BY <1>1, <1>2 DEF WholeTypes
<1>5. Filled /\ Sized /\ Complete
  BY <1>1, <1>2 DEF Filled, Sized, Complete
<1>6. NotBeyond
  BY <1>2, <1>3 DEF NotBeyond
<1> QED
  BY <1>4, <1>5, <1>6 DEF WholeInv

LEMMA BeginReadInv == ASSUME WholeInv, BeginRead PROVE WholeInv'
<1>1. /\ loop = "begin" /\ whole' = whole /\ from' = from /\ bytesRead' = bytesRead
      /\ inner' = inner /\ changed' = changed
  BY DEF BeginRead
<1>2. WholeTypes /\ bytesRead = 0 /\ inner.done = 0 /\ NotBeyond
  BY <1>1 DEF WholeInv, WholeTypes, Sized
<1>3. ReadSoFar = 0 /\ ReadSoFar' = 0
  BY <1>1, <1>2 DEF ReadSoFar
<1>4. PICK n \in Nat : whole = Bytes(n) /\ Len(whole) = n
  BY <1>2, BytesAre, WholeFileAssumption DEF WholeTypes
<1>5. NotBeyond'
  BY <1>1, <1>2, <1>3 DEF NotBeyond
<1>6. CASE whole # <<>> /\ from >= Len(whole)
  <2>1. loop' = "returned" /\ vector' = vector
    BY <1>6 DEF BeginRead
  <2>2. vector = <<>>
    BY <1>1 DEF WholeInv, Sized
  <2> QED
    BY <1>1, <1>2, <1>3, <1>5, <1>6, <2>1, <2>2 DEF WholeInv, WholeTypes, Filled, Sized, Complete
<1>7. CASE ~ (whole # <<>> /\ from >= Len(whole))
  <2>1. loop' = "outer" /\ vector' = ResizedTo(<<>>, SizeAtFirst)
    BY <1>7 DEF BeginRead
  <2>2. SizeAtFirst \in Nat /\ SizeAtFirst > 0
    BY <1>2, <1>4, <1>7, WholeFileAssumption DEF SizeAtFirst, WholeTypes
  <2>3. vector' \in Seq(Int) /\ Len(vector') = SizeAtFirst
    <3>1. <<>> \in Seq(Int)
      OBVIOUS
    <3> QED
      BY <2>1, <2>2, <3>1, ResizedIs
  <2>4. WholeTypes'
    BY <1>1, <1>2, <2>1, <2>3 DEF WholeTypes
  <2>5. Filled'
    <3>1. \A i \in 1 .. Len(vector') : ~ (i <= 0)
      BY <2>2, <2>3
    <3> QED
      BY <1>3, <3>1 DEF Filled
  <2>6. Sized' /\ Complete'
    BY <1>1, <1>2, <2>1, <2>2, <2>3 DEF Sized, Complete
  <2> QED
    BY <1>5, <2>4, <2>5, <2>6 DEF WholeInv
<1> QED
  BY <1>6, <1>7

LEMMA CallReadInv == ASSUME WholeInv, CallRead PROVE WholeInv'
<1>1. /\ loop = "outer" /\ whole' = whole /\ from' = from /\ bytesRead' = bytesRead
      /\ vector' = vector /\ changed' = changed
  BY DEF CallRead
<1>2. PICK n, b : n = Len(vector) /\ b = bytesRead
  OBVIOUS
<1>3. /\ n \in Nat /\ b \in Nat /\ WholeTypes /\ inner.done = 0
      /\ (b = 0 /\ n > 0) \/ (b > 0 /\ n = NewSize(b))
  BY <1>1, <1>2 DEF WholeInv, WholeTypes, Sized
<1>4. CASE n < b
  <2>1. loop' = "stuck" /\ inner' = inner
    BY <1>2, <1>4 DEF CallRead
  <2>2. b = 1
    BY <1>3, <1>4, Growth
  <2>3. ReadSoFar' = ReadSoFar
    BY <1>1, <2>1 DEF ReadSoFar
  <2> QED
    BY <1>1, <1>2, <1>3, <2>1, <2>2, <2>3 DEF WholeInv, WholeTypes, Filled, Sized, NotBeyond, Complete
<1>5. CASE ~ (n < b)
  <2>1. loop' = "inner" /\ inner' = [wanted |-> n - b, done |-> 0]
    BY <1>2, <1>5 DEF CallRead
  <2>2. n - b \in Nat /\ b + (n - b) = n
    BY <1>3, <1>5
  <2>3. ReadSoFar' = ReadSoFar
    BY <1>1, <1>3, <2>1 DEF ReadSoFar
  <2>4. WholeTypes'
    BY <1>1, <1>3, <2>1, <2>2 DEF WholeTypes
  <2>5. Sized'
    BY <1>1, <1>2, <1>3, <2>1, <2>2 DEF Sized
  <2> QED
    BY <1>1, <2>1, <2>3, <2>4, <2>5 DEF WholeInv, Filled, NotBeyond, Complete
<1> QED
  BY <1>4, <1>5

LEMMA TransferSomeInv == ASSUME WholeInv, TransferSome PROVE WholeInv'
<1>1. PICK n \in 1 .. inner.wanted - inner.done :
          /\ from + bytesRead + inner.done + n <= Len(whole)
          /\ vector' = [i \in 1 .. Len(vector) |->
                           IF i - bytesRead - inner.done \in 1 .. n THEN whole[from + i] ELSE vector[i]]
          /\ inner' = [inner EXCEPT !.done = @ + n]
  BY DEF TransferSome
<1>2. PICK L, b, d, w, f : L = Len(vector) /\ b = bytesRead /\ d = inner.done /\ w = inner.wanted /\ f = from
  OBVIOUS
<1>3. /\ loop = "inner" /\ whole' = whole /\ from' = from /\ bytesRead' = bytesRead
      /\ loop' = loop /\ changed' = changed /\ d < w
  BY <1>2 DEF TransferSome
<1>4. /\ L \in Nat /\ b \in Nat /\ d \in Nat /\ w \in Nat /\ f \in Nat /\ WholeTypes
      /\ L = b + w /\ inner = [wanted |-> w, done |-> d] /\ vector \in Seq(Int)
  BY <1>2, <1>3 DEF WholeInv, WholeTypes, Sized
<1>5. PICK m \in Nat : m = Len(whole) /\ \A i \in 1 .. m : whole[i] = i
  BY <1>4, BytesAre, WholeFileAssumption DEF WholeTypes
<1>6. /\ n \in Nat /\ n >= 1 /\ d + n <= w /\ f + b + d + n <= m
      /\ inner' = [wanted |-> w, done |-> d + n]
      /\ vector' = [i \in 1 .. L |-> IF i - b - d \in 1 .. n THEN whole[f + i] ELSE vector[i]]
  BY <1>1, <1>2, <1>4, <1>5
<1>7. \A i \in 1 .. L : i - b - d \in 1 .. n => f + i \in 1 .. m /\ whole[f + i] = f + i
  <2> SUFFICES ASSUME NEW i \in 1 .. L, i - b - d \in 1 .. n PROVE f + i \in 1 .. m
    BY <1>5
  <2> QED
    BY <1>4, <1>5, <1>6
<1>8. vector' \in Seq(Int) /\ Len(vector') = L
  <2>1. \A i \in 1 .. L : vector[i] \in Int
    <3>1. vector \in Seq(Int) /\ L = Len(vector)
      BY <1>2, <1>4
    <3> QED
      BY <3>1
  <2>2. vector' \in [1 .. L -> Int]
    <3>1. ASSUME NEW i \in 1 .. L
          PROVE  (IF i - b - d \in 1 .. n THEN whole[f + i] ELSE vector[i]) \in Int
      <4>1. CASE i - b - d \in 1 .. n
        <5>1. whole[f + i] = f + i
          BY <1>7, <4>1
        <5>2. f + i \in Int
          BY <1>4
        <5> QED
          BY <4>1, <5>1, <5>2
      <4>2. CASE i - b - d \notin 1 .. n
        BY <2>1, <4>2
      <4> QED
        BY <4>1, <4>2
    <3> QED
      BY <1>6, <3>1
  <2>3. vector' \in Seq(Int)
    BY <1>4, <2>2
  <2>4. DOMAIN vector' = 1 .. L
    BY <1>6
  <2> QED
    BY <1>4, <2>3, <2>4
<1>9. ReadSoFar = b + d /\ ReadSoFar' = b + (d + n)
  BY <1>2, <1>3, <1>6 DEF ReadSoFar
<1>10. Filled'
  <2> SUFFICES ASSUME NEW i \in 1 .. L, i <= b + (d + n) PROVE vector'[i] = f + i
    BY <1>2, <1>3, <1>8, <1>9 DEF Filled
  <2>1. CASE i - b - d \in 1 .. n
    BY <1>6, <1>7, <2>1
  <2>2. CASE i - b - d \notin 1 .. n
    <3>1. i <= b + d
      <4>1. i \in Int /\ b \in Int /\ d \in Int /\ n \in Int /\ i <= b + d + n
        BY <1>4, <1>6
      <4> QED
        BY <2>2, <4>1
    <3> QED
      BY <1>2, <1>6, <1>9, <2>2, <3>1 DEF WholeInv, Filled
  <2> QED
    BY <2>1, <2>2
<1>11. WholeTypes'
  <2>1. inner' \in [wanted : Nat, done : Nat] /\ inner'.done <= inner'.wanted
    BY <1>4, <1>6
  <2>2. \E k \in 0 .. MaxWhole : whole' = Bytes(k)
    BY <1>3, <1>4 DEF WholeTypes
  <2> QED
    BY <1>3, <1>4, <1>8, <2>1, <2>2 DEF WholeTypes
<1>12. Sized'
  BY <1>2, <1>3, <1>4, <1>6, <1>8 DEF WholeInv, Sized
<1>13. NotBeyond'
  BY <1>2, <1>3, <1>4, <1>5, <1>6, <1>9 DEF NotBeyond
<1> QED
  BY <1>3, <1>10, <1>11, <1>12, <1>13 DEF WholeInv, Complete

LEMMA ReadReturnsInv == ASSUME WholeInv, ReadReturns PROVE WholeInv'
<1>1. PICK L, b, d, w, f : L = Len(vector) /\ b = bytesRead /\ d = inner.done /\ w = inner.wanted /\ f = from
  OBVIOUS
<1>2. /\ loop = "inner" /\ whole' = whole /\ from' = from /\ changed' = changed
      /\ bytesRead' = b + d /\ inner' = [wanted |-> 0, done |-> 0]
  BY <1>1 DEF ReadReturns, NoInner
<1>3. /\ L \in Nat /\ b \in Nat /\ d \in Nat /\ w \in Nat /\ f \in Nat /\ d <= w /\ WholeTypes
      /\ L = b + w /\ vector \in Seq(Int)
      /\ (b = 0 /\ L > 0) \/ (b > 0 /\ L = NewSize(b))
  BY <1>1, <1>2 DEF WholeInv, WholeTypes, Sized
<1>4. PICK m \in Nat : m = Len(whole)
  BY <1>3, BytesAre, WholeFileAssumption DEF WholeTypes
<1>5. ReadSoFar = b + d /\ ReadSoFar' = b + d
  BY <1>1, <1>2, <1>3 DEF ReadSoFar
<1>6. NotBeyond'
  BY <1>2, <1>5 DEF WholeInv, NotBeyond
<1>7. CASE d < w
  <2>1. loop' = "returned" /\ vector' = ResizedTo(vector, b + d) /\ f + b + d >= m
    <3>1. /\ loop' = "returned" /\ vector' = CutTo(bytesRead')
          /\ inner.done = inner.wanted \/ AtEnd
      BY <1>1, <1>7 DEF ReadReturns
    <3>2. AtEnd
      BY <1>1, <1>3, <1>7, <3>1
    <3> QED
      BY <1>1, <1>2, <1>4, <3>1, <3>2 DEF CutTo, AtEnd
  <2>2. b + d \in Nat /\ b + d <= L
    BY <1>3, <1>7
  <2>3. /\ vector' \in Seq(Int) /\ Len(vector') = b + d
        /\ \A i \in 1 .. b + d : i <= L => vector'[i] = vector[i]
    <3>1. vector \in Seq(Int) /\ b + d \in Nat /\ Len(vector) = L
      BY <1>1, <1>3, <2>2
    <3>2. /\ ResizedTo(vector, b + d) \in Seq(Int) /\ Len(ResizedTo(vector, b + d)) = b + d
          /\ \A i \in 1 .. b + d : i <= Len(vector) => ResizedTo(vector, b + d)[i] = vector[i]
      BY <3>1, ResizedIs
    <3> QED
      BY <2>1, <3>1, <3>2
  <2>4. Filled'
    <3> SUFFICES ASSUME NEW i \in 1 .. b + d PROVE vector'[i] = f + i
      BY <1>1, <1>2, <1>5, <2>3 DEF Filled
    <3>1. i \in 1 .. L /\ i <= L /\ i <= b + d
      BY <1>3, <2>2
    <3> QED
      BY <1>1, <1>5, <2>3, <3>1 DEF WholeInv, Filled
  <2>5. Complete'
    <3> SUFFICES ASSUME ~ changed PROVE f + (b + d) = m \/ (f >= m /\ b + d = 0)
      BY <1>1, <1>2, <1>4 DEF Complete
    <3>1. f + (b + d) <= m \/ (f >= m /\ b + d = 0)
      BY <1>1, <1>4, <1>5 DEF WholeInv, NotBeyond
    <3> QED
      BY <1>3, <2>1, <3>1
  <2>6. WholeTypes' /\ Sized'
    BY <1>2, <1>3, <2>1, <2>2, <2>3 DEF WholeTypes, Sized
  <2> QED
    BY <1>6, <2>4, <2>5, <2>6 DEF WholeInv
<1>8. CASE ~ (d < w)
  <2>1. /\ vector' = ResizedTo(vector, NewSize(L))
        /\ loop' = IF w = 0 /\ NewSize(L) = L THEN "stuck" ELSE "outer"
    BY <1>1, <1>8 DEF ReadReturns
  <2>2. d = w /\ b + d = L /\ L > 0
    <3>1. d = w /\ b + d = L
      BY <1>3, <1>8
    <3>2. L > 0
      BY <1>3
    <3> QED
      BY <3>1, <3>2
  <2>3. NewSize(L) \in Nat /\ (NewSize(L) = L => L = 3)
    BY <1>3, <2>2, Growth
  <2>4. /\ vector' \in Seq(Int) /\ Len(vector') = NewSize(L)
        /\ \A i \in 1 .. NewSize(L) : i <= L => vector'[i] = vector[i]
    BY <1>1, <1>3, <2>1, <2>3, ResizedIs
  <2>5. Filled'
    <3> SUFFICES ASSUME NEW i \in 1 .. NewSize(L), i <= L PROVE vector'[i] = f + i
      BY <1>1, <1>2, <1>5, <2>2, <2>4 DEF Filled
    <3>1. i \in 1 .. L /\ i <= b + d
      BY <1>3, <2>2, <2>3
    <3> QED
      BY <1>1, <1>5, <2>4, <3>1 DEF WholeInv, Filled
  <2>6. WholeTypes'
    BY <1>2, <1>3, <2>1, <2>2, <2>4 DEF WholeTypes
  <2>7. Sized' /\ Complete'
    BY <1>2, <2>1, <2>2, <2>3, <2>4 DEF Sized, Complete
  <2> QED
    BY <1>6, <2>5, <2>6, <2>7 DEF WholeInv
<1> QED
  BY <1>7, <1>8

LEMMA StepWholeInv == WholeInv /\ [WholeNext]_wholeVars => WholeInv'
<1> SUFFICES ASSUME WholeInv, [WholeNext]_wholeVars PROVE WholeInv'
  OBVIOUS
<1>1. CASE BeginRead
  BY <1>1, BeginReadInv
<1>2. CASE CallRead
  BY <1>2, CallReadInv
<1>3. CASE TransferSome
  BY <1>3, TransferSomeInv
<1>4. CASE TransferThrows
  <2>1. ReadSoFar' = ReadSoFar
    BY <1>4 DEF TransferThrows, ReadSoFar
  <2> QED
    BY <1>4, <2>1 DEF TransferThrows, WholeInv, WholeTypes, Filled, Sized, NotBeyond, Complete
<1>5. CASE ReadReturns
  BY <1>5, ReadReturnsInv
<1>6. CASE OtherChanges
  <2>1. ReadSoFar' = ReadSoFar
    BY <1>6 DEF OtherChanges, ReadSoFar
  <2>2. \E n \in 0 .. MaxWhole : whole' = Bytes(n)
    BY <1>6 DEF OtherChanges
  <2> QED
    BY <1>6, <2>1, <2>2 DEF OtherChanges, WholeInv, WholeTypes, Filled, Sized, NotBeyond, Complete
<1>7. CASE UNCHANGED wholeVars
  <2>1. ReadSoFar' = ReadSoFar
    BY <1>7 DEF wholeVars, ReadSoFar
  <2> QED
    BY <1>7, <2>1 DEF wholeVars, WholeInv, WholeTypes, Filled, Sized, NotBeyond, Complete
<1> QED
  BY <1>1, <1>2, <1>3, <1>4, <1>5, <1>6, <1>7 DEF WholeNext

\* For files and guesses of any size: a read that returns has the bytes from its
\* position on, all of them if nobody changed the file, and it only fails to
\* return from a vector full at a size of one or of three (zpp/file.h:1057-1145).
THEOREM ReadsAlwaysWhole == WholeSpec => []ReadsWhole
<1>1. WholeInv => ReadsWhole
  <2> SUFFICES ASSUME WholeInv PROVE ReadsWhole
    OBVIOUS
  <2>1. ASSUME loop = "returned"
        PROVE  /\ \A i \in 1 .. Len(vector) : vector[i] = from + i
               /\ ~ changed => \/ from + Len(vector) = Len(whole)
                               \/ from >= Len(whole) /\ vector = <<>>
    <3>1. Len(vector) = bytesRead /\ inner.done = 0 /\ bytesRead \in Nat /\ vector \in Seq(Int)
      BY <2>1 DEF WholeInv, WholeTypes, Sized
    <3>2. ReadSoFar = bytesRead
      BY <3>1 DEF ReadSoFar
    <3>3. \A i \in 1 .. Len(vector) : vector[i] = from + i
      <4> SUFFICES ASSUME NEW i \in 1 .. Len(vector) PROVE vector[i] = from + i
        OBVIOUS
      <4>1. i <= ReadSoFar
        BY <3>1, <3>2
      <4> QED
        BY <4>1 DEF WholeInv, Filled
    <3>4. Len(vector) = 0 => vector = <<>>
      BY <3>1
    <3> QED
      BY <2>1, <3>1, <3>3, <3>4 DEF WholeInv, Complete
  <2>2. loop = "stuck" => bytesRead \in {1, 3}
    BY DEF WholeInv, Sized
  <2> QED
    BY <2>1, <2>2 DEF ReadsWhole
<1> QED
  BY <1>1, InitWholeInv, StepWholeInv, PTL DEF WholeSpec

-----------------------------------------------------------------------------
(* Values of the threads, for any number of threads and a heap of any      *)
(* size.  The invariant adds to ThreadsApart that a pointer is to a value  *)
(* that is not lost, and that without a key there is none.                 *)

LocalTypes ==
    /\ DOMAIN heap \subseteq HeapAddresses
    /\ slots \in [LocalThreads -> HeapAddresses \cup {NoPointer}]
    /\ DOMAIN lastSet = LocalThreads

PointersLive ==
    /\ \A t \in LocalThreads : slots[t] # NoPointer => slots[t] \in DOMAIN heap \ lost
    /\ ~ key => \A t \in LocalThreads : slots[t] = NoPointer
    /\ key \in BOOLEAN

LocalInv == LocalTypes /\ PointersLive /\ ThreadsApart

LEMMA NoAddress == NoPointer \notin HeapAddresses
  BY ThreadLocalAssumption DEF NoPointer, HeapAddresses

LEMMA InitLocalInv == LocalInit => LocalInv
  BY NoAddress DEF LocalInit, LocalInv, LocalTypes, PointersLive, ThreadsApart, GetLocal

LEMMA ConstructLocalStep == ASSUME LocalInv, ConstructLocal PROVE LocalInv'
<1>1. key' = TRUE /\ (\A t \in LocalThreads : slots[t] = NoPointer) /\ heap' = heap /\ lost' = lost
      /\ slots' = [t \in LocalThreads |-> NoPointer] /\ lastSet' = [t \in LocalThreads |-> DefaultValue]
  BY DEF ConstructLocal, LocalInv, PointersLive
<1>2. LocalTypes'
  BY <1>1 DEF LocalInv, LocalTypes
<1>3. PointersLive'
  BY <1>1 DEF LocalInv, PointersLive
<1>4. \A a \in DOMAIN heap : a \in lost
  BY <1>1, NoAddress DEF LocalInv, LocalTypes, ThreadsApart
<1>5. \A t \in LocalThreads : GetLocal(t)' = lastSet'[t]
  BY <1>1 DEF GetLocal
<1> QED
  BY <1>1, <1>2, <1>3, <1>4, <1>5 DEF LocalInv, ThreadsApart

LEMMA DestroyLocalStep == ASSUME LocalInv, DestroyLocal PROVE LocalInv'
<1>1. key' = FALSE /\ heap' = heap /\ lastSet' = lastSet
      /\ lost' = lost \cup ({slots[t] : t \in LocalThreads} \ {NoPointer})
      /\ slots' = [t \in LocalThreads |-> NoPointer]
  BY DEF DestroyLocal
<1>2. LocalTypes'
  BY <1>1 DEF LocalInv, LocalTypes
<1>3. PointersLive'
  BY <1>1 DEF PointersLive
<1>4. DOMAIN heap \ lost' = {}
  BY <1>1, NoAddress DEF LocalInv, LocalTypes, ThreadsApart
<1>5. lost' \subseteq DOMAIN heap
  BY <1>1 DEF LocalInv, PointersLive, ThreadsApart
<1> QED
  BY <1>1, <1>2, <1>3, <1>4, <1>5 DEF LocalInv, ThreadsApart

\* Thread t has a new value v under the key, and its old one is deleted.
LEMMA ResetLocalStep ==
    ASSUME LocalInv, key = TRUE, NEW t \in LocalThreads, NEW v, ResetLocal(t, v),
           DOMAIN lastSet' = LocalThreads, lastSet'[t] = v,
           \A u \in LocalThreads \ {t} : lastSet'[u] = lastSet[u],
           UNCHANGED <<key, lost>>
    PROVE  LocalInv'
<1>1. PICK a \in HeapAddresses \ DOMAIN heap :
          /\ slots' = [slots EXCEPT ![t] = a]
          /\ heap' = [b \in DOMAIN Allocated(a, v) \ {slots[t]} |-> Allocated(a, v)[b]]
  BY DEF ResetLocal
<1>2. a # slots[t] /\ a # NoPointer
  BY NoAddress DEF LocalInv, PointersLive
<1>3. /\ DOMAIN heap' = (DOMAIN heap \cup {a}) \ {slots[t]}
      /\ heap'[a] = v
      /\ \A b \in DOMAIN heap \ {slots[t]} : heap'[b] = heap[b]
  BY <1>1, <1>2 DEF Allocated
<1>4. slots'[t] = a /\ \A u \in LocalThreads \ {t} : slots'[u] = slots[u]
  BY <1>1 DEF LocalInv, LocalTypes
<1>5. lastSet'[t] = v /\ \A u \in LocalThreads \ {t} : lastSet'[u] = lastSet[u]
  OBVIOUS
<1>6. LocalTypes'
  BY <1>1, <1>3 DEF LocalInv, LocalTypes
<1>7. lost \subseteq DOMAIN heap /\ a \notin lost /\ slots[t] \notin lost
  BY NoAddress DEF LocalInv, LocalTypes, PointersLive, ThreadsApart
<1>8. ASSUME NEW u \in LocalThreads \ {t}, slots[u] # NoPointer
      PROVE  slots[u] \in DOMAIN heap /\ slots[u] \notin lost /\ slots[u] # slots[t] /\ slots[u] # a
  BY <1>8 DEF LocalInv, PointersLive, ThreadsApart
<1>9. PointersLive'
  BY <1>2, <1>3, <1>4, <1>7, <1>8 DEF PointersLive
<1>10. \A u \in LocalThreads : GetLocal(u)' = lastSet'[u]
  <2>1. GetLocal(t)' = lastSet'[t]
    BY <1>2, <1>3, <1>4, <1>5 DEF GetLocal
  <2>2. ASSUME NEW u \in LocalThreads \ {t} PROVE GetLocal(u)' = lastSet'[u]
    <3>1. GetLocal(u) = lastSet[u]
      BY DEF LocalInv, ThreadsApart
    <3>2. CASE slots[u] = NoPointer
      BY <1>4, <1>5, <3>1, <3>2 DEF GetLocal
    <3>3. CASE slots[u] # NoPointer
      BY <1>3, <1>4, <1>5, <1>8, <3>1, <3>3 DEF GetLocal
    <3> QED
      BY <3>2, <3>3
  <2> QED
    BY <2>1, <2>2
<1>11. \A b \in DOMAIN heap' \ lost' : \E u \in LocalThreads : slots'[u] = b
  <2> SUFFICES ASSUME NEW b \in DOMAIN heap' \ lost' PROVE \E u \in LocalThreads : slots'[u] = b
    OBVIOUS
  <2>1. CASE b = a
    BY <1>4, <2>1
  <2>2. CASE b # a
    <3>1. b \in DOMAIN heap \ lost /\ b # slots[t]
      BY <1>3, <2>2
    <3>2. PICK u \in LocalThreads : slots[u] = b
      BY <3>1 DEF LocalInv, ThreadsApart
    <3> QED
      BY <1>4, <3>1, <3>2
  <2> QED
    BY <2>1, <2>2
<1>12. \A u, w \in LocalThreads : slots'[u] # NoPointer /\ u # w => slots'[u] # slots'[w]
  <2> SUFFICES ASSUME NEW u \in LocalThreads, NEW w \in LocalThreads, slots'[u] # NoPointer, u # w
               PROVE  slots'[u] # slots'[w]
    OBVIOUS
  <2>1. CASE u = t
    BY <1>2, <1>4, <1>8, <2>1
  <2>2. CASE w = t
    BY <1>4, <1>8, <2>2
  <2>3. CASE u # t /\ w # t
    BY <1>4, <2>3 DEF LocalInv, ThreadsApart
  <2> QED
    BY <2>1, <2>2, <2>3
<1>13. lost' \subseteq DOMAIN heap'
  BY <1>3, <1>7
<1> QED
  BY <1>6, <1>9, <1>10, <1>11, <1>12, <1>13 DEF LocalInv, ThreadsApart

\* The value of t is written.
LEMMA WrittenStep ==
    ASSUME LocalInv, key = TRUE, NEW t \in LocalThreads, NEW v, slots[t] # NoPointer,
           heap' = [heap EXCEPT ![slots[t]] = v],
           lastSet' = [lastSet EXCEPT ![t] = v], UNCHANGED <<key, slots, lost>>
    PROVE  LocalInv'
<1>1. DOMAIN heap' = DOMAIN heap /\ slots[t] \in DOMAIN heap
  BY DEF LocalInv, PointersLive
<1>2. heap'[slots[t]] = v /\ \A b \in DOMAIN heap \ {slots[t]} : heap'[b] = heap[b]
  BY <1>1
<1>3. lastSet'[t] = v /\ \A u \in LocalThreads \ {t} : lastSet'[u] = lastSet[u]
  BY DEF LocalInv, LocalTypes
<1>4. LocalTypes'
  BY <1>1 DEF LocalInv, LocalTypes
<1>5. PointersLive'
  BY <1>1 DEF LocalInv, PointersLive
<1>6. ASSUME NEW u \in LocalThreads PROVE GetLocal(u)' = lastSet'[u]
  <2>1. GetLocal(u) = lastSet[u]
    BY DEF LocalInv, ThreadsApart
  <2>2. CASE u = t
    BY <1>2, <1>3, <2>2 DEF GetLocal
  <2>3. CASE u # t /\ slots[u] = NoPointer
    BY <1>3, <2>1, <2>3 DEF GetLocal
  <2>4. CASE u # t /\ slots[u] # NoPointer
    <3>1. slots[u] \in DOMAIN heap \ {slots[t]}
      BY <2>4 DEF LocalInv, PointersLive, ThreadsApart
    <3> QED
      BY <1>2, <1>3, <2>1, <2>4, <3>1 DEF GetLocal
  <2> QED
    BY <2>2, <2>3, <2>4
<1> QED
  BY <1>1, <1>4, <1>5, <1>6 DEF LocalInv, ThreadsApart

\* The value of t is deleted, if there is one.
LEMMA DeletedStep ==
    ASSUME LocalInv, NEW t \in LocalThreads,
           heap' = IF slots[t] # NoPointer THEN Deleted(slots[t]) ELSE heap,
           slots' = [slots EXCEPT ![t] = NoPointer],
           lastSet' = [lastSet EXCEPT ![t] = DefaultValue], UNCHANGED <<key, lost>>
    PROVE  LocalInv'
<1>1. /\ DOMAIN heap' = DOMAIN heap \ {slots[t]}
      /\ \A b \in DOMAIN heap \ {slots[t]} : heap'[b] = heap[b]
  BY NoAddress DEF LocalInv, LocalTypes, Deleted
<1>2. slots'[t] = NoPointer /\ \A u \in LocalThreads \ {t} : slots'[u] = slots[u]
  BY DEF LocalInv, LocalTypes
<1>3. lastSet'[t] = DefaultValue /\ \A u \in LocalThreads \ {t} : lastSet'[u] = lastSet[u]
  BY DEF LocalInv, LocalTypes
<1>4. LocalTypes'
  BY <1>1 DEF LocalInv, LocalTypes
<1>5. lost \subseteq DOMAIN heap /\ slots[t] \notin lost
  BY NoAddress DEF LocalInv, LocalTypes, PointersLive, ThreadsApart
<1>6. ASSUME NEW u \in LocalThreads \ {t}, slots[u] # NoPointer
      PROVE  slots[u] \in DOMAIN heap /\ slots[u] \notin lost /\ slots[u] # slots[t]
  BY <1>6 DEF LocalInv, PointersLive, ThreadsApart
<1>7. PointersLive'
  BY <1>1, <1>2, <1>6 DEF LocalInv, PointersLive
<1>8. ASSUME key' = TRUE, NEW u \in LocalThreads PROVE GetLocal(u)' = lastSet'[u]
  <2>1. GetLocal(u) = lastSet[u]
    BY <1>8 DEF LocalInv, ThreadsApart
  <2>2. CASE u = t
    BY <1>2, <1>3, <2>2 DEF GetLocal
  <2>3. CASE u # t /\ slots[u] = NoPointer
    BY <1>2, <1>3, <2>1, <2>3 DEF GetLocal
  <2>4. CASE u # t /\ slots[u] # NoPointer
    BY <1>1, <1>2, <1>3, <1>6, <2>1, <2>4 DEF GetLocal
  <2> QED
    BY <2>2, <2>3, <2>4
<1>9. \A b \in DOMAIN heap' \ lost' : \E u \in LocalThreads : slots'[u] = b
  <2> SUFFICES ASSUME NEW b \in DOMAIN heap' \ lost' PROVE \E u \in LocalThreads : slots'[u] = b
    OBVIOUS
  <2>1. PICK u \in LocalThreads : slots[u] = b
    BY <1>1 DEF LocalInv, ThreadsApart
  <2> QED
    BY <1>1, <1>2, <2>1
<1>10. \A u, w \in LocalThreads : slots'[u] # NoPointer /\ u # w => slots'[u] # slots'[w]
  BY <1>2 DEF LocalInv, ThreadsApart
<1>11. lost' \subseteq DOMAIN heap'
  BY <1>1, <1>5
<1>12. key' = TRUE \/ key' = FALSE
  BY DEF LocalInv, PointersLive
<1> QED
  BY <1>4, <1>7, <1>8, <1>9, <1>10, <1>11, <1>12 DEF LocalInv, ThreadsApart

\* A thread has the default until it sets something: getRef() gives it that.
LEMMA GetRefStep ==
    ASSUME LocalInv, NEW t \in LocalThreads, GetRef(t) PROVE LocalInv'
<1>1. key = TRUE /\ slots[t] = NoPointer /\ ResetLocal(t, DefaultValue) /\ UNCHANGED <<key, lastSet, lost>>
  BY DEF GetRef, LocalInv, PointersLive
<1>2. lastSet[t] = DefaultValue
  BY <1>1 DEF LocalInv, ThreadsApart, GetLocal
<1>3. DOMAIN lastSet' = LocalThreads /\ \A u \in LocalThreads : lastSet'[u] = lastSet[u]
  BY <1>1 DEF LocalInv, LocalTypes
<1> QED
  BY <1>1, <1>2, <1>3, ResetLocalStep

LEMMA SetLocalStep ==
    ASSUME LocalInv, NEW t \in LocalThreads, NEW v, SetLocal(t, v) PROVE LocalInv'
<1>1. key = TRUE /\ lastSet' = [lastSet EXCEPT ![t] = v] /\ UNCHANGED <<key, lost>>
  BY DEF SetLocal, LocalInv, PointersLive
<1>2. CASE slots[t] # NoPointer
  BY <1>1, <1>2, WrittenStep DEF SetLocal
<1>3. CASE slots[t] = NoPointer
  <2>1. ResetLocal(t, v)
    BY <1>3 DEF SetLocal
  <2>2. DOMAIN lastSet' = LocalThreads /\ lastSet'[t] = v
        /\ \A u \in LocalThreads \ {t} : lastSet'[u] = lastSet[u]
    BY <1>1 DEF LocalInv, LocalTypes
  <2> QED
    BY <1>1, <2>1, <2>2, ResetLocalStep
<1> QED
  BY <1>2, <1>3

LEMMA WriteThroughRefStep ==
    ASSUME LocalInv, NEW t \in LocalThreads, NEW v, WriteThroughRef(t, v) PROVE LocalInv'
<1>1. key = TRUE
  BY DEF WriteThroughRef, LocalInv, PointersLive
<1> QED
  BY <1>1, WrittenStep DEF WriteThroughRef

LEMMA ResetPointerStep ==
    ASSUME LocalInv, NEW t \in LocalThreads, NEW v, ResetPointer(t, v) PROVE LocalInv'
<1>1. key = TRUE /\ ResetLocal(t, v) /\ lastSet' = [lastSet EXCEPT ![t] = v] /\ UNCHANGED <<key, lost>>
  BY DEF ResetPointer, LocalInv, PointersLive
<1>2. DOMAIN lastSet' = LocalThreads /\ lastSet'[t] = v
      /\ \A u \in LocalThreads \ {t} : lastSet'[u] = lastSet[u]
  BY <1>1 DEF LocalInv, LocalTypes
<1> QED
  BY <1>1, <1>2, ResetLocalStep

LEMMA ReleasePointerStep ==
    ASSUME LocalInv, NEW t \in LocalThreads, ReleasePointer(t) PROVE LocalInv'
  BY DeletedStep DEF ReleasePointer

LEMMA ThreadExitsStep ==
    ASSUME LocalInv, NEW t \in LocalThreads, ThreadExits(t) PROVE LocalInv'
  BY DeletedStep DEF ThreadExits

LEMMA LocalStep == LocalInv /\ [LocalNext]_localVars => LocalInv'
<1> SUFFICES ASSUME LocalInv, [LocalNext]_localVars PROVE LocalInv'
  OBVIOUS
<1>1. CASE UNCHANGED localVars
  BY <1>1 DEF localVars, LocalInv, LocalTypes, PointersLive, ThreadsApart, GetLocal
<1>2. CASE ConstructLocal
  BY <1>2, ConstructLocalStep
<1>3. CASE DestroyLocal
  BY <1>3, DestroyLocalStep
<1>4. CASE \E t \in LocalThreads : GetRef(t)
  BY <1>4, GetRefStep
<1>5. CASE \E t \in LocalThreads : ReleasePointer(t)
  BY <1>5, ReleasePointerStep
<1>6. CASE \E t \in LocalThreads : ThreadExits(t)
  BY <1>6, ThreadExitsStep
<1>7. CASE \E t \in LocalThreads : \E v \in LocalValues : SetLocal(t, v)
  BY <1>7, SetLocalStep
<1>8. CASE \E t \in LocalThreads : \E v \in LocalValues : WriteThroughRef(t, v)
  BY <1>8, WriteThroughRefStep
<1>9. CASE \E t \in LocalThreads : \E v \in LocalValues : ResetPointer(t, v)
  BY <1>9, ResetPointerStep
<1> QED
  BY <1>1, <1>2, <1>3, <1>4, <1>5, <1>6, <1>7, <1>8, <1>9 DEF LocalNext

\* Threads never see each other's values, nor those of an object or a thread
\* that was before, and no value is left on the heap but those an object that
\* was destroyed has lost (tls.hpp:26-44, 52-76): whatever the number of
\* threads, the values they set and the size of the heap.
THEOREM ThreadsAlwaysApart == LocalSpec => []ThreadsApart
<1>1. LocalInit => LocalInv
  BY InitLocalInv
<1>2. LocalInv /\ [LocalNext]_localVars => LocalInv'
  BY LocalStep
<1>3. LocalInv => ThreadsApart
  BY DEF LocalInv
<1> QED
  BY <1>1, <1>2, <1>3, PTL DEF LocalSpec

-----------------------------------------------------------------------------
(* Initialisers, however many there are and however they are nested.  The  *)
(* invariant says how what an initialiser has done goes with what it will  *)
(* take back; that the options in the list have an instance follows, as    *)
(* whoever adds an entry has made the instance.                            *)

Scopes  == [what : Subjects, owns : BOOLEAN, pops : BOOLEAN]
Entries == {<<o, getenv_with_default(o)>> : o \in OptionNames}

RuntimeTypes ==
    /\ DOMAIN option = OptionNames
    /\ scopes \in Seq(Scopes)
    /\ registered \in Seq(Entries)

\* Who adds an entry has made the instance of an option.
AddersOwn == \A i \in Listing : scopes[i].owns /\ scopes[i].what \in OptionNames

OwnedByOne  == \A what \in Subjects : \A i, j \in Owners(what) : i = j
OptionsHeld == \A o \in OptionNames : initialized(o) <=> Owners(o) # {}
MpiHeld     == mpi # "died" => (mpi = "running" <=> Owners("mpi") # {})
ListInOrder == \E by \in [1 .. Len(registered) -> Listing] : ListedBy(by)

RuntimeInv ==
    RuntimeTypes /\ AddersOwn /\ OwnedByOne /\ OptionsHeld /\ MpiHeld /\ ListInOrder

LEMMA SubjectsApart == "mpi" \notin OptionNames /\ OptionNames \subseteq Subjects /\ "mpi" \in Subjects
  BY DEF OptionNames, Subjects

LEMMA ScopeIs ==
    ASSUME NEW what \in Subjects, NEW owns \in BOOLEAN, NEW pops \in BOOLEAN
    PROVE  /\ Scope(what, owns, pops) \in Scopes
           /\ Scope(what, owns, pops).what = what
           /\ Scope(what, owns, pops).owns = owns
           /\ Scope(what, owns, pops).pops = pops
  BY DEF Scope, Scopes

LEMMA RuntimeInvFinalises == RuntimeInv => OwnersFinalise
<1> SUFFICES ASSUME RuntimeInv PROVE OwnersFinalise
  OBVIOUS
<1>1. ASSUME NEW i \in 1 .. Len(registered)
      PROVE  /\ initialized(registered[i][1])
             /\ registered[i][2] = getenv_with_default(registered[i][1])
  <2>1. PICK by \in [1 .. Len(registered) -> Listing] : ListedBy(by)
    BY DEF RuntimeInv, ListInOrder
  <2>2. by[i] \in Listing /\ registered[i][1] = scopes[by[i]].what
    BY <2>1 DEF ListedBy
  <2>3. registered[i][1] \in OptionNames /\ by[i] \in Owners(registered[i][1])
    BY <2>2 DEF RuntimeInv, AddersOwn, Owners, Listing
  <2>4. registered[i] \in Entries
    BY DEF RuntimeInv, RuntimeTypes
  <2> QED
    BY <2>3, <2>4 DEF RuntimeInv, OptionsHeld, Entries
<1> QED
  BY <1>1 DEF RuntimeInv, OwnersFinalise, OwnedByOne, OptionsHeld, MpiHeld, ListInOrder

LEMMA InitRuntimeInv == RuntimeInit => RuntimeInv
<1> SUFFICES ASSUME RuntimeInit PROVE RuntimeInv
  OBVIOUS
<1>1. Len(scopes) = 0 /\ Len(registered) = 0 /\ scopes \in Seq(Scopes) /\ registered \in Seq(Entries)
  BY DEF RuntimeInit
<1>2. Listing = {} /\ \A what : Owners(what) = {}
  BY <1>1 DEF Listing, Owners
<1>3. ListInOrder
  <2>1. [k \in 1 .. 0 |-> 0] \in [1 .. Len(registered) -> Listing]
    BY <1>1, <1>2
  <2> QED
    BY <1>1, <1>2, <2>1 DEF ListInOrder, ListedBy
<1>4. RuntimeTypes
  BY <1>1 DEF RuntimeTypes, RuntimeInit
<1>5. OptionsHeld /\ MpiHeld
  BY <1>2 DEF OptionsHeld, MpiHeld, initialized, RuntimeInit
<1> QED
  BY <1>2, <1>3, <1>4, <1>5 DEF RuntimeInv, AddersOwn, OwnedByOne

-----------------------------------------------------------------------------

\* An initialiser is made.
LEMMA ScopeEntered ==
    ASSUME RuntimeInv, NEW s \in Scopes, scopes' = Append(scopes, s)
    PROVE  /\ scopes' \in Seq(Scopes) /\ Len(scopes') = Len(scopes) + 1
           /\ scopes'[Len(scopes) + 1] = s
           /\ \A i \in 1 .. Len(scopes) : scopes'[i] = scopes[i]
           /\ \A what : Owners(what)' =
                 Owners(what) \cup {i \in {Len(scopes) + 1} : s.what = what /\ s.owns}
           /\ Listing' = Listing \cup {i \in {Len(scopes) + 1} : s.pops}
<1>1. scopes \in Seq(Scopes) /\ Len(scopes) \in Nat
  BY DEF RuntimeInv, RuntimeTypes
<1>2. /\ scopes' \in Seq(Scopes) /\ Len(scopes') = Len(scopes) + 1
      /\ scopes'[Len(scopes) + 1] = s
      /\ \A i \in 1 .. Len(scopes) : scopes'[i] = scopes[i]
  BY <1>1
<1>3. 1 .. Len(scopes') = (1 .. Len(scopes)) \cup {Len(scopes) + 1}
  BY <1>1, <1>2
<1>4. Len(scopes) + 1 \notin 1 .. Len(scopes)
  BY <1>1
<1>5. ASSUME NEW what
      PROVE  Owners(what)' = Owners(what) \cup {i \in {Len(scopes) + 1} : s.what = what /\ s.owns}
  BY <1>2, <1>3, <1>4 DEF Owners
<1>6. Listing' = Listing \cup {i \in {Len(scopes) + 1} : s.pops}
  BY <1>2, <1>3, <1>4 DEF Listing
<1> QED
  BY <1>2, <1>5, <1>6

\* The youngest one goes.
LEMMA ScopeLeft ==
    ASSUME RuntimeInv, scopes # <<>>, scopes' = Front(scopes)
    PROVE  /\ scopes' \in Seq(Scopes) /\ Len(scopes') = Len(scopes) - 1 /\ Len(scopes) \in Nat \ {0}
           /\ \A i \in 1 .. Len(scopes) - 1 : scopes'[i] = scopes[i]
           /\ \A what : Owners(what)' = Owners(what) \ {Len(scopes)}
           /\ Listing' = Listing \ {Len(scopes)}
<1>1. scopes \in Seq(Scopes) /\ Len(scopes) \in Nat /\ Len(scopes) # 0
  BY DEF RuntimeInv, RuntimeTypes
<1>2. /\ scopes' \in Seq(Scopes) /\ Len(scopes') = Len(scopes) - 1
      /\ \A i \in 1 .. Len(scopes) - 1 : scopes'[i] = scopes[i]
  <2>1. scopes' = SubSeq(scopes, 1, Len(scopes) - 1)
    BY DEF Front
  <2>2. scopes' \in Seq(Scopes)
    BY <1>1, <2>1
  <2>3. Len(scopes') = Len(scopes) - 1
    <3>1. PICK n \in Nat : n = Len(scopes) /\ n # 0
      BY <1>1
    <3>2. Len(scopes') = IF 1 <= n - 1 THEN n - 1 ELSE 0
      BY <1>1, <2>1, <3>1
    <3>3. (IF 1 <= n - 1 THEN n - 1 ELSE 0) = n - 1
      BY <3>1
    <3> QED
      BY <3>1, <3>2, <3>3
  <2>4. \A i \in 1 .. Len(scopes) - 1 : scopes'[i] = scopes[i]
    BY <1>1, <2>1
  <2> QED
    BY <2>2, <2>3, <2>4
<1>3. 1 .. Len(scopes') = (1 .. Len(scopes)) \ {Len(scopes)}
  BY <1>1, <1>2
<1>4. \A i \in 1 .. Len(scopes') : scopes'[i] = scopes[i]
  BY <1>2
<1>5. ASSUME NEW what
      PROVE  Owners(what)' = Owners(what) \ {Len(scopes)}
  BY <1>3, <1>4 DEF Owners
<1>6. Listing' = Listing \ {Len(scopes)}
  BY <1>3, <1>4 DEF Listing
<1> QED
  BY <1>1, <1>2, <1>5, <1>6

\* Of the list: nobody comes or goes who adds to it, ...
LEMMA ListStays ==
    ASSUME RuntimeInv, registered' = registered, Listing' = Listing,
           \A i \in Listing : scopes'[i].what = scopes[i].what
    PROVE  ListInOrder'
<1>1. PICK by \in [1 .. Len(registered) -> Listing] : ListedBy(by)
  BY DEF RuntimeInv, ListInOrder
<1>2. ListedBy(by)'
  BY <1>1 DEF ListedBy
<1>3. by \in [1 .. Len(registered') -> Listing']
  BY <1>1
<1> QED
  BY <1>2, <1>3 DEF ListInOrder

\* ... one comes, ...
LEMMA ListGrows ==
    ASSUME RuntimeInv, NEW e \in Entries, NEW n \in Nat,
           registered' = Append(registered, e), Listing' = Listing \cup {n},
           \A i \in Listing : i < n /\ scopes'[i].what = scopes[i].what,
           scopes'[n].what = e[1]
    PROVE  ListInOrder'
<1> DEFINE m == Len(registered)
<1>1. PICK by \in [1 .. m -> Listing] : ListedBy(by)
  BY DEF RuntimeInv, ListInOrder
<1>places. PICK places : places = [k \in 1 .. m + 1 |-> IF k = m + 1 THEN n ELSE by[k]]
  OBVIOUS
<1>2. registered \in Seq(Entries) /\ m \in Nat
  BY DEF RuntimeInv, RuntimeTypes
<1>3. /\ Len(registered') = m + 1 /\ registered'[m + 1] = e
      /\ \A k \in 1 .. m : registered'[k] = registered[k]
  BY <1>2
<1>4. places[m + 1] = n /\ \A k \in 1 .. m : places[k] = by[k]
  BY <1>2, <1>places
<1>5. 1 .. m + 1 = (1 .. m) \cup {m + 1}
  BY <1>2
<1>6. places \in [1 .. m + 1 -> Listing']
  BY <1>1, <1>5, <1>places
<1>7. ListedBy(places)'
  <2>1. \A k, l \in 1 .. m + 1 : k < l => places[k] < places[l]
    <3> SUFFICES ASSUME NEW k \in 1 .. m + 1, NEW l \in 1 .. m + 1, k < l PROVE places[k] < places[l]
      OBVIOUS
    <3>1. k \in 1 .. m
      BY <1>2
    <3>2. CASE l = m + 1
      BY <1>1, <1>4, <3>1, <3>2
    <3>3. CASE l \in 1 .. m
      BY <1>1, <1>4, <3>1, <3>3 DEF ListedBy
    <3> QED
      BY <1>5, <3>2, <3>3
  <2>2. \A i \in Listing' : \E k \in 1 .. m + 1 : places[k] = i
    BY <1>1, <1>2, <1>4, <1>5 DEF ListedBy
  <2>3. \A k \in 1 .. m + 1 : registered'[k][1] = scopes'[places[k]].what
    <3> SUFFICES ASSUME NEW k \in 1 .. m + 1 PROVE registered'[k][1] = scopes'[places[k]].what
      OBVIOUS
    <3>1. CASE k = m + 1
      BY <1>3, <1>4, <3>1
    <3>2. CASE k \in 1 .. m
      BY <1>1, <1>3, <1>4, <3>2 DEF ListedBy
    <3> QED
      BY <1>5, <3>1, <3>2
  <2> QED
    BY <1>3, <2>1, <2>2, <2>3 DEF ListedBy
<1> QED
  BY <1>3, <1>6, <1>7 DEF ListInOrder

\* ... or the last one goes.
LEMMA ListShrinks ==
    ASSUME RuntimeInv, NEW n \in Listing, \A i \in Listing : i <= n,
           registered' = Front(registered), Listing' = Listing \ {n},
           \A i \in Listing \ {n} : scopes'[i].what = scopes[i].what
    PROVE  registered' \in Seq(Entries) /\ ListInOrder'
<1> DEFINE m == Len(registered)
<1>1. PICK by \in [1 .. m -> Listing] : ListedBy(by)
  BY DEF RuntimeInv, ListInOrder
<1>2. registered \in Seq(Entries) /\ m \in Nat
  BY DEF RuntimeInv, RuntimeTypes
<1>3. PICK last \in 1 .. m : by[last] = n
  BY <1>1 DEF ListedBy
<1>4. m > 0 /\ last = m
  <2>1. m > 0
    BY <1>2, <1>3
  <2>2. Listing \subseteq Int
    BY DEF Listing
  <2>3. ~ last < m
    <3> SUFFICES ASSUME last < m PROVE FALSE
      OBVIOUS
    <3>1. m \in 1 .. m
      BY <1>2, <2>1
    <3>2. by[last] < by[m] /\ by[m] \in Listing
      BY <1>1, <1>3, <3>1 DEF ListedBy
    <3>3. by[m] <= n /\ n < by[m]
      BY <1>3, <3>2
    <3>4. n \in Int /\ by[m] \in Int
      BY <2>2, <3>2
    <3> QED
      BY <3>3, <3>4
  <2> QED
    BY <1>2, <2>1, <2>3
<1>5. /\ registered' \in Seq(Entries) /\ Len(registered') = m - 1
      /\ \A k \in 1 .. m - 1 : registered'[k] = registered[k]
  BY <1>2, <1>4 DEF Front
<1>places. PICK places : places = [k \in 1 .. m - 1 |-> by[k]]
  OBVIOUS
<1>6. \A k \in 1 .. m - 1 : k \in 1 .. m /\ k < m /\ m \in 1 .. m
  BY <1>2, <1>4
<1>7. \A k \in 1 .. m - 1 : by[k] \in Listing \ {n}
  <2> SUFFICES ASSUME NEW k \in 1 .. m - 1 PROVE by[k] \in Listing \ {n}
    OBVIOUS
  <2>1. by[k] < by[m] /\ by[k] \in Listing
    BY <1>1, <1>6 DEF ListedBy
  <2>2. by[k] \in Int
    BY <2>1 DEF Listing
  <2> QED
    BY <1>3, <1>4, <2>1, <2>2
<1>8. places \in [1 .. m - 1 -> Listing'] /\ \A k \in 1 .. m - 1 : places[k] = by[k]
  BY <1>7, <1>places
<1>9. ListedBy(places)'
  <2>1. \A k, l \in 1 .. m - 1 : k < l => places[k] < places[l]
    BY <1>1, <1>6, <1>8 DEF ListedBy
  <2>2. \A i \in Listing' : \E k \in 1 .. m - 1 : places[k] = i
    <3> SUFFICES ASSUME NEW i \in Listing \ {n} PROVE \E k \in 1 .. m - 1 : places[k] = i
      OBVIOUS
    <3>1. PICK k \in 1 .. m : by[k] = i
      BY <1>1 DEF ListedBy
    <3>2. k \in 1 .. m - 1
      BY <1>2, <1>3, <1>4, <3>1
    <3> QED
      BY <1>8, <3>1, <3>2
  <2>3. \A k \in 1 .. m - 1 : registered'[k][1] = scopes'[places[k]].what
    <3> SUFFICES ASSUME NEW k \in 1 .. m - 1 PROVE registered'[k][1] = scopes'[places[k]].what
      OBVIOUS
    <3>1. registered[k][1] = scopes[by[k]].what
      BY <1>1, <1>6 DEF ListedBy
    <3>2. scopes'[by[k]].what = scopes[by[k]].what
      BY <1>7
    <3> QED
      BY <1>5, <1>8, <3>1, <3>2
  <2> QED
    BY <1>5, <2>1, <2>2, <2>3 DEF ListedBy
<1> QED
  BY <1>5, <1>8, <1>9 DEF ListInOrder

LEMMA EntriesStay == env' = env => Entries' = Entries
  BY DEF Entries, getenv_with_default

\* Nothing but the values of instances changes.
LEMMA SameScopes ==
    ASSUME RuntimeInv, UNCHANGED <<env, registered, scopes>>, DOMAIN option' = OptionNames,
           \A o \in OptionNames : initialized(o)' <=> initialized(o),
           mpi' \in {mpi, "died"}
    PROVE  RuntimeInv'
<1>1. Listing' = Listing /\ \A what : Owners(what)' = Owners(what)
  BY DEF Listing, Owners
<1>2. ListInOrder'
  BY <1>1, ListStays
<1>3. RuntimeTypes'
  BY EntriesStay DEF RuntimeInv, RuntimeTypes
<1>4. AddersOwn' /\ OwnedByOne'
  BY <1>1 DEF RuntimeInv, AddersOwn, OwnedByOne
<1>5. OptionsHeld'
  BY <1>1 DEF RuntimeInv, OptionsHeld
<1>6. MpiHeld'
  BY <1>1 DEF RuntimeInv, MpiHeld
<1> QED
  BY <1>2, <1>3, <1>4, <1>5, <1>6 DEF RuntimeInv

\* An initialiser comes that makes an instance of o if there is none, and adds
\* an entry only if it does.
LEMMA OptionEntered ==
    ASSUME RuntimeInv, NEW o \in OptionNames, NEW s \in Scopes, NEW instance, NEW e \in Entries,
           s.what = o, s.owns = ~ initialized(o), s.pops => s.owns, instance # None, e[1] = o,
           scopes' = Append(scopes, s),
           option' = IF initialized(o) THEN option ELSE [option EXCEPT ![o] = instance],
           registered' = IF s.pops THEN Append(registered, e) ELSE registered,
           UNCHANGED <<env, mpi>>
    PROVE  RuntimeInv'
<1> DEFINE n == Len(scopes) + 1
<1>1. /\ scopes' \in Seq(Scopes) /\ Len(scopes') = n
      /\ scopes'[n] = s
      /\ \A i \in 1 .. Len(scopes) : scopes'[i] = scopes[i]
      /\ \A what : Owners(what)' = Owners(what) \cup {i \in {n} : s.what = what /\ s.owns}
      /\ Listing' = Listing \cup {i \in {n} : s.pops}
  BY ScopeEntered
<1>2. Len(scopes) \in Nat /\ registered \in Seq(Entries) /\ DOMAIN option = OptionNames
  BY DEF RuntimeInv, RuntimeTypes
<1>3. \A what : what # o => Owners(what)' = Owners(what)
  BY <1>1
<1>4. Owners(o)' = IF initialized(o) THEN Owners(o) ELSE {n}
  <2>1. ~ initialized(o) => Owners(o) = {}
    BY DEF RuntimeInv, OptionsHeld
  <2> QED
    BY <1>1, <2>1
<1>5. RuntimeTypes'
  BY <1>1, <1>2, EntriesStay DEF RuntimeTypes
<1>6. \A i \in Listing : i < n /\ scopes'[i] = scopes[i]
  BY <1>1, <1>2 DEF Listing
<1>7. AddersOwn'
  <2> SUFFICES ASSUME NEW i \in Listing' PROVE scopes'[i].owns /\ scopes'[i].what \in OptionNames
    BY DEF AddersOwn
  <2>1. CASE i \in Listing
    BY <1>6, <2>1 DEF RuntimeInv, AddersOwn
  <2>2. CASE i = n /\ s.pops
    BY <1>1, <2>2
  <2> QED
    BY <1>1, <2>1, <2>2
<1>8. OwnedByOne'
  BY <1>3, <1>4 DEF RuntimeInv, OwnedByOne
<1>9. OptionsHeld'
  <2> SUFFICES ASSUME NEW p \in OptionNames PROVE initialized(p)' <=> Owners(p)' # {}
    BY DEF OptionsHeld
  <2>1. CASE p = o
    BY <1>2, <1>4, <2>1 DEF RuntimeInv, OptionsHeld, initialized
  <2>2. CASE p # o
    BY <1>2, <1>3, <2>2 DEF RuntimeInv, OptionsHeld, initialized
  <2> QED
    BY <2>1, <2>2
<1>10. MpiHeld'
  BY <1>3, SubjectsApart DEF RuntimeInv, MpiHeld
<1>11. ListInOrder'
  <2>1. CASE s.pops
    <3>1. Listing' = Listing \cup {n} /\ n \in Nat
      BY <1>1, <1>2, <2>1
    <3>2. scopes'[n].what = e[1]
      BY <1>1
    <3>3. registered' = Append(registered, e)
      BY <2>1
    <3>4. \A i \in Listing : i < n /\ scopes'[i].what = scopes[i].what
      BY <1>6
    <3> HIDE DEF n
    <3> QED
      BY <3>1, <3>2, <3>3, <3>4, ListGrows
  <2>2. CASE ~ s.pops
    BY <1>1, <1>6, <2>2, ListStays
  <2> QED
    BY <2>1, <2>2
<1> QED
  BY <1>5, <1>7, <1>8, <1>9, <1>10, <1>11 DEF RuntimeInv

LEMMA InitOptionStep ==
    ASSUME RuntimeInv, NEW o \in OptionNames, InitOption(o) PROVE RuntimeInv'
<1> DEFINE val == getenv_with_default(o)
<1>1. CASE val = None
  BY <1>1, SameScopes DEF InitOption, RuntimeInv, RuntimeTypes, initialized
<1>2. CASE val # None
  <2> DEFINE s == Scope(o, ~ initialized(o), ~ initialized(o))
  <2>1. s \in Scopes /\ s.what = o /\ s.owns = ~ initialized(o) /\ s.pops = ~ initialized(o)
    BY SubjectsApart, ScopeIs DEF initialized
  <2>2. <<o, val>> \in Entries /\ <<o, val>>[1] = o
    BY DEF Entries
  <2>3. /\ scopes' = Append(scopes, s)
        /\ option' = IF initialized(o) THEN option ELSE [option EXCEPT ![o] = val]
        /\ registered' = IF initialized(o) THEN registered ELSE Append(registered, <<o, val>>)
        /\ UNCHANGED <<env, mpi>>
    BY <1>2 DEF InitOption, EnterScope
  <2> HIDE DEF s, val
  <2> QED
    BY <1>2, <2>1, <2>2, <2>3, OptionEntered
<1> QED
  BY <1>1, <1>2

LEMMA DefaultsAre == \A o \in OptionNames : default_value(o) # None
  BY DEF default_value, None, OptionNames

LEMMA InitSingletonStep ==
    ASSUME RuntimeInv, NEW o \in OptionNames, InitSingleton(o) PROVE RuntimeInv'
<1> DEFINE s == Scope(o, ~ initialized(o), FALSE)
<1>1. s \in Scopes /\ s.what = o /\ s.owns = ~ initialized(o) /\ s.pops = FALSE
  BY SubjectsApart, ScopeIs DEF initialized
<1>2. PICK e \in Entries : e[1] = o
  <2>1. <<o, getenv_with_default(o)>> \in Entries /\ <<o, getenv_with_default(o)>>[1] = o
    BY DEF Entries
  <2> QED
    BY <2>1
<1>3. /\ scopes' = Append(scopes, s)
      /\ option' = IF initialized(o) THEN option ELSE [option EXCEPT ![o] = default_value(o)]
      /\ UNCHANGED <<env, registered, mpi>>
  BY DEF InitSingleton, EnterScope
<1> HIDE DEF s
<1> QED
  BY <1>1, <1>2, <1>3, DefaultsAre, OptionEntered

LEMMA InitMpiStep == ASSUME RuntimeInv, InitMpi PROVE RuntimeInv'
<1> DEFINE s == Scope("mpi", mpi = "none", FALSE)
           n == Len(scopes) + 1
<1>1. s \in Scopes /\ s.what = "mpi" /\ s.owns = (mpi = "none") /\ s.pops = FALSE
  BY SubjectsApart, ScopeIs
<1>2. scopes' = Append(scopes, s)
  BY DEF InitMpi, EnterScope
<1>3. UNCHANGED <<env, option, registered>> /\ mpi # "died"
  BY DEF InitMpi
<1>4. mpi' = IF mpi = "none" THEN "running" ELSE mpi
  BY DEF InitMpi
<1> HIDE DEF s
<1>5. /\ scopes' \in Seq(Scopes) /\ Len(scopes') = n
      /\ scopes'[n] = s
      /\ \A i \in 1 .. Len(scopes) : scopes'[i] = scopes[i]
      /\ \A what : Owners(what)' = Owners(what) \cup {i \in {n} : s.what = what /\ s.owns}
      /\ Listing' = Listing \cup {i \in {n} : s.pops}
  BY <1>1, <1>2, ScopeEntered
<1>6. Listing' = Listing /\ \A i \in Listing : scopes'[i] = scopes[i]
  BY <1>1, <1>5 DEF Listing
<1>7. \A what : what # "mpi" => Owners(what)' = Owners(what)
  BY <1>1, <1>5
<1>8. Owners("mpi")' = IF mpi = "none" THEN {n} ELSE Owners("mpi")
  <2>1. mpi = "none" => Owners("mpi") = {}
    BY DEF RuntimeInv, MpiHeld
  <2> QED
    BY <1>1, <1>5, <2>1
<1>9. RuntimeTypes'
  BY <1>3, <1>5, EntriesStay DEF RuntimeInv, RuntimeTypes
<1>10. AddersOwn'
  BY <1>6 DEF RuntimeInv, AddersOwn
<1>11. OwnedByOne'
  BY <1>7, <1>8 DEF RuntimeInv, OwnedByOne
<1>12. OptionsHeld'
  BY <1>3, <1>7, SubjectsApart DEF RuntimeInv, OptionsHeld, initialized
<1>13. MpiHeld'
  BY <1>3, <1>4, <1>8 DEF RuntimeInv, MpiHeld
<1>14. ListInOrder'
  BY <1>3, <1>6, ListStays
<1> QED
  BY <1>9, <1>10, <1>11, <1>12, <1>13, <1>14 DEF RuntimeInv

LEMMA MoveMpiStep == ASSUME RuntimeInv, MoveMpi PROVE RuntimeInv'
<1> DEFINE n    == Len(scopes)
           s    == Last(scopes)
           left == [scopes EXCEPT ![n].owns = FALSE]
<1>1. scopes \in Seq(Scopes) /\ n \in Nat /\ n # 0 /\ s = scopes[n] /\ s \in Scopes /\ n \in 1 .. n
  BY DEF MoveMpi, RuntimeInv, RuntimeTypes, Last
<1>2. s.what = "mpi" /\ scopes' = Append(left, s) /\ UNCHANGED <<env, option, registered, mpi>>
  BY DEF MoveMpi
<1>3. /\ left \in Seq(Scopes) /\ Len(left) = n
      /\ left[n] = [s EXCEPT !.owns = FALSE] /\ \A i \in 1 .. n - 1 : left[i] = scopes[i]
  <2>1. [s EXCEPT !.owns = FALSE] \in Scopes
    BY <1>1 DEF Scopes
  <2>2. scopes \in [1 .. n -> Scopes]
    BY <1>1
  <2>3. left = [scopes EXCEPT ![n] = [s EXCEPT !.owns = FALSE]]
    BY <1>1
  <2> HIDE DEF left
  <2>4. left \in [1 .. n -> Scopes]
    BY <2>1, <2>2, <2>3
  <2>5. left \in Seq(Scopes) /\ Len(left) = n
    BY <1>1, <2>4
  <2>6. left[n] = [s EXCEPT !.owns = FALSE]
    BY <1>1, <2>2, <2>3
  <2>7. \A i \in 1 .. n - 1 : left[i] = scopes[i]
    BY <1>1, <2>2, <2>3
  <2> QED
    BY <2>5, <2>6, <2>7
<1> HIDE DEF left
<1>4. /\ scopes' \in Seq(Scopes) /\ Len(scopes') = n + 1 /\ scopes'[n + 1] = s
      /\ scopes'[n] = [s EXCEPT !.owns = FALSE]
      /\ \A i \in 1 .. n - 1 : scopes'[i] = scopes[i]
  BY <1>1, <1>2, <1>3
<1>5. 1 .. Len(scopes') = (1 .. n - 1) \cup {n, n + 1} /\ 1 .. n = (1 .. n - 1) \cup {n}
  BY <1>1, <1>4
<1>6. scopes'[n].what = "mpi" /\ scopes'[n].owns = FALSE /\ scopes'[n].pops = s.pops
  BY <1>1, <1>2, <1>4 DEF Scopes
<1>7. s.pops = FALSE
  <2>1. s.pops \in BOOLEAN
    BY <1>1 DEF Scopes
  <2>2. s.pops => n \in Listing
    BY <1>1 DEF Listing
  <2> QED
    BY <1>1, <1>2, <2>1, <2>2, SubjectsApart DEF RuntimeInv, AddersOwn
<1>8. Listing' = Listing /\ \A i \in Listing : scopes'[i] = scopes[i]
  BY <1>1, <1>4, <1>5, <1>6, <1>7 DEF Listing
<1>9. \A what : what # "mpi" => Owners(what)' = Owners(what)
  <2> SUFFICES ASSUME NEW what, what # "mpi" PROVE Owners(what)' = Owners(what)
    OBVIOUS
  <2>1. n \notin Owners(what) /\ n \notin Owners(what)' /\ n + 1 \notin Owners(what)'
    BY <1>1, <1>2, <1>4, <1>6 DEF Owners
  <2>2. \A i \in 1 .. n - 1 : i \in Owners(what)' <=> i \in Owners(what)
    BY <1>4, <1>5 DEF Owners
  <2>3. Owners(what) \subseteq (1 .. n - 1) \cup {n} /\ Owners(what)' \subseteq (1 .. n - 1) \cup {n, n + 1}
    BY <1>5 DEF Owners
  <2> QED
    BY <2>1, <2>2, <2>3
<1>10. Owners("mpi")' = IF s.owns THEN {n + 1} ELSE Owners("mpi")
  <2>1. s.owns => Owners("mpi") = {n}
    BY <1>1, <1>2, SubjectsApart DEF RuntimeInv, OwnedByOne, Owners
  <2>2. CASE s.owns
    <3>1. n + 1 \in Owners("mpi")' /\ n \notin Owners("mpi")'
      BY <1>1, <1>2, <1>4, <1>5, <1>6, <2>2 DEF Owners
    <3>2. \A i \in 1 .. n - 1 : i \notin Owners("mpi")
      BY <1>1, <2>1, <2>2
    <3>3. \A i \in 1 .. n - 1 : i \notin Owners("mpi")'
      BY <1>4, <1>5, <3>2 DEF Owners
    <3>4. Owners("mpi")' \subseteq (1 .. n - 1) \cup {n, n + 1}
      BY <1>5 DEF Owners
    <3> QED
      BY <2>2, <3>1, <3>3, <3>4
  <2>3. CASE ~ s.owns
    <3>1. n \notin Owners("mpi") /\ n \notin Owners("mpi")' /\ n + 1 \notin Owners("mpi")'
      BY <1>1, <1>4, <1>6, <2>3 DEF Owners
    <3>2. \A i \in 1 .. n - 1 : i \in Owners("mpi")' <=> i \in Owners("mpi")
      BY <1>4, <1>5 DEF Owners
    <3>3. /\ Owners("mpi") \subseteq (1 .. n - 1) \cup {n}
          /\ Owners("mpi")' \subseteq (1 .. n - 1) \cup {n, n + 1}
      BY <1>5 DEF Owners
    <3> QED
      BY <2>3, <3>1, <3>2, <3>3
  <2> QED
    BY <2>2, <2>3
<1>11. Owners("mpi")' = {} <=> Owners("mpi") = {}
  BY <1>1, <1>2, <1>10 DEF Owners
<1>12. RuntimeTypes'
  BY <1>2, <1>4, EntriesStay DEF RuntimeInv, RuntimeTypes
<1>13. AddersOwn'
  BY <1>8 DEF RuntimeInv, AddersOwn
<1>14. OwnedByOne'
  BY <1>9, <1>10 DEF RuntimeInv, OwnedByOne
<1>15. OptionsHeld'
  BY <1>2, <1>9, SubjectsApart DEF RuntimeInv, OptionsHeld, initialized
<1>16. MpiHeld'
  BY <1>2, <1>11 DEF RuntimeInv, MpiHeld
<1>17. ListInOrder'
  BY <1>2, <1>8, ListStays
<1> QED
  BY <1>12, <1>13, <1>14, <1>15, <1>16, <1>17 DEF RuntimeInv

LEMMA SetOptionStep ==
    ASSUME RuntimeInv, NEW o \in OptionNames, SetOption(o) PROVE RuntimeInv'
<1>1. PICK val : val # None /\ option' = [option EXCEPT ![o] = val]
  BY DEF SetOption, default_value, None
<1>2. UNCHANGED <<env, registered, scopes, mpi>> /\ initialized(o)
  BY DEF SetOption
<1>3. DOMAIN option = OptionNames
  BY DEF RuntimeInv, RuntimeTypes
<1>4. \A p \in OptionNames : initialized(p)' <=> initialized(p)
  BY <1>1, <1>2, <1>3 DEF initialized
<1> QED
  BY <1>1, <1>2, <1>3, <1>4, SameScopes

LEMMA LeaveStep == ASSUME RuntimeInv, Leave PROVE RuntimeInv'
<1> DEFINE n == Len(scopes)
           s == Last(scopes)
<1>1. scopes # <<>> /\ scopes' = Front(scopes) /\ env' = env /\ mpi # "died"
  BY DEF Leave
<1>2. option' = IF s.owns /\ s.what # "mpi" THEN [option EXCEPT ![s.what] = None] ELSE option
  BY DEF Leave
<1>3. mpi' = IF s.owns /\ s.what = "mpi" THEN "finalized" ELSE mpi
  BY DEF Leave
<1>4. registered' = IF s.pops THEN Front(registered) ELSE registered
  BY DEF Leave, RegisteredWithout
<1>5. /\ scopes' \in Seq(Scopes) /\ Len(scopes') = n - 1 /\ n \in Nat \ {0}
      /\ \A i \in 1 .. n - 1 : scopes'[i] = scopes[i]
      /\ \A what : Owners(what)' = Owners(what) \ {n}
      /\ Listing' = Listing \ {n}
  BY <1>1, ScopeLeft
<1>6. scopes \in Seq(Scopes) /\ registered \in Seq(Entries) /\ DOMAIN option = OptionNames
  BY DEF RuntimeInv, RuntimeTypes
<1>7. s = scopes[n] /\ s \in Scopes /\ n \in 1 .. n
  BY <1>5, <1>6 DEF Last
<1> HIDE DEF s
<1>8. \A i \in Listing : i <= n /\ (i # n => scopes'[i] = scopes[i])
  BY <1>5 DEF Listing
<1>9. \A what \in Subjects :
         Owners(what)' = IF s.what = what /\ s.owns THEN {} ELSE Owners(what)
  <2> SUFFICES ASSUME NEW what \in Subjects
               PROVE  Owners(what)' = IF s.what = what /\ s.owns THEN {} ELSE Owners(what)
    OBVIOUS
  <2>1. n \in Owners(what) <=> s.what = what /\ s.owns
    BY <1>7 DEF Owners
  <2>2. \A i, j \in Owners(what) : i = j
    BY DEF RuntimeInv, OwnedByOne
  <2> QED
    BY <1>5, <2>1, <2>2
<1>10. n \in Listing <=> s.pops
  BY <1>7 DEF Listing
<1>11. s.what \in Subjects /\ (s.what # "mpi" => s.what \in OptionNames)
  BY <1>7 DEF Scopes, Subjects
<1>12. registered' \in Seq(Entries) /\ ListInOrder'
  <2>1. CASE s.pops
    BY <1>4, <1>5, <1>8, <1>10, <2>1, ListShrinks
  <2>2. CASE ~ s.pops
    BY <1>4, <1>5, <1>6, <1>8, <1>10, <2>2, ListStays
  <2> QED
    BY <2>1, <2>2
<1>13. RuntimeTypes'
  BY <1>1, <1>2, <1>5, <1>6, <1>12, EntriesStay DEF RuntimeTypes
<1>14. AddersOwn'
  BY <1>5, <1>8 DEF RuntimeInv, AddersOwn
<1>15. OwnedByOne'
  BY <1>9 DEF RuntimeInv, OwnedByOne
<1>16. OptionsHeld'
  <2> SUFFICES ASSUME NEW o \in OptionNames PROVE initialized(o)' <=> Owners(o)' # {}
    BY DEF OptionsHeld
  <2>1. o \in Subjects /\ o # "mpi"
    BY SubjectsApart
  <2>2. initialized(o) <=> Owners(o) # {}
    BY DEF RuntimeInv, OptionsHeld
  <2>3. CASE s.what = o /\ s.owns
    BY <1>2, <1>6, <1>9, <2>1, <2>3 DEF initialized
  <2>4. CASE ~ (s.what = o /\ s.owns)
    <3>1. Owners(o)' = Owners(o)
      BY <1>9, <2>1, <2>4
    <3>2. option'[o] = option[o]
      BY <1>2, <1>6, <2>4
    <3> QED
      BY <2>2, <3>1, <3>2 DEF initialized
  <2> QED
    BY <2>3, <2>4
<1>17. MpiHeld'
  BY <1>1, <1>3, <1>9, SubjectsApart DEF RuntimeInv, MpiHeld
<1> QED
  BY <1>12, <1>13, <1>14, <1>15, <1>16, <1>17 DEF RuntimeInv

LEMMA StepRuntimeInv == RuntimeInv /\ [RuntimeNext]_runtimeVars => RuntimeInv'
<1> SUFFICES ASSUME RuntimeInv, [RuntimeNext]_runtimeVars PROVE RuntimeInv'
  OBVIOUS
<1>1. CASE UNCHANGED runtimeVars
  BY <1>1, SameScopes DEF runtimeVars, RuntimeInv, RuntimeTypes, initialized
<1>2. CASE RuntimeNext
  BY <1>2, InitMpiStep, MoveMpiStep, LeaveStep, InitOptionStep, InitSingletonStep, SetOptionStep
     DEF RuntimeNext
<1> QED
  BY <1>1, <1>2

\* However many initialisers there are, how deep they are nested, and whatever
\* the environment says: what is set up has one initialiser that takes it
\* down, and the list goes with the instances (options.hpp, singleton.hpp,
\* mpi/runtime.hpp).
THEOREM OwnersAlwaysFinalise == RuntimeSpec => []OwnersFinalise
<1>1. RuntimeInv => OwnersFinalise
  BY RuntimeInvFinalises
<1> QED
  BY <1>1, InitRuntimeInv, StepRuntimeInv, PTL DEF RuntimeSpec

-----------------------------------------------------------------------------
(* Deferred files, for any number of objects and descriptors, and a        *)
(* payload of any length.  The invariant adds to DescriptorsOwned that a   *)
(* call that has begun has a descriptor, whose position is where the call  *)
(* is; nobody else moves it, as nobody else holds the descriptor.          *)

CallsInProgress ==
    [op : {"pread", "pwrite"}, off : Nat, len : Nat, buf : Seq(Nat), done : Nat, begun : BOOLEAN]
CallsReturned == [op : {"none"}, result : Int]

FileTypes ==
    /\ file \in Seq(Nat)
    /\ DOMAIN fds \subseteq Fds /\ \A f \in DOMAIN fds : fds[f] \in Nat
    /\ handle \in [Objects -> Fds \cup {NotOpen, INVALID}]
    /\ calls \in [Objects -> CallsInProgress \cup CallsReturned]

\* The call of object o is as far as its descriptor.
CallInPlace(o) ==
    InCall(o) =>
        /\ calls[o].done <= calls[o].len /\ calls[o].len <= Len(Payload)
        /\ ~ calls[o].begun => calls[o].done = 0
        /\ calls[o].begun => handle[o] \in Fds /\ Pos(o) = calls[o].off + calls[o].done
        /\ calls[o].op = "pread" => Len(calls[o].buf) = calls[o].done

FileInv == FileTypes /\ DescriptorsOwned /\ \A o \in Objects : CallInPlace(o)

LEMMA NoDescriptors == NotOpen \notin Fds /\ INVALID \notin Fds /\ NotOpen # INVALID
  BY FileAssumption DEF NotOpen, INVALID

LEMMA LeastUnused == Unused # {} => Least(Unused) \in Fds \ DOMAIN fds
<1> SUFFICES ASSUME Unused # {} PROVE Least(Unused) \in Fds \ DOMAIN fds
  OBVIOUS
<1>1. Unused \in SUBSET Nat
  BY FileAssumption DEF Unused
<1>2. \E n \in Unused : \A m \in Unused : n <= m
  BY <1>1, LeastNumber
<1>3. Least(Unused) \in Unused
  BY <1>2 DEF Least
<1> QED
  BY <1>3 DEF Unused

LEMMA ReturnedIs ==
    ASSUME NEW n \in Int
    PROVE  Returned(n) \in CallsReturned /\ Returned(n).op = "none" /\ Returned(n).result = n
  BY DEF Returned, CallsReturned

\* A call in progress is a record of one.
LEMMA CallIs ==
    ASSUME FileInv, NEW o \in Objects, InCall(o)
    PROVE  /\ calls[o] \in CallsInProgress
           /\ calls[o].op \in {"pread", "pwrite"} /\ calls[o].off \in Nat /\ calls[o].len \in Nat
           /\ calls[o].buf \in Seq(Nat) /\ calls[o].done \in Nat /\ calls[o].begun \in BOOLEAN
<1>1. calls[o] \in CallsInProgress \cup CallsReturned
  BY DEF FileInv, FileTypes
<1>2. calls[o] \notin CallsReturned
  BY DEF InCall, CallsReturned
<1>3. calls[o] \in CallsInProgress
  BY <1>1, <1>2
<1> QED
  BY <1>3 DEF CallsInProgress

LEMMA HandlesDistinct ==
    ASSUME FileInv
    PROVE  /\ \A o \in Objects : handle[o] \in Fds => handle[o] \in DOMAIN fds
           /\ \A o, p \in Objects : o # p /\ handle[o] \in Fds => handle[p] # handle[o]
<1>1. \A o \in Objects : handle[o] \in Fds => handle[o] \in DOMAIN fds
  BY DEF FileInv, DescriptorsOwned
<1>2. ASSUME NEW o \in Objects, NEW p \in Objects, o # p, handle[o] \in Fds, handle[p] = handle[o]
      PROVE  FALSE
  <2>1. PICK q \in Objects : handle[q] = handle[o] /\ \A r \in Objects \ {q} : handle[r] # handle[o]
    BY <1>1, <1>2 DEF FileInv, DescriptorsOwned
  <2> QED
    BY <1>2, <2>1
<1> QED
  BY <1>1, <1>2

-----------------------------------------------------------------------------
(* What happens to descriptors and handles: nothing, ...                   *)

LEMMA DescriptorsStay ==
    ASSUME FileInv, handle' = handle, DOMAIN fds' = DOMAIN fds
    PROVE  DescriptorsOwned'
  BY DEF FileInv, DescriptorsOwned

\* ... an object has a new one instead of what it had, ...
LEMMA DescriptorAcquired ==
    ASSUME FileInv, NEW o \in Objects, NEW fd \in Fds \ DOMAIN fds,
           handle' = [handle EXCEPT ![o] = fd],
           DOMAIN fds' = (DOMAIN fds \ {handle[o]}) \cup {fd}
    PROVE  DescriptorsOwned'
<1>1. handle'[o] = fd /\ \A p \in Objects \ {o} : handle'[p] = handle[p]
  BY DEF FileInv, FileTypes
<1>2. \A p \in Objects : handle[p] # fd
  BY HandlesDistinct
<1>3. ASSUME NEW f \in DOMAIN fds'
      PROVE  \E p \in Objects : handle'[p] = f /\ \A q \in Objects \ {p} : handle'[q] # f
  <2>1. CASE f = fd
    BY <1>1, <1>2, <2>1
  <2>2. CASE f # fd
    <3>1. f \in DOMAIN fds /\ f # handle[o]
      BY <2>2
    <3>2. PICK p \in Objects : handle[p] = f /\ \A q \in Objects \ {p} : handle[q] # f
      BY <3>1 DEF FileInv, DescriptorsOwned
    <3> QED
      BY <1>1, <2>2, <3>1, <3>2
  <2> QED
    BY <2>1, <2>2
<1>4. ASSUME NEW p \in Objects, handle'[p] \in Fds PROVE handle'[p] \in DOMAIN fds'
  <2>1. CASE p = o
    BY <1>1, <2>1
  <2>2. CASE p # o
    <3>1. handle'[p] = handle[p] /\ handle[p] \in DOMAIN fds /\ handle[o] # handle[p]
      BY <1>1, <1>4, <2>2, HandlesDistinct
    <3> QED
      BY <3>1
  <2> QED
    BY <2>1, <2>2
<1> QED
  BY <1>3, <1>4 DEF DescriptorsOwned

\* ... it has none any more, ...
LEMMA DescriptorReleased ==
    ASSUME FileInv, NEW o \in Objects, NEW h, h \notin Fds,
           handle' = [handle EXCEPT ![o] = h],
           DOMAIN fds' = DOMAIN fds \ {handle[o]}
    PROVE  DescriptorsOwned'
<1>1. handle'[o] = h /\ \A p \in Objects \ {o} : handle'[p] = handle[p]
  BY DEF FileInv, FileTypes
<1>2. DOMAIN fds \subseteq Fds
  BY DEF FileInv, FileTypes
<1>3. ASSUME NEW f \in DOMAIN fds'
      PROVE  \E p \in Objects : handle'[p] = f /\ \A q \in Objects \ {p} : handle'[q] # f
  <2>1. f \in DOMAIN fds /\ f # handle[o] /\ f # h
    BY <1>2
  <2>2. PICK p \in Objects : handle[p] = f /\ \A q \in Objects \ {p} : handle[q] # f
    BY <2>1 DEF FileInv, DescriptorsOwned
  <2> QED
    BY <1>1, <2>1, <2>2
<1>4. ASSUME NEW p \in Objects, handle'[p] \in Fds PROVE handle'[p] \in DOMAIN fds'
  <2>1. p # o
    BY <1>1, <1>4
  <2>2. handle'[p] = handle[p] /\ handle[p] \in DOMAIN fds /\ handle[o] # handle[p]
    BY <1>1, <1>4, <2>1, HandlesDistinct
  <2> QED
    BY <2>2
<1> QED
  BY <1>3, <1>4 DEF DescriptorsOwned

\* ... or gives what it has to another one.
LEMMA DescriptorMoved ==
    ASSUME FileInv, NEW o \in Objects, NEW p \in Objects, o # p,
           handle' = [handle EXCEPT ![o] = INVALID, ![p] = handle[o]],
           DOMAIN fds' = DOMAIN fds \ {handle[p]}
    PROVE  DescriptorsOwned'
<1>1. /\ handle'[o] = INVALID /\ handle'[p] = handle[o]
      /\ \A q \in Objects \ {o, p} : handle'[q] = handle[q]
  BY DEF FileInv, FileTypes
<1>2. DOMAIN fds \subseteq Fds
  BY DEF FileInv, FileTypes
<1>3. ASSUME NEW f \in DOMAIN fds'
      PROVE  \E q \in Objects : handle'[q] = f /\ \A r \in Objects \ {q} : handle'[r] # f
  <2>1. f \in DOMAIN fds /\ f # handle[p] /\ f # INVALID
    BY <1>2, NoDescriptors
  <2>2. PICK q \in Objects : handle[q] = f /\ \A r \in Objects \ {q} : handle[r] # f
    BY <2>1 DEF FileInv, DescriptorsOwned
  <2>3. CASE q = o
    <3>1. handle'[p] = f
      BY <1>1, <2>2, <2>3
    <3>2. \A r \in Objects \ {p} : handle'[r] # f
      BY <1>1, <2>1, <2>2, <2>3
    <3> QED
      BY <3>1, <3>2
  <2>4. CASE q # o
    <3>1. q # p
      BY <2>1, <2>2
    <3>2. handle'[q] = f
      BY <1>1, <2>2, <2>4, <3>1
    <3>3. \A r \in Objects \ {q} : handle'[r] # f
      BY <1>1, <2>1, <2>2, <2>4
    <3> QED
      BY <3>2, <3>3
  <2> QED
    BY <2>3, <2>4
<1>4. ASSUME NEW q \in Objects, handle'[q] \in Fds PROVE handle'[q] \in DOMAIN fds'
  <2>1. q # o
    BY <1>1, <1>4, NoDescriptors
  <2>2. CASE q = p
    <3>1. handle[o] \in DOMAIN fds /\ handle[p] # handle[o]
      BY <1>1, <1>4, <2>2, HandlesDistinct
    <3> QED
      BY <1>1, <2>2, <3>1
  <2>3. CASE q # p
    <3>1. handle'[q] = handle[q] /\ handle[q] \in DOMAIN fds /\ handle[p] # handle[q]
      BY <1>1, <1>4, <2>1, <2>3, HandlesDistinct
    <3> QED
      BY <3>1
  <2> QED
    BY <2>2, <2>3
<1> QED
  BY <1>3, <1>4 DEF DescriptorsOwned

-----------------------------------------------------------------------------
(* Steps.  Each is of one object: the calls of the others are where they   *)
(* were, and so are their descriptors.                                     *)

LEMMA OneObjectSteps ==
    ASSUME FileInv, FileTypes', DescriptorsOwned', NEW o \in Objects, CallInPlace(o)',
           \A p \in Objects \ {o} :
              /\ calls'[p] = calls[p]
              /\ InCall(p) => handle'[p] = handle[p] /\ (handle[p] \in Fds => fds'[handle[p]] = fds[handle[p]])
    PROVE  FileInv'
<1>1. ASSUME NEW p \in Objects PROVE CallInPlace(p)'
  <2>1. CASE p = o
    BY <2>1
  <2>2. CASE p # o
    <3>1. CallInPlace(p) /\ calls'[p] = calls[p]
      BY <2>2 DEF FileInv
    <3>2. InCall(p) => handle'[p] = handle[p] /\ (handle[p] \in Fds => fds'[handle[p]] = fds[handle[p]])
      BY <2>2
    <3> QED
      BY <3>1, <3>2 DEF CallInPlace, InCall, Pos
  <2> QED
    BY <2>1, <2>2
<1> QED
  BY <1>1 DEF FileInv

\* The call of o returns, or it is not in one.
CallsSettle(o) ==
    /\ calls' \in [Objects -> CallsInProgress \cup CallsReturned]
    /\ \A p \in Objects \ {o} : calls'[p] = calls[p]
    /\ ~ InCall(o)'

LEMMA Settles ==
    ASSUME FileInv, NEW o \in Objects
    PROVE  /\ UNCHANGED calls /\ ~ InCall(o) => CallsSettle(o)
           /\ \A n \in Int : Finish(o, n) => CallsSettle(o)
<1>1. calls \in [Objects -> CallsInProgress \cup CallsReturned]
  BY DEF FileInv, FileTypes
<1>2. UNCHANGED calls /\ ~ InCall(o) => CallsSettle(o)
  BY <1>1 DEF CallsSettle, InCall
<1>3. ASSUME NEW n \in Int, Finish(o, n) PROVE CallsSettle(o)
  <2>1. Returned(n) \in CallsReturned /\ Returned(n).op = "none"
    BY ReturnedIs
  <2>2. calls' = [calls EXCEPT ![o] = Returned(n)]
    BY <1>3 DEF Finish
  <2>3. calls'[o] = Returned(n) /\ \A p \in Objects \ {o} : calls'[p] = calls[p]
    BY <1>1, <2>2
  <2>4. calls' \in [Objects -> CallsInProgress \cup CallsReturned]
    BY <1>1, <2>1, <2>2
  <2> QED
    BY <2>1, <2>3, <2>4 DEF CallsSettle, InCall
<1> QED
  BY <1>2, <1>3

\* With the descriptors as they are, ...
LEMMA SettledStep ==
    ASSUME FileInv, NEW o \in Objects, UNCHANGED <<fds, handle>>, file' \in Seq(Nat), CallsSettle(o)
    PROVE  FileInv'
<1>1. FileTypes'
  BY DEF FileInv, FileTypes, CallsSettle
<1>2. DescriptorsOwned'
  BY DescriptorsStay
<1> QED
  BY <1>1, <1>2, OneObjectSteps DEF CallsSettle, CallInPlace

\* ... with a new one, ...
LEMMA OpenedIs ==
    ASSUME FileInv, NEW o \in Objects, NEW fd \in Fds \ DOMAIN fds
    PROVE  /\ DOMAIN Opened(o, fd) = (DOMAIN fds \ {handle[o]}) \cup {fd}
           /\ Opened(o, fd)[fd] = 0
           /\ \A f \in DOMAIN fds \ {handle[o]} : Opened(o, fd)[f] = fds[f]
<1>1. DOMAIN fds \subseteq Fds
  BY DEF FileInv, FileTypes
<1>2. CASE handle[o] \in Fds
  BY <1>2 DEF Opened, Without
<1>3. CASE handle[o] \notin Fds
  BY <1>1, <1>3 DEF Opened, Without
<1> QED
  BY <1>2, <1>3

LEMMA OpenedStep ==
    ASSUME FileInv, NEW o \in Objects, CallsSettle(o), file' \in Seq(Nat), Unused # {},
           fds' = Opened(o, Least(Unused)), handle' = [handle EXCEPT ![o] = Least(Unused)]
    PROVE  FileInv'
<1>1. PICK fd \in Fds \ DOMAIN fds : fd = Least(Unused)
  BY LeastUnused
<1>2. /\ DOMAIN fds' = (DOMAIN fds \ {handle[o]}) \cup {fd}
      /\ fds'[fd] = 0
      /\ \A f \in DOMAIN fds \ {handle[o]} : fds'[f] = fds[f]
  <2>1. fds' = Opened(o, fd)
    BY <1>1
  <2>2. DOMAIN Opened(o, fd) = (DOMAIN fds \ {handle[o]}) \cup {fd}
    BY <1>1, OpenedIs
  <2>3. Opened(o, fd)[fd] = 0
    BY <1>1, OpenedIs
  <2>4. \A f \in DOMAIN fds \ {handle[o]} : Opened(o, fd)[f] = fds[f]
    BY <1>1, OpenedIs
  <2> QED
    BY <2>1, <2>2, <2>3, <2>4
<1>3. handle' = [handle EXCEPT ![o] = fd]
  BY <1>1
<1>4. DescriptorsOwned'
  BY <1>2, <1>3, DescriptorAcquired
<1>5. FileTypes'
  BY <1>2, <1>3 DEF FileInv, FileTypes, CallsSettle
<1>6. ASSUME NEW p \in Objects \ {o}
      PROVE  /\ calls'[p] = calls[p]
             /\ handle'[p] = handle[p] /\ (handle[p] \in Fds => fds'[handle[p]] = fds[handle[p]])
  <2>1. handle'[p] = handle[p]
    BY <1>3 DEF FileInv, FileTypes
  <2>2. handle[p] \in Fds => handle[p] \in DOMAIN fds \ {handle[o]}
    BY HandlesDistinct
  <2> QED
    BY <1>2, <2>1, <2>2 DEF CallsSettle
<1> QED
  BY <1>4, <1>5, <1>6, OneObjectSteps DEF CallsSettle, CallInPlace

LEMMA OpenStep == ASSUME FileInv, NEW o \in Objects, Open(o) PROVE FileInv'
<1>1. CallsSettle(o)
  BY Settles DEF Open
<1>2. file' \in Seq(Nat)
  BY DEF Open, FileInv, FileTypes
<1> QED
  BY <1>1, <1>2, OpenedStep DEF Open

LEMMA OpenAtFirstUseStep ==
    ASSUME FileInv, NEW o \in Objects, CallsSettle(o), file' \in Seq(Nat), OpenAtFirstUse(o)
    PROVE  FileInv'
<1>1. CASE IsOpen(o)
  BY <1>1, SettledStep DEF OpenAtFirstUse
<1>2. CASE ~ IsOpen(o)
  BY <1>2, OpenedStep DEF OpenAtFirstUse
<1> QED
  BY <1>1, <1>2

\* ... and with one less.
LEMMA WithoutIs ==
    ASSUME NEW fd
    PROVE  /\ DOMAIN Without(fd) = DOMAIN fds \ {fd}
           /\ \A f \in DOMAIN fds \ {fd} : Without(fd)[f] = fds[f]
  BY DEF Without

LEMMA ReleaseStep ==
    ASSUME FileInv, NEW o \in Objects, ~ InCall(o), NEW h \in {NotOpen, INVALID},
           fds' = Without(handle[o]), handle' = [handle EXCEPT ![o] = h], UNCHANGED <<file, calls>>
    PROVE  FileInv'
<1>1. DOMAIN fds' = DOMAIN fds \ {handle[o]} /\ \A f \in DOMAIN fds \ {handle[o]} : fds'[f] = fds[f]
  BY WithoutIs
<1>2. DescriptorsOwned'
  BY <1>1, NoDescriptors, DescriptorReleased
<1>3. FileTypes'
  BY <1>1 DEF FileInv, FileTypes
<1>4. ASSUME NEW p \in Objects \ {o}
      PROVE  handle'[p] = handle[p] /\ (handle[p] \in Fds => fds'[handle[p]] = fds[handle[p]])
  <2>1. handle'[p] = handle[p]
    BY DEF FileInv, FileTypes
  <2>2. handle[p] \in Fds => handle[p] \in DOMAIN fds \ {handle[o]}
    BY HandlesDistinct
  <2> QED
    BY <1>1, <2>1, <2>2
<1>5. CallInPlace(o)'
  BY DEF CallInPlace, InCall
<1> QED
  BY <1>2, <1>3, <1>4, <1>5, OneObjectSteps

LEMMA CloseStep == ASSUME FileInv, NEW o \in Objects, Close(o) PROVE FileInv'
  BY ReleaseStep DEF Close

LEMMA DestroyStep == ASSUME FileInv, NEW o \in Objects, Destroy(o) PROVE FileInv'
  BY ReleaseStep DEF Destroy

LEMMA MoveStep ==
    ASSUME FileInv, NEW o \in Objects, NEW p \in Objects, Move(o, p) PROVE FileInv'
<1>1. /\ o # p /\ ~ InCall(o) /\ ~ InCall(p)
      /\ fds' = Without(handle[p]) /\ handle' = [handle EXCEPT ![o] = INVALID, ![p] = handle[o]]
      /\ UNCHANGED <<file, calls>>
  BY DEF Move
<1>2. DOMAIN fds' = DOMAIN fds \ {handle[p]} /\ \A f \in DOMAIN fds \ {handle[p]} : fds'[f] = fds[f]
  BY <1>1, WithoutIs
<1>3. DescriptorsOwned'
  BY <1>1, <1>2, DescriptorMoved
<1>4. FileTypes'
  BY <1>1, <1>2 DEF FileInv, FileTypes
<1>5. ASSUME NEW q \in Objects \ {o}, InCall(q)
      PROVE  handle'[q] = handle[q] /\ (handle[q] \in Fds => fds'[handle[q]] = fds[handle[q]])
  <2>1. q # p
    BY <1>1, <1>5
  <2>2. handle'[q] = handle[q]
    BY <1>1, <2>1 DEF FileInv, FileTypes
  <2>3. handle[q] \in Fds => handle[q] \in DOMAIN fds \ {handle[p]}
    BY <2>1, HandlesDistinct
  <2> QED
    BY <1>2, <2>2, <2>3
<1>6. CallInPlace(o)'
  BY <1>1 DEF CallInPlace, InCall
<1> QED
  BY <1>1, <1>3, <1>4, <1>5, <1>6, OneObjectSteps

LEMMA EnterStep ==
    ASSUME FileInv, NEW o \in Objects, Enter(o) PROVE FileInv'
<1>1. PICK op \in {"pread", "pwrite"}, off \in Offsets, len \in 1 .. Len(Payload) :
          calls' = [calls EXCEPT ![o] = [op |-> op, off |-> off, len |-> len, buf |-> <<>>,
                                         done |-> 0, begun |-> FALSE]]
  BY DEF Enter
<1> DEFINE c == [op |-> op, off |-> off, len |-> len, buf |-> <<>>, done |-> 0, begun |-> FALSE]
<1>2. UNCHANGED <<file, fds, handle>>
  BY DEF Enter
<1>3. off \in Nat /\ len \in Nat
  BY FileAssumption
<1>4. c \in CallsInProgress /\ c.done = 0 /\ c.len = len /\ c.begun = FALSE /\ Len(c.buf) = 0
  BY <1>3 DEF CallsInProgress
<1> HIDE DEF c
<1>5. calls \in [Objects -> CallsInProgress \cup CallsReturned]
  BY DEF FileInv, FileTypes
<1>6. calls'[o] = c /\ \A p \in Objects \ {o} : calls'[p] = calls[p]
  BY <1>1, <1>5 DEF c
<1>7. calls' \in [Objects -> CallsInProgress \cup CallsReturned]
  BY <1>1, <1>4, <1>5 DEF c
<1>8. FileTypes'
  BY <1>2, <1>7 DEF FileInv, FileTypes
<1>9. DescriptorsOwned'
  BY <1>2, DescriptorsStay
<1>10. CallInPlace(o)'
  BY <1>3, <1>4, <1>6, FileAssumption DEF CallInPlace
<1> QED
  BY <1>2, <1>6, <1>8, <1>9, <1>10, OneObjectSteps

LEMMA BeginStep ==
    ASSUME FileInv, NEW o \in Objects, Begin(o) PROVE FileInv'
<1>0. PICK fd : fd = IF IsOpen(o) THEN handle[o] ELSE Least(Unused)
  OBVIOUS
<1>1. /\ InCall(o) /\ ~ calls[o].begun /\ handle[o] # INVALID /\ (IsOpen(o) \/ Unused # {})
      /\ fds' = [f \in DOMAIN fds \cup {fd} |-> IF f = fd THEN SeekTo(o) ELSE fds[f]]
      /\ handle' = [handle EXCEPT ![o] = fd]
      /\ calls' = [calls EXCEPT ![o].begun = TRUE] /\ file' = file
  BY <1>0 DEF Begin
<1>2. fd \in Fds /\ \A p \in Objects \ {o} : handle[p] # fd
  <2>1. handle[o] \in Fds \cup {NotOpen, INVALID}
    BY DEF FileInv, FileTypes
  <2>2. CASE IsOpen(o)
    BY <1>0, <1>1, <2>1, <2>2, HandlesDistinct DEF IsOpen
  <2>3. CASE ~ IsOpen(o)
    BY <1>0, <1>1, <2>3, LeastUnused, HandlesDistinct
  <2> QED
    BY <2>2, <2>3
<1>5. DescriptorsOwned'
  <2>1. CASE IsOpen(o)
    <3>1. fd = handle[o] /\ fd \in DOMAIN fds
      BY <1>0, <1>2, <2>1, HandlesDistinct
    <3>2. handle' = handle /\ DOMAIN fds' = DOMAIN fds
      BY <1>1, <3>1 DEF FileInv, FileTypes
    <3> QED
      BY <3>2, DescriptorsStay
  <2>2. CASE ~ IsOpen(o)
    <3>1. fd \in Fds \ DOMAIN fds
      BY <1>0, <1>1, <2>2, LeastUnused
    <3>2. handle[o] \notin DOMAIN fds
      BY <2>2, NoDescriptors DEF IsOpen, FileInv, FileTypes
    <3>3. DOMAIN fds' = (DOMAIN fds \ {handle[o]}) \cup {fd}
      BY <1>1, <3>2
    <3> QED
      BY <1>1, <3>1, <3>3, DescriptorAcquired
  <2> QED
    BY <2>1, <2>2
<1>6. DOMAIN fds' = DOMAIN fds \cup {fd} /\ fds'[fd] = SeekTo(o)
      /\ \A f \in DOMAIN fds \ {fd} : fds'[f] = fds[f]
  BY <1>1
<1>7. handle'[o] = fd /\ \A p \in Objects \ {o} : handle'[p] = handle[p]
  BY <1>1 DEF FileInv, FileTypes
<1>8. /\ calls[o] \in CallsInProgress
      /\ calls[o].op \in {"pread", "pwrite"} /\ calls[o].off \in Nat /\ calls[o].len \in Nat
      /\ calls[o].buf \in Seq(Nat) /\ calls[o].done \in Nat
  BY <1>1, CallIs
<1>9. /\ calls'[o] = [calls[o] EXCEPT !.begun = TRUE]
      /\ \A p \in Objects \ {o} : calls'[p] = calls[p]
      /\ [calls[o] EXCEPT !.begun = TRUE] \in CallsInProgress
  BY <1>1, <1>8 DEF FileInv, FileTypes, CallsInProgress
<1>10. calls' \in [Objects -> CallsInProgress \cup CallsReturned]
  BY <1>1, <1>9 DEF FileInv, FileTypes
<1>11. FileTypes'
  <2>1. SeekTo(o) \in Nat
    BY <1>8 DEF SeekTo
  <2> QED
    BY <1>1, <1>2, <1>6, <1>10, <2>1 DEF FileInv, FileTypes
<1>12. CallInPlace(o)'
  <2>1. CallInPlace(o)
    BY DEF FileInv
  <2>2. /\ calls'[o].done = calls[o].done /\ calls'[o].len = calls[o].len /\ calls'[o].begun = TRUE
        /\ calls'[o].op = calls[o].op /\ calls'[o].buf = calls[o].buf /\ calls'[o].off = calls[o].off
    BY <1>8, <1>9 DEF CallsInProgress
  <2>3. calls[o].done = 0
    BY <1>1, <2>1 DEF CallInPlace
  <2>4. Pos(o)' = calls[o].off
    BY <1>6, <1>7 DEF Pos, SeekTo
  <2> QED
    BY <1>1, <1>2, <1>7, <1>8, <2>1, <2>2, <2>3, <2>4 DEF CallInPlace
<1>13. ASSUME NEW p \in Objects \ {o}
       PROVE  handle'[p] = handle[p] /\ (handle[p] \in Fds => fds'[handle[p]] = fds[handle[p]])
  <2>1. handle[p] \in Fds => handle[p] \in DOMAIN fds \ {fd}
    BY <1>2, HandlesDistinct
  <2> QED
    BY <1>6, <1>7, <2>1
<1> QED
  BY <1>5, <1>9, <1>11, <1>12, <1>13, OneObjectSteps

-----------------------------------------------------------------------------
(* System calls that transfer something.                                   *)

\* An element of a part of a file.
LEMMA PartAt ==
    ASSUME NEW f \in Seq(Nat), NEW a \in Nat, NEW z \in Nat, NEW i \in 1 .. z - a + 1
    PROVE  SubSeq(f, a, z)[i] = f[i + a - 1]
  OBVIOUS

\* What has been read, and n more bytes of a file.
ReadOn(b, f, at, n) == SubSeq(b, 1, Len(b)) \o SubSeq(f, at + 1, at + n)

LEMMA ReadOnIs ==
    ASSUME NEW b \in Seq(Nat), NEW f \in Seq(Nat), NEW at \in Nat, NEW n \in Nat \ {0},
           at + n <= Len(f)
    PROVE  /\ ReadOn(b, f, at, n) \in Seq(Nat) /\ Len(ReadOn(b, f, at, n)) = Len(b) + n
           /\ \A i \in Len(b) + 1 .. Len(b) + n : ReadOn(b, f, at, n)[i] = f[at + i - Len(b)]
<1>0. PICK e : e = ReadOn(b, f, at, n)
  OBVIOUS
<1> DEFINE s == SubSeq(f, at + 1, at + n)
<1>1. SubSeq(b, 1, Len(b)) = b
  OBVIOUS
<1>2. s \in Seq(Nat)
  OBVIOUS
<1>3. Len(s) = n
  OBVIOUS
<1>4. ASSUME NEW i \in 1 .. n PROVE s[i] = f[at + i]
  <2>1. PICK a \in Nat, z \in Nat : a = at + 1 /\ z = at + n
    OBVIOUS
  <2>2. i \in 1 .. z - a + 1 /\ i + a - 1 = at + i
    BY <2>1
  <2>3. SubSeq(f, a, z)[i] = f[i + a - 1]
    BY <2>2, PartAt
  <2> QED
    BY <2>1, <2>2, <2>3
<1> HIDE DEF s
<1>5. e = b \o s
  BY <1>0, <1>1 DEF s, ReadOn
<1>6. e \in Seq(Nat) /\ Len(e) = Len(b) + n
  <2>1. b \o s \in Seq(Nat)
    BY <1>2
  <2>2. Len(b \o s) = Len(b) + Len(s)
    BY <1>2
  <2> QED
    BY <1>3, <1>5, <2>1, <2>2
<1>7. ASSUME NEW i \in Len(b) + 1 .. Len(b) + n PROVE e[i] = f[at + i - Len(b)]
  <2>1. e[i] = s[i - Len(b)]
    <3>1. Len(b) \in Nat /\ i \in 1 .. Len(b) + Len(s) /\ i > Len(b)
      BY <1>3
    <3>2. (b \o s)[i] = s[i - Len(b)]
      BY <1>2, <3>1
    <3> QED
      BY <1>5, <3>2
  <2>2. i - Len(b) \in 1 .. n
    OBVIOUS
  <2> QED
    BY <1>4, <2>1, <2>2
<1> QED
  BY <1>0, <1>6, <1>7

\* The file with bytes of the payload written over it.
WrittenOver(at, d, n) == Overwritten(at, SubSeq(Payload, d + 1, d + n))

HasWritten(w, at, d, n) ==
    /\ w \in Seq(Nat)
    /\ \A i \in 1 .. Len(w) : i \in at + 1 .. at + n => w[i] = Payload[d + i - at]
    /\ \A i \in 1 .. Len(w) : i \notin at + 1 .. at + n /\ i <= Len(file) => w[i] = file[i]

LEMMA WrittenOverIs ==
    ASSUME file \in Seq(Nat), NEW at \in Nat, NEW d \in Nat, NEW n \in Nat \ {0},
           d + n <= Len(Payload)
    PROVE  HasWritten(WrittenOver(at, d, n), at, d, n)
<1>0. PICK w : w = WrittenOver(at, d, n)
  OBVIOUS
<1> DEFINE s == SubSeq(Payload, d + 1, d + n)
           m == IF at + n > Len(file) THEN at + n ELSE Len(file)
<1>1. Payload \in Seq(Nat) /\ Len(file) \in Nat /\ m \in Nat
  BY FileAssumption
<1>2. s \in Seq(Nat)
  BY <1>1
<1>3. Len(s) = n
  BY <1>1
<1>4. ASSUME NEW i \in 1 .. n PROVE s[i] = Payload[d + i] /\ s[i] \in Nat
  <2>1. s[i] = Payload[(d + 1) + i - 1]
    BY <1>1
  <2>2. (d + 1) + i - 1 = d + i /\ d + i \in 1 .. Len(Payload)
    BY <1>1
  <2> QED
    BY <1>1, <2>1, <2>2
<1> HIDE DEF s
<1>5. w = [i \in 1 .. m |-> IF i \in at + 1 .. at + n THEN s[i - at]
                            ELSE IF i <= Len(file) THEN file[i] ELSE 0]
  BY <1>0, <1>3 DEF WrittenOver, Overwritten, s
<1> HIDE DEF m
<1>6. \A i \in 1 .. m : i \in at + 1 .. at + n => i - at \in 1 .. n
  BY <1>1
<1>7. w \in [1 .. m -> Nat]
  <2>1. ASSUME NEW i \in 1 .. m
        PROVE  (IF i \in at + 1 .. at + n THEN s[i - at] ELSE IF i <= Len(file) THEN file[i] ELSE 0) \in Nat
    <3>1. CASE i \in at + 1 .. at + n
      BY <1>4, <1>6, <3>1
    <3>2. CASE i \notin at + 1 .. at + n
      <4>1. i <= Len(file) => file[i] \in Nat
        BY <1>1
      <4> QED
        BY <3>2, <4>1
    <3> QED
      BY <3>1, <3>2
  <2> QED
    BY <1>5, <2>1
<1>8. w \in Seq(Nat) /\ Len(w) = m
  BY <1>1, <1>7
<1>9. ASSUME NEW i \in 1 .. m
      PROVE  /\ i \in at + 1 .. at + n => w[i] = Payload[d + i - at]
             /\ i \notin at + 1 .. at + n /\ i <= Len(file) => w[i] = file[i]
  <2>1. CASE i \in at + 1 .. at + n
    <3>1. w[i] = s[i - at]
      BY <1>5, <2>1
    <3>2. i - at \in 1 .. n /\ d + (i - at) = d + i - at
      BY <1>1, <1>6, <2>1
    <3> QED
      BY <1>4, <2>1, <3>1, <3>2
  <2>2. CASE i \notin at + 1 .. at + n
    BY <1>5, <2>2
  <2> QED
    BY <2>1, <2>2
<1> QED
  BY <1>0, <1>8, <1>9 DEF HasWritten

\* A call of o that transfers n bytes, to the buffer b.
LEMMA TransferStep ==
    ASSUME FileInv, NEW o \in Objects, Ready(o), NEW n \in Nat \ {0}, n <= Wanted(o), NEW b \in Seq(Nat),
           calls[o].op = "pread" => Len(b) = calls[o].done + n,
           calls' = [calls EXCEPT ![o].buf = b, ![o].done = @ + n],
           fds' = [fds EXCEPT ![handle[o]] = @ + n],
           handle' = handle, file' \in Seq(Nat)
    PROVE  FileInv'
<1>1. InCall(o) /\ calls[o].begun
  BY DEF Ready
<1>2. /\ calls[o] \in CallsInProgress
      /\ calls[o].op \in {"pread", "pwrite"} /\ calls[o].off \in Nat /\ calls[o].len \in Nat
      /\ calls[o].done \in Nat
  BY <1>1, CallIs
<1>3. n <= calls[o].len - calls[o].done
  BY DEF Wanted
<1>4. handle[o] \in Fds /\ fds[handle[o]] = calls[o].off + calls[o].done
  BY <1>1 DEF FileInv, CallInPlace, Pos
<1>5. handle[o] \in DOMAIN fds
  BY <1>4, HandlesDistinct
<1> DEFINE c == [calls[o] EXCEPT !.buf = b, !.done = calls[o].done + n]
<1>6. /\ c \in CallsInProgress /\ c.done = calls[o].done + n /\ c.buf = b
      /\ c.op = calls[o].op /\ c.off = calls[o].off /\ c.len = calls[o].len /\ c.begun = calls[o].begun
  <2>1. calls[o].done + n \in Nat
    BY <1>2
  <2>2. PICK x \in CallsInProgress : x = calls[o]
    BY <1>2
  <2>3. PICK m \in Nat : m = x.done + n
    BY <2>1, <2>2
  <2>4. c = [x EXCEPT !.buf = b, !.done = m]
    BY <2>2, <2>3
  <2> HIDE DEF c
  <2>5. /\ c \in CallsInProgress /\ c.done = m /\ c.buf = b
        /\ c.op = x.op /\ c.off = x.off /\ c.len = x.len /\ c.begun = x.begun
    BY <2>4 DEF CallsInProgress
  <2> QED
    BY <2>2, <2>3, <2>5
<1> HIDE DEF c
<1>7. calls'[o] = c /\ \A p \in Objects \ {o} : calls'[p] = calls[p]
  BY DEF FileInv, FileTypes, c
<1>8. calls' \in [Objects -> CallsInProgress \cup CallsReturned]
  <2>1. calls' = [calls EXCEPT ![o] = c]
    BY DEF FileInv, FileTypes, c
  <2> QED
    BY <1>6, <2>1 DEF FileInv, FileTypes
<1>9. DOMAIN fds' = DOMAIN fds /\ fds'[handle[o]] = fds[handle[o]] + n
      /\ \A f \in DOMAIN fds \ {handle[o]} : fds'[f] = fds[f]
  BY <1>5
<1>10. FileTypes'
  <2>1. \A f \in DOMAIN fds' : fds'[f] \in Nat
    <3>1. \A f \in DOMAIN fds \ {handle[o]} : fds'[f] \in Nat
      BY <1>9 DEF FileInv, FileTypes
    <3>2. fds'[handle[o]] \in Nat
      BY <1>2, <1>4, <1>9
    <3> QED
      BY <1>9, <3>1, <3>2
  <2>2. DOMAIN fds' \subseteq Fds /\ handle' \in [Objects -> Fds \cup {NotOpen, INVALID}]
    BY <1>9 DEF FileInv, FileTypes
  <2> QED
    BY <1>8, <2>1, <2>2 DEF FileTypes
<1>11. DescriptorsOwned'
  BY <1>9, DescriptorsStay
<1>12. CallInPlace(o)'
  <2>1. Pos(o)' = calls'[o].off + calls'[o].done
    BY <1>2, <1>4, <1>6, <1>7, <1>9 DEF Pos
  <2>2. calls'[o].done <= calls'[o].len /\ calls'[o].len <= Len(Payload)
    BY <1>1, <1>2, <1>3, <1>6, <1>7 DEF FileInv, CallInPlace
  <2>3. calls'[o].op = "pread" => Len(calls'[o].buf) = calls'[o].done
    BY <1>6, <1>7
  <2> QED
    BY <1>1, <1>4, <1>6, <1>7, <2>1, <2>2, <2>3 DEF CallInPlace
<1>13. ASSUME NEW p \in Objects \ {o} PROVE handle[p] \in Fds => fds'[handle[p]] = fds[handle[p]]
  <2>1. handle[p] \in Fds => handle[p] \in DOMAIN fds \ {handle[o]}
    BY <1>4, HandlesDistinct
  <2> QED
    BY <1>9, <2>1
<1> QED
  BY <1>7, <1>10, <1>11, <1>12, <1>13, OneObjectSteps

\* What a read_once and a write_once of n bytes do, ...
LEMMA ReadOnceIs ==
    ASSUME FileInv, NEW o \in Objects, ReadOnce(o)
    PROVE  /\ FileInv'
           /\ \A i \in calls[o].done + 1 .. calls'[o].done :
                 calls'[o].buf[i] = file[calls[o].off + i]
           /\ calls'[o].op = calls[o].op
<1>1. Ready(o) /\ calls[o].op = "pread" /\ InCall(o) /\ calls[o].begun
  BY DEF ReadOnce, Ready
<1>2. PICK n \in 1 .. Wanted(o) :
          /\ n <= Available(o)
          /\ calls' = [calls EXCEPT
                ![o].buf  = SubSeq(@, 1, calls[o].done) \o SubSeq(file, Pos(o) + 1, Pos(o) + n),
                ![o].done = @ + n]
          /\ fds' = [fds EXCEPT ![handle[o]] = @ + n]
  BY DEF ReadOnce
<1>3. UNCHANGED <<file, handle>>
  BY DEF ReadOnce
<1>4. /\ calls[o] \in CallsInProgress /\ calls[o].off \in Nat /\ calls[o].len \in Nat
      /\ calls[o].buf \in Seq(Nat) /\ calls[o].done \in Nat
  BY <1>1, CallIs
<1>5. n \in Nat \ {0} /\ n <= Wanted(o)
  BY <1>2, <1>4 DEF Wanted
<1>6. Pos(o) = calls[o].off + calls[o].done /\ Len(calls[o].buf) = calls[o].done
  BY <1>1 DEF FileInv, CallInPlace
<1>7. file \in Seq(Nat) /\ Len(file) \in Nat
  BY DEF FileInv, FileTypes
<1>8. Pos(o) \in Nat /\ Pos(o) + n <= Len(file)
  <2>1. PICK a \in Nat : a = Pos(o)
    BY <1>4, <1>6
  <2>2. n <= (IF a >= Len(file) THEN 0 ELSE Len(file) - a)
    BY <1>2, <2>1 DEF Available
  <2>3. a + n <= Len(file)
    BY <1>5, <1>7, <2>2
  <2> QED
    BY <2>1, <2>3
<1>9. PICK b : b = SubSeq(calls[o].buf, 1, Len(calls[o].buf)) \o SubSeq(file, Pos(o) + 1, Pos(o) + n)
  OBVIOUS
<1>10. PICK at \in Nat, c \in Seq(Nat), f \in Seq(Nat) :
          at = Pos(o) /\ c = calls[o].buf /\ f = file /\ at + n <= Len(f)
  BY <1>4, <1>7, <1>8
<1>piece. b = SubSeq(c, 1, Len(c)) \o SubSeq(f, at + 1, at + n) /\ at + n <= Len(f)
  BY <1>9, <1>10
<1>bytes. /\ b \in Seq(Nat) /\ Len(b) = Len(c) + n
      /\ \A i \in Len(c) + 1 .. Len(c) + n : b[i] = f[at + i - Len(c)]
  <2>1. b = ReadOn(c, f, at, n)
    BY <1>piece DEF ReadOn
  <2>2. n \in Nat \ {0} /\ at + n <= Len(f)
    BY <1>5, <1>10
  <2>3. ReadOn(c, f, at, n) \in Seq(Nat)
    BY <2>2, ReadOnIs
  <2>4. Len(ReadOn(c, f, at, n)) = Len(c) + n
    BY <2>2, ReadOnIs
  <2>5. \A i \in Len(c) + 1 .. Len(c) + n : ReadOn(c, f, at, n)[i] = f[at + i - Len(c)]
    BY <2>2, ReadOnIs
  <2> QED
    BY <2>1, <2>3, <2>4, <2>5
<1>11. b \in Seq(Nat) /\ Len(b) = calls[o].done + n
  BY <1>6, <1>10, <1>bytes
<1>12. calls' = [calls EXCEPT ![o].buf = b, ![o].done = @ + n]
  BY <1>2, <1>6, <1>9
<1>13. FileInv'
  BY <1>1, <1>2, <1>3, <1>5, <1>7, <1>11, <1>12, TransferStep
<1>14. calls'[o].done = calls[o].done + n /\ calls'[o].buf = b /\ calls'[o].op = calls[o].op
  BY <1>4, <1>12 DEF FileInv, FileTypes, CallsInProgress
<1>15. ASSUME NEW i \in calls[o].done + 1 .. calls'[o].done
       PROVE  calls'[o].buf[i] = file[calls[o].off + i]
  <2>1. Len(c) = calls[o].done
    BY <1>6, <1>10
  <2>2. PICK d \in Nat, off \in Nat : d = calls[o].done /\ off = calls[o].off
    BY <1>4
  <2>3. i \in d + 1 .. d + n /\ at = off + d
    BY <1>6, <1>10, <1>14, <2>2
  <2>4. at + i - d = off + i
    BY <2>3
  <2>5. b[i] = f[at + i - d]
    BY <1>bytes, <2>1, <2>2, <2>3
  <2> QED
    BY <1>10, <1>14, <2>2, <2>4, <2>5
<1> QED
  BY <1>13, <1>14, <1>15

LEMMA WriteOnceIs ==
    ASSUME FileInv, NEW o \in Objects, WriteOnce(o)
    PROVE  /\ FileInv'
           /\ \A i \in 1 .. Len(file') :
                 IF i - calls[o].off \in calls[o].done + 1 .. calls'[o].done
                 THEN file'[i] = Payload[i - calls[o].off]
                 ELSE i <= Len(file) => file'[i] = file[i]
           /\ calls'[o].op = "pwrite"
<1>1. Ready(o) /\ calls[o].op = "pwrite" /\ InCall(o) /\ calls[o].begun
  BY DEF WriteOnce, Ready
<1>2. PICK n \in 1 .. Wanted(o) :
          /\ file' = Overwritten(Pos(o), SubSeq(Payload, calls[o].done + 1, calls[o].done + n))
          /\ calls' = [calls EXCEPT ![o].done = @ + n]
          /\ fds' = [fds EXCEPT ![handle[o]] = @ + n]
  BY DEF WriteOnce
<1>3. handle' = handle
  BY DEF WriteOnce
<1>4. /\ calls[o] \in CallsInProgress /\ calls[o].off \in Nat /\ calls[o].len \in Nat
      /\ calls[o].buf \in Seq(Nat) /\ calls[o].done \in Nat
  BY <1>1, CallIs
<1>5. n \in Nat \ {0} /\ n <= Wanted(o)
  BY <1>2, <1>4 DEF Wanted
<1>6. Pos(o) = calls[o].off + calls[o].done
  BY <1>1 DEF FileInv, CallInPlace
<1>7. file \in Seq(Nat)
  BY DEF FileInv, FileTypes
<1>8. calls[o].done + n <= Len(Payload)
  BY <1>1, <1>4, <1>5, FileAssumption DEF Wanted, FileInv, CallInPlace
<1>9. PICK at \in Nat : at = Pos(o)
  BY <1>4, <1>6
<1>10. PICK d \in Nat : d = calls[o].done
  BY <1>4
<1>11. PICK w : w = file'
  OBVIOUS
<1>12. /\ w \in Seq(Nat)
       /\ \A i \in 1 .. Len(w) : i \in at + 1 .. at + n => w[i] = Payload[d + i - at]
       /\ \A i \in 1 .. Len(w) : i \notin at + 1 .. at + n /\ i <= Len(file) => w[i] = file[i]
  <2>1. w = WrittenOver(at, d, n)
    BY <1>2, <1>9, <1>10, <1>11 DEF WrittenOver
  <2>2. d + n <= Len(Payload)
    BY <1>8, <1>10
  <2>3. n \in Nat \ {0}
    BY <1>5
  <2>4. HasWritten(WrittenOver(at, d, n), at, d, n)
    BY <1>7, <2>2, <2>3, WrittenOverIs
  <2> QED
    BY <2>1, <2>4 DEF HasWritten
<1>13. calls' = [calls EXCEPT ![o].buf = calls[o].buf, ![o].done = @ + n]
  BY <1>2, <1>4 DEF FileInv, FileTypes, CallsInProgress
<1>14. FileInv'
  BY <1>1, <1>2, <1>3, <1>4, <1>5, <1>11, <1>12, <1>13, TransferStep
<1>15. calls'[o].done = d + n /\ calls'[o].op = "pwrite"
  BY <1>1, <1>2, <1>4, <1>10 DEF FileInv, FileTypes, CallsInProgress
<1>16. ASSUME NEW i \in 1 .. Len(file')
       PROVE  IF i - calls[o].off \in calls[o].done + 1 .. calls'[o].done
              THEN file'[i] = Payload[i - calls[o].off]
              ELSE i <= Len(file) => file'[i] = file[i]
  <2>1. i \in Int
    BY <1>11, <1>12
  <2>2. PICK off \in Nat : off = calls[o].off
    BY <1>4
  <2>3. at = off + d
    BY <1>6, <1>9, <1>10, <2>2
  <2>4. i - off \in d + 1 .. d + n <=> i \in at + 1 .. at + n
    BY <1>5, <2>1, <2>3
  <2>5. d + i - at = i - off
    BY <2>1, <2>3
  <2>6. /\ i \in at + 1 .. at + n => w[i] = Payload[i - off]
        /\ i \notin at + 1 .. at + n /\ i <= Len(file) => w[i] = file[i]
    BY <1>11, <1>12, <2>5
  <2> QED
    BY <1>10, <1>11, <1>15, <2>2, <2>4, <2>6
<1> QED
  BY <1>14, <1>15, <1>16

-----------------------------------------------------------------------------
(* All steps, and what TransfersInPlace says of each.                      *)

LEMMA FileInvInit == FileInit => FileInv
<1> SUFFICES ASSUME FileInit PROVE FileInv
  OBVIOUS
<1>1. DOMAIN fds = {} /\ \A o \in Objects : handle[o] = NotOpen
  BY DEF FileInit
<1>2. Returned(0) \in CallsReturned /\ Returned(0).op = "none"
  BY ReturnedIs
<1>3. \A o \in Objects : ~ InCall(o)
  BY <1>2 DEF FileInit, InCall
<1>4. FileTypes
  <2>1. file \in Seq(Nat)
    <3>1. <<>> \in Seq(Nat) /\ Payload \in Seq(Nat)
      BY FileAssumption
    <3> QED
      BY <3>1 DEF FileInit
  <2>2. calls \in [Objects -> CallsInProgress \cup CallsReturned]
    BY <1>2 DEF FileInit
  <2>3. handle \in [Objects -> Fds \cup {NotOpen, INVALID}]
    BY DEF FileInit
  <2> QED
    BY <1>1, <2>1, <2>2, <2>3 DEF FileTypes
<1>5. DescriptorsOwned
  BY <1>1, NoDescriptors DEF DescriptorsOwned
<1> QED
  BY <1>3, <1>4, <1>5 DEF FileInv, CallInPlace

\* A step in which o transfers nothing.
LEMMA NothingTransferred ==
    ASSUME FileInv, NEW o \in Objects,
           \/ calls'[o] = calls[o]
           \/ ~ InCall(o)
           \/ InCall(o) /\ ~ Ready(o) /\ (InCall(o)' \/ calls'[o].result = Thrown)
    PROVE  TransferInPlace(o)
<1>1. CASE calls'[o] = calls[o]
  <2>1. InCall(o)' <=> InCall(o)
    BY <1>1 DEF InCall
  <2>2. Ready(o) => calls[o].done \in Nat
    BY CallIs DEF Ready
  <2> QED
    BY <1>1, <2>1, <2>2 DEF TransferInPlace
<1>2. CASE ~ InCall(o)
  BY <1>2 DEF TransferInPlace, Ready
<1>3. CASE InCall(o) /\ ~ Ready(o) /\ (InCall(o)' \/ calls'[o].result = Thrown)
  BY <1>3 DEF TransferInPlace
<1> QED
  BY <1>1, <1>2, <1>3

LEMMA FinishIs ==
    ASSUME FileInv, NEW o \in Objects, NEW n \in Int, Finish(o, n)
    PROVE  /\ CallsSettle(o) /\ ~ InCall(o)'
           /\ calls'[o].op = "none" /\ calls'[o].result = n
           /\ \A p \in Objects \ {o} : calls'[p] = calls[p]
<1>1. CallsSettle(o)
  BY Settles
<1>2. calls'[o] = Returned(n)
  BY DEF Finish, FileInv, FileTypes
<1>3. Returned(n).op = "none" /\ Returned(n).result = n
  BY ReturnedIs
<1> QED
  BY <1>1, <1>2, <1>3 DEF CallsSettle

\* A call that finishes with all that it wanted, at the end of the file, or by
\* an exception.
LEMMA Finishes ==
    ASSUME FileInv, NEW o \in Objects, NEW n \in Int, Finish(o, n), UNCHANGED <<file, fds, handle>>,
           InCall(o) =>
              \/ n = Thrown
              \/ n = calls[o].len
              \/ calls[o].op = "pread" /\ Len(file) <= calls[o].off + n
    PROVE  FileInv' /\ \A p \in Objects : TransferInPlace(p)
<1>1. /\ CallsSettle(o) /\ ~ InCall(o)'
      /\ calls'[o].op = "none" /\ calls'[o].result = n
      /\ \A p \in Objects \ {o} : calls'[p] = calls[p]
  BY FinishIs
<1>2. file' \in Seq(Nat)
  BY DEF FileInv, FileTypes
<1>3. FileInv'
  BY <1>1, <1>2, SettledStep
<1>4. \A p \in Objects \ {o} : TransferInPlace(p)
  BY <1>1, NothingTransferred
<1>5. TransferInPlace(o)
  <2>1. CASE ~ InCall(o)
    BY <2>1, NothingTransferred
  <2>2. CASE InCall(o)
    <3>1. calls'[o].op # "pread" /\ calls'[o].op # "pwrite"
      BY <1>1
    <3> QED
      BY <1>1, <2>2, <3>1 DEF TransferInPlace
  <2> QED
    BY <2>1, <2>2
<1> QED
  BY <1>3, <1>4, <1>5

LEMMA BeginThrowsStep ==
    ASSUME FileInv, NEW o \in Objects, BeginThrows(o)
    PROVE  FileInv' /\ \A p \in Objects : TransferInPlace(p)
<1>1. Thrown \in Int /\ Finish(o, Thrown) /\ UNCHANGED <<file, fds, handle>>
  BY DEF BeginThrows, Thrown
<1> QED
  BY <1>1, Finishes

LEMMA ThrowStep ==
    ASSUME FileInv, NEW o \in Objects, Throw(o)
    PROVE  FileInv' /\ \A p \in Objects : TransferInPlace(p)
<1>1. Thrown \in Int /\ Finish(o, Thrown) /\ UNCHANGED <<file, fds, handle>>
  BY DEF Throw, Thrown
<1> QED
  BY <1>1, Finishes

LEMMA ReturnStep ==
    ASSUME FileInv, NEW o \in Objects, Return(o)
    PROVE  FileInv' /\ \A p \in Objects : TransferInPlace(p)
<1>1. /\ InCall(o) /\ calls[o].begun /\ Finish(o, calls[o].done) /\ UNCHANGED <<file, fds, handle>>
      /\ Wanted(o) <= 0 \/ (calls[o].op = "pread" /\ Available(o) = 0)
  BY DEF Return, Ready
<1>2. calls[o].off \in Nat /\ calls[o].len \in Nat /\ calls[o].done \in Nat /\ Len(file) \in Nat
  BY <1>1, CallIs DEF FileInv, FileTypes
<1>3. calls[o].done <= calls[o].len /\ Pos(o) = calls[o].off + calls[o].done
  BY <1>1 DEF FileInv, CallInPlace
<1>4. CASE Wanted(o) <= 0
  <2>1. calls[o].done = calls[o].len
    BY <1>2, <1>3, <1>4 DEF Wanted
  <2> QED
    BY <1>1, <1>2, <2>1, Finishes
<1>5. CASE calls[o].op = "pread" /\ Available(o) = 0
  <2>1. PICK at \in Nat : at = calls[o].off + calls[o].done /\ at = Pos(o)
    BY <1>2, <1>3
  <2>2. (IF at >= Len(file) THEN 0 ELSE Len(file) - at) = 0
    BY <1>5, <2>1 DEF Available
  <2>3. Len(file) <= at
    BY <1>2, <2>2
  <2> QED
    BY <1>1, <1>2, <1>5, <2>1, <2>3, Finishes
<1> QED
  BY <1>1, <1>4, <1>5

LEMMA SizeStep ==
    ASSUME FileInv, NEW o \in Objects, Size(o)
    PROVE  FileInv' /\ \A p \in Objects : TransferInPlace(p)
<1>1. ~ InCall(o) /\ OpenAtFirstUse(o) /\ Finish(o, Len(file)) /\ file' = file
  BY DEF Size
<1>2. file \in Seq(Nat) /\ Len(file) \in Int
  BY DEF FileInv, FileTypes
<1>3. CallsSettle(o) /\ \A p \in Objects \ {o} : calls'[p] = calls[p]
  BY <1>1, <1>2, FinishIs
<1>4. FileInv'
  BY <1>1, <1>2, <1>3, OpenAtFirstUseStep
<1>5. \A p \in Objects : TransferInPlace(p)
  BY <1>1, <1>3, NothingTransferred
<1> QED
  BY <1>4, <1>5

LEMMA TruncateStep ==
    ASSUME FileInv, NEW o \in Objects, NEW size \in 0 .. MaxFile, Truncate(o, size)
    PROVE  FileInv' /\ \A p \in Objects : TransferInPlace(p)
<1>1. /\ ~ InCall(o) /\ OpenAtFirstUse(o) /\ UNCHANGED calls
      /\ file' = [i \in 1 .. size |-> IF i <= Len(file) THEN file[i] ELSE 0]
  BY DEF Truncate
<1>2. size \in Nat
  BY FileAssumption
<1>3. file \in Seq(Nat)
  BY DEF FileInv, FileTypes
<1>4. file' \in Seq(Nat)
  <2>1. \A i \in 1 .. size : (IF i <= Len(file) THEN file[i] ELSE 0) \in Nat
    BY <1>2, <1>3
  <2>2. [i \in 1 .. size |-> IF i <= Len(file) THEN file[i] ELSE 0] \in [1 .. size -> Nat]
    BY <2>1
  <2> QED
    BY <1>1, <1>2, <2>2
<1>5. CallsSettle(o)
  BY <1>1, Settles
<1>6. FileInv'
  BY <1>1, <1>4, <1>5, OpenAtFirstUseStep
<1>7. \A p \in Objects : TransferInPlace(p)
  BY <1>1, NothingTransferred
<1> QED
  BY <1>6, <1>7

LEMMA FileInvStep ==
    FileInv /\ [FileNext]_fileVars => FileInv' /\ \A p \in Objects : TransferInPlace(p)
<1> SUFFICES ASSUME FileInv, [FileNext]_fileVars
             PROVE  FileInv' /\ \A p \in Objects : TransferInPlace(p)
  OBVIOUS
<1>1. CASE UNCHANGED fileVars
  <2>1. FileInv'
    BY <1>1 DEF fileVars, FileInv, FileTypes, DescriptorsOwned, CallInPlace, InCall, Pos
  <2>2. \A p \in Objects : TransferInPlace(p)
    BY <1>1, NothingTransferred DEF fileVars
  <2> QED
    BY <2>1, <2>2
<1>2. CASE FileNext
  <2>1. PICK o \in Objects :
            \/ Open(o) \/ Close(o) \/ Destroy(o) \/ \E p \in Objects : Move(o, p)
            \/ Enter(o) \/ Begin(o) \/ BeginThrows(o)
            \/ Size(o) \/ ReadOnce(o) \/ WriteOnce(o) \/ Return(o) \/ Throw(o)
            \/ \E size \in 0 .. MaxFile : Truncate(o, size)
    BY <1>2 DEF FileNext
  <2>2. CASE Open(o) \/ Close(o) \/ Destroy(o) \/ \E p \in Objects : Move(o, p)
    <3>1. FileInv'
      BY <2>2, OpenStep, CloseStep, DestroyStep, MoveStep
    <3>2. calls' = calls
      BY <2>2 DEF Open, Close, Destroy, Move
    <3> QED
      BY <3>1, <3>2, NothingTransferred
  <2>3. CASE Enter(o)
    <3>1. FileInv'
      BY <2>3, EnterStep
    <3>2. ~ InCall(o) /\ \A p \in Objects \ {o} : calls'[p] = calls[p]
      BY <2>3 DEF Enter, FileInv, FileTypes
    <3> QED
      BY <3>1, <3>2, NothingTransferred
  <2>4. CASE Begin(o)
    <3>1. FileInv'
      BY <2>4, BeginStep
    <3>2. InCall(o) /\ ~ Ready(o) /\ calls' = [calls EXCEPT ![o].begun = TRUE]
      BY <2>4 DEF Begin, Ready
    <3>3. calls[o] \in CallsInProgress
      BY <3>2, CallIs
    <3>4. InCall(o)' /\ \A p \in Objects \ {o} : calls'[p] = calls[p]
      BY <3>2, <3>3 DEF InCall, FileInv, FileTypes, CallsInProgress
    <3> QED
      BY <3>1, <3>2, <3>4, NothingTransferred
  <2>5. CASE ReadOnce(o)
    <3>1. /\ FileInv'
          /\ \A i \in calls[o].done + 1 .. calls'[o].done : calls'[o].buf[i] = file[calls[o].off + i]
          /\ calls'[o].op = "pread"
      BY <2>5, ReadOnceIs DEF ReadOnce
    <3>2. \A p \in Objects \ {o} : calls'[p] = calls[p]
      BY <2>5 DEF ReadOnce, FileInv, FileTypes
    <3>3. TransferInPlace(o)
      BY <3>1 DEF TransferInPlace, InCall
    <3> QED
      BY <3>1, <3>2, <3>3, NothingTransferred
  <2>6. CASE WriteOnce(o)
    <3>1. /\ FileInv'
          /\ \A i \in 1 .. Len(file') :
                IF i - calls[o].off \in calls[o].done + 1 .. calls'[o].done
                THEN file'[i] = Payload[i - calls[o].off]
                ELSE i <= Len(file) => file'[i] = file[i]
          /\ calls'[o].op = "pwrite"
      BY <2>6, WriteOnceIs
    <3>2. \A p \in Objects \ {o} : calls'[p] = calls[p]
      BY <2>6 DEF WriteOnce, FileInv, FileTypes
    <3>3. TransferInPlace(o)
      BY <3>1 DEF TransferInPlace, InCall
    <3> QED
      BY <3>1, <3>2, <3>3, NothingTransferred
  <2> QED
    BY <2>1, <2>2, <2>3, <2>4, <2>5, <2>6,
       BeginThrowsStep, SizeStep, ReturnStep, ThrowStep, TruncateStep
<1> QED
  BY <1>1, <1>2

\* For any number of objects and descriptors: none is leaked, closed twice or
\* used by two (deferred_file.hpp, zpp/file.h).
THEOREM DescriptorsAlwaysOwned == FileSpec => []DescriptorsOwned
<1>1. FileInv => DescriptorsOwned
  BY DEF FileInv
<1> QED
  BY <1>1, FileInvInit, FileInvStep, PTL DEF FileSpec

\* For files and payloads of any length, any number of objects on one file, and
\* system calls that transfer any part: each byte is of its own offset
\* (deferred_file.hpp:69, zpp/file.h:999).
THEOREM TransfersAlwaysInPlace == FileSpec => TransfersInPlace
<1>1. FileInv /\ [FileNext]_fileVars => [\A o \in Objects : TransferInPlace(o)]_fileVars
  BY FileInvStep
<1> QED
  BY <1>1, FileInvInit, FileInvStep, PTL DEF FileSpec, TransfersInPlace

-----------------------------------------------------------------------------
(* Slices of sparse extents of any sizes.  Row numbers the places at which *)
(* the extents begin; with the two facts that rows are a stride apart and  *)
(* that every place is in one of them, all else is linear.                 *)

SparseKind == [begin : Nat, size : Nat \ {0}, hole : Nat, count : Nat \ {0}]

Row(se, i) == se.begin + i * StrideSize(se)

\* Byte b is of extent i.
OfExtent(se, b, i) == Row(se, i) <= b /\ b < Row(se, i) + se.size

LEMMA KindIs ==
    ASSUME NEW se \in SparseKind
    PROVE  /\ se.begin \in Nat /\ se.size \in Nat \ {0} /\ se.hole \in Nat /\ se.count \in Nat \ {0}
           /\ StrideSize(se) = se.size + se.hole /\ StrideSize(se) \in Nat \ {0}
  BY DEF SparseKind, StrideSize

LEMMA RowsApart ==
    ASSUME NEW se \in SparseKind
    PROVE  /\ Row(se, 0) = se.begin
           /\ \A i \in Int : Row(se, i) \in Int
           /\ \A i \in Nat : Row(se, i) >= se.begin
           /\ \A i \in Int : Row(se, i + 1) = Row(se, i) + StrideSize(se)
           /\ \A i, j \in Int : i < j => Row(se, i) + StrideSize(se) <= Row(se, j)
<1>1. PICK s \in Nat \ {0} : s = StrideSize(se)
  BY KindIs
<1>2. PICK b \in Nat : b = se.begin
  BY KindIs
<1>3. \A i \in Int : i * s \in Int
  OBVIOUS
<1>4. ASSUME NEW i \in Nat PROVE i * s >= 0
  OBVIOUS
<1>5. ASSUME NEW i \in Int PROVE (i + 1) * s = i * s + s
  OBVIOUS
<1>6. ASSUME NEW i \in Int, NEW j \in Int, i < j PROVE i * s + s <= j * s
  BY <1>6
<1>7. Row(se, 0) = se.begin
  BY <1>1, <1>2 DEF Row
<1>8. \A i \in Int : Row(se, i) \in Int
  BY <1>1, <1>2, <1>3 DEF Row
<1>9. \A i \in Nat : Row(se, i) >= se.begin
  BY <1>1, <1>2, <1>3, <1>4 DEF Row
<1>10. \A i \in Int : Row(se, i + 1) = Row(se, i) + StrideSize(se)
  <2> SUFFICES ASSUME NEW i \in Int PROVE b + (i + 1) * s = (b + i * s) + s
    BY <1>1, <1>2 DEF Row
  <2> QED
    BY <1>3, <1>5
<1>11. \A i, j \in Int : i < j => Row(se, i) + StrideSize(se) <= Row(se, j)
  <2> SUFFICES ASSUME NEW i \in Int, NEW j \in Int, i < j PROVE (b + i * s) + s <= b + j * s
    BY <1>1, <1>2 DEF Row
  <2> QED
    BY <1>3, <1>6
<1> QED
  BY <1>7, <1>8, <1>9, <1>10, <1>11

\* The row that a place is in.
LEMMA IndexIs ==
    ASSUME NEW se \in SparseKind, NEW p \in Nat, se.begin <= p
    PROVE  /\ IndexAt(se, p) \in Nat
           /\ Row(se, IndexAt(se, p)) <= p
           /\ p < Row(se, IndexAt(se, p)) + StrideSize(se)
           /\ (p - se.begin) % StrideSize(se) = p - Row(se, IndexAt(se, p))
<1>1. PICK s \in Nat \ {0}, b \in Nat, x \in Nat :
          s = StrideSize(se) /\ b = se.begin /\ x = p - b
  BY KindIs
<1>2. PICK q : q = x \div s
  OBVIOUS
<1>3. q \in Nat
  BY <1>2
<1>4. q * s <= x
  BY <1>2
<1>5. x < q * s + s
  BY <1>2
<1>6. x % s = x - q * s
  BY <1>2
<1>7. IndexAt(se, p) = q /\ Row(se, q) = b + q * s
  BY <1>1, <1>2 DEF IndexAt, Row
<1>8. q * s \in Int
  BY <1>3
<1> QED
  BY <1>1, <1>3, <1>4, <1>5, <1>6, <1>7, <1>8

\* The extent that a place is in, or the one behind its hole.
LEMMA ShiftedIndexIs ==
    ASSUME NEW se \in SparseKind, NEW p \in Nat, se.begin <= p
    PROVE  /\ ShiftedIndexAt(se, p) \in Nat
           /\ Row(se, ShiftedIndexAt(se, p)) - se.hole <= p
           /\ p < Row(se, ShiftedIndexAt(se, p)) + se.size
<1>1. PICK m \in Nat : m = p + se.hole
  BY KindIs
<1>2. ShiftedIndexAt(se, p) = IndexAt(se, m) /\ se.begin <= m
  BY <1>1, KindIs DEF ShiftedIndexAt, IndexAt
<1>3. /\ IndexAt(se, m) \in Nat
      /\ Row(se, IndexAt(se, m)) <= m
      /\ m < Row(se, IndexAt(se, m)) + StrideSize(se)
  BY <1>2, IndexIs
<1>4. Row(se, IndexAt(se, m)) \in Int
  BY <1>3, RowsApart
<1> QED
  BY <1>1, <1>2, <1>3, <1>4, KindIs

LEMMA EndsAre ==
    ASSUME NEW se \in SparseKind
    PROVE  /\ OuterEnd(se) = Row(se, se.count)
           /\ Stop(se) = Row(se, se.count) - se.hole
<1>1. PICK s \in Nat \ {0}, b \in Nat, h \in Nat, c \in Nat :
          s = StrideSize(se) /\ b = se.begin /\ h = se.hole /\ c = se.count
  BY KindIs
<1>2. s * c = c * s /\ c * s \in Int
  OBVIOUS
<1> QED
  BY <1>1, <1>2 DEF OuterEnd, Stop, WholeSize, Row

-----------------------------------------------------------------------------
(* The bytes of a sparse extent, and of the sorts of slice that there are. *)

LEMMA BytesOf ==
    ASSUME NEW se \in SparseKind, NEW b
    PROVE  b \in BytesIn(se) <=> b \in Int /\ \E i \in 0 .. se.count - 1 : OfExtent(se, b, i)
<1>1. se.size \in Nat /\ \A i \in 0 .. se.count - 1 : Row(se, i) \in Int
  BY KindIs, RowsApart
<1>2. ASSUME NEW i \in 0 .. se.count - 1
      PROVE  b \in SparseExtentAt(se, i).begin .. SparseExtentAt(se, i).end - 1
             <=> b \in Int /\ OfExtent(se, b, i)
  <2>1. PICK r \in Int, z \in Nat : r = Row(se, i) /\ z = se.size
    BY <1>1
  <2>2. SparseExtentAt(se, i).begin = r /\ SparseExtentAt(se, i).end = r + z
    BY <2>1 DEF SparseExtentAt, Row
  <2>3. b \in r .. r + z - 1 <=> b \in Int /\ r <= b /\ b < r + z
    OBVIOUS
  <2> QED
    BY <2>1, <2>2, <2>3 DEF OfExtent
<1>3. b \in BytesIn(se) <=>
         \E i \in 0 .. se.count - 1 : b \in SparseExtentAt(se, i).begin .. SparseExtentAt(se, i).end - 1
  BY DEF BytesIn, Extents
<1> QED
  BY <1>2, <1>3

LEMMA NothingIs == BytesIn(Nothing) = {} /\ Nothing.count = 0 /\ Stop(Nothing) = 0
<1>1. Nothing = [begin |-> 0, size |-> 0, hole |-> 0, count |-> 0]
  BY DEF Nothing, Sparse
<1>2. 0 .. Nothing.count - 1 = {}
  BY <1>1
<1> QED
  BY <1>1, <1>2 DEF BytesIn, Extents, Stop, WholeSize, StrideSize

\* A piece of one extent.
LEMMA PieceIs ==
    ASSUME NEW b \in Int, NEW n \in Int
    PROVE  /\ BytesIn(Sparse(b, n, 0, 1)) = b .. b + n - 1
           /\ Stop(Sparse(b, n, 0, 1)) = b + n
<1>1. PICK se : se = Sparse(b, n, 0, 1)
  OBVIOUS
<1>2. se.begin = b /\ se.size = n /\ se.hole = 0 /\ se.count = 1
  BY <1>1 DEF Sparse
<1>3. 0 .. se.count - 1 = {0}
  BY <1>2
<1>4. SparseExtentAt(se, 0).begin = b /\ SparseExtentAt(se, 0).end = b + n
  BY <1>2 DEF SparseExtentAt, StrideSize
<1>5. BytesIn(se) = SparseExtentAt(se, 0).begin .. SparseExtentAt(se, 0).end - 1
  BY <1>3 DEF BytesIn, Extents
<1>6. Stop(se) = b + n
  BY <1>2 DEF Stop, WholeSize, StrideSize
<1> QED
  BY <1>1, <1>2, <1>4, <1>5, <1>6

\* Whole extents, n of them from extent f on.
ExtentsFrom(se, f, n) == Sparse(Row(se, f), se.size, se.hole, n)

LEMMA ExtentsFromAre ==
    ASSUME NEW se \in SparseKind, NEW f \in Nat, NEW n \in Nat
    PROVE  /\ Stop(ExtentsFrom(se, f, n)) = Row(se, f + n) - se.hole
           /\ \A b : b \in BytesIn(ExtentsFrom(se, f, n)) <=>
                        b \in Int /\ \E i \in f .. f + n - 1 : OfExtent(se, b, i)
<1>0. PICK slice : slice = ExtentsFrom(se, f, n)
  OBVIOUS
<1>1. PICK s \in Nat \ {0}, b0 \in Nat, h \in Nat, z \in Nat :
          s = StrideSize(se) /\ b0 = se.begin /\ h = se.hole /\ z = se.size /\ s = z + h
  BY KindIs
<1>2. Row(se, f) \in Int /\ slice.begin = Row(se, f) /\ slice.size = z /\ slice.hole = h /\ slice.count = n
      /\ StrideSize(slice) = s
  BY <1>0, <1>1, RowsApart DEF Sparse, StrideSize, ExtentsFrom
<1>3. \A i \in Int : Row(se, f) + i * s = Row(se, f + i)
  <2> SUFFICES ASSUME NEW i \in Int PROVE (b0 + f * s) + i * s = b0 + (f + i) * s
    BY <1>1 DEF Row
  <2>1. (f + i) * s = f * s + i * s
    OBVIOUS
  <2>2. f * s \in Int /\ i * s \in Int
    OBVIOUS
  <2> QED
    BY <2>1, <2>2
<1>4. Stop(slice) = Row(se, f + n) - h
  <2>1. s * n = n * s /\ n * s \in Int
    OBVIOUS
  <2>2. Stop(slice) = Row(se, f) + (n * s - h)
    BY <1>2, <2>1 DEF Stop, WholeSize
  <2> QED
    BY <1>1, <1>2, <1>3, <2>1, <2>2
<1>5. ASSUME NEW b PROVE b \in BytesIn(slice) <=> b \in Int /\ \E i \in f .. f + n - 1 : OfExtent(se, b, i)
  <2>1. ASSUME NEW i \in 0 .. n - 1
        PROVE  b \in SparseExtentAt(slice, i).begin .. SparseExtentAt(slice, i).end - 1
               <=> b \in Int /\ OfExtent(se, b, f + i)
    <3>1. PICK r \in Int : r = Row(se, f + i)
      BY RowsApart
    <3>2. SparseExtentAt(slice, i).begin = r /\ SparseExtentAt(slice, i).end = r + z
      BY <1>2, <1>3, <3>1 DEF SparseExtentAt
    <3>3. b \in r .. r + z - 1 <=> b \in Int /\ r <= b /\ b < r + z
      OBVIOUS
    <3> QED
      BY <1>1, <3>1, <3>2, <3>3 DEF OfExtent
  <2>2. b \in BytesIn(slice) <=>
           \E i \in 0 .. n - 1 : b \in SparseExtentAt(slice, i).begin .. SparseExtentAt(slice, i).end - 1
    BY <1>2 DEF BytesIn, Extents
  <2>3. (\E i \in 0 .. n - 1 : OfExtent(se, b, f + i)) <=> \E i \in f .. f + n - 1 : OfExtent(se, b, i)
    <3>1. ASSUME NEW i \in f .. f + n - 1, OfExtent(se, b, i)
          PROVE  \E j \in 0 .. n - 1 : OfExtent(se, b, f + j)
      <4>1. i - f \in 0 .. n - 1 /\ f + (i - f) = i
        OBVIOUS
      <4> QED
        BY <3>1, <4>1
    <3>2. \A i \in 0 .. n - 1 : f + i \in f .. f + n - 1
      OBVIOUS
    <3> QED
      BY <3>1, <3>2
  <2> QED
    BY <2>1, <2>2, <2>3
<1> QED
  BY <1>0, <1>1, <1>2, <1>4, <1>5

-----------------------------------------------------------------------------
(* The first slices. *)

LEMMA WithinIs ==
    ASSUME NEW se \in SparseKind, NEW left \in Int, NEW to \in Int, NEW b
    PROVE  b \in Within(se, left, to) <=>
              b \in Int /\ left <= b /\ b < to /\ \E i \in 0 .. se.count - 1 : OfExtent(se, b, i)
  BY BytesOf DEF Within

\* How far the row of slices comes with one, as in TakeSlice.
SlicedTo(slice, stop) ==
    IF slice.count = 0 \/ Stop(slice) + slice.hole >= stop THEN stop ELSE Stop(slice)

LEMMA FirstSliceIs ==
    ASSUME NEW se \in SparseKind,
           NEW start \in Int, se.begin <= start, start < OuterEnd(se),
           NEW stop \in Int, start < stop, stop <= OuterEnd(se)
    PROVE  /\ SlicedTo(FirstSlice(se, start, stop), stop) \in start .. stop
           /\ BytesIn(FirstSlice(se, start, stop)) =
                 Within(se, start, SlicedTo(FirstSlice(se, start, stop), stop))
<1>1. PICK s \in Nat \ {0}, h \in Nat, z \in Nat \ {0}, c \in Nat \ {0}, b0 \in Nat :
          /\ s = StrideSize(se) /\ h = se.hole /\ z = se.size /\ s = z + h
          /\ c = se.count /\ b0 = se.begin
  BY KindIs
<1>2. start \in Nat /\ stop \in Nat
  BY <1>1
<1>3. PICK f \in Nat : f = ShiftedIndexAt(se, start) /\ Row(se, f) - h <= start /\ start < Row(se, f) + z
  BY <1>1, <1>2, ShiftedIndexIs
<1>4. PICK l \in Nat : l = IndexAt(se, stop) /\ Row(se, l) <= stop /\ stop < Row(se, l) + s
  <2>1. se.begin <= stop
    BY <1>1, <1>2
  <2>2. IndexAt(se, stop) \in Nat /\ Row(se, IndexAt(se, stop)) <= stop
        /\ stop < Row(se, IndexAt(se, stop)) + StrideSize(se)
    BY <1>2, <2>1, IndexIs
  <2> QED
    BY <1>1, <2>2
<1>5. PICK R : R = [i \in Int |-> Row(se, i)]
  OBVIOUS
<1>6. \A i \in Int : R[i] \in Int /\ R[i] = Row(se, i)
  BY <1>5, RowsApart
<1>7. \A i, j \in Int : i < j => R[i] + s <= R[j]
  BY <1>1, <1>6, RowsApart
<1>8. OuterEnd(se) = R[c]
  BY <1>1, <1>6, EndsAre
<1>9. PICK slice : slice = FirstSlice(se, start, stop)
  OBVIOUS
<1>10. PICK left \in Int : left = (IF start <= R[f] THEN R[f] ELSE start)
  BY <1>2, <1>6
<1>11. R[f] - h <= start /\ start < R[f] + z /\ R[l] <= stop /\ stop < R[l] + s /\ stop <= R[c]
  BY <1>3, <1>4, <1>6, <1>8
<1>12. slice =
          IF f >= c THEN Nothing
          ELSE IF stop < R[l] + z /\ l = f THEN Sparse(left, stop - left, 0, 1)
          ELSE IF start <= R[f]
               THEN Sparse(R[f], z, h, (IF stop < R[l] + z THEN l - 1 ELSE l) - f + 1)
          ELSE Sparse(start, z - (start - R[f]), 0, 1)
  <2>1. R[f] = se.begin + f * StrideSize(se) /\ R[l] = se.begin + l * StrideSize(se)
    BY <1>6 DEF Row
  <2> QED
    BY <1>1, <1>3, <1>4, <1>9, <1>10, <2>1 DEF FirstSlice
<1>13. l >= f - 1 /\ (stop < R[l] + z => l >= f)
  <2> SUFFICES ASSUME l < f PROVE l >= f - 1 /\ ~ stop < R[l] + z
    BY <1>3, <1>4
  <2>1. R[l] + s <= R[f]
    BY <1>7
  <2>2. ~ stop < R[l] + z
    BY <1>1, <1>6, <1>11, <2>1
  <2>3. CASE l < f - 1
    <3>1. R[l] + s <= R[f - 1] /\ R[f - 1] + s <= R[f]
      BY <1>7, <2>3
    <3> QED
      BY <1>1, <1>6, <1>11, <3>1
  <2> QED
    BY <2>2, <2>3
<1>14. l <= c /\ (~ stop < R[l] + z => l < c)
  <2>1. ASSUME c < l PROVE FALSE
    <3>1. R[c] + s <= R[l]
      BY <1>7, <2>1
    <3> QED
      BY <1>1, <1>6, <1>11, <3>1
  <2>2. ASSUME l = c PROVE stop < R[l] + z
    BY <1>1, <1>6, <1>11, <2>2
  <2> QED
    BY <2>1, <2>2
<1>15. ASSUME NEW e \in start .. stop, SlicedTo(slice, stop) = e,
              \A b \in Int : b \in BytesIn(slice) <=>
                 start <= b /\ b < e /\ \E i \in 0 .. c - 1 : OfExtent(se, b, i),
              BytesIn(slice) \subseteq Int
       PROVE  SlicedTo(slice, stop) \in start .. stop /\ BytesIn(slice) = Within(se, start, SlicedTo(slice, stop))
  BY <1>1, <1>15, WithinIs DEF Within
<1>16. \A b \in Int, i \in Int : OfExtent(se, b, i) <=> R[i] <= b /\ b < R[i] + z
  BY <1>1, <1>6 DEF OfExtent
<1>17. ASSUME NEW b \in Int, NEW i \in Int, OfExtent(se, b, i), start <= b PROVE f <= i
  <2> SUFFICES ASSUME i < f PROVE FALSE
    BY <1>17
  <2>1. R[i] + s <= R[f]
    BY <1>7
  <2>2. b < R[i] + z
    BY <1>16, <1>17
  <2> QED
    BY <1>1, <1>2, <1>6, <1>11, <1>17, <2>1, <2>2
<1>18. ASSUME NEW b \in Int, NEW i \in Int, OfExtent(se, b, i), b < stop PROVE i <= l
  <2> SUFFICES ASSUME l < i PROVE FALSE
    BY <1>18
  <2>1. R[l] + s <= R[i]
    BY <1>7
  <2>2. R[i] <= b
    BY <1>16, <1>18
  <2> QED
    BY <1>1, <1>2, <1>6, <1>11, <1>18, <2>1, <2>2
<1>19. CASE f >= c
  <2>1. slice = Nothing
    BY <1>12, <1>19
  <2>2. SlicedTo(slice, stop) = stop /\ BytesIn(slice) = {}
    BY <2>1, NothingIs DEF SlicedTo
  <2>3. ASSUME NEW b \in Int, start <= b, NEW i \in 0 .. c - 1, OfExtent(se, b, i) PROVE FALSE
    BY <1>17, <1>19, <2>3
  <2>4. stop \in start .. stop
    OBVIOUS
  <2> QED
    BY <1>9, <1>15, <2>2, <2>3, <2>4
<1>20. CASE f < c /\ stop < R[l] + z /\ l = f
  <2>1. slice = Sparse(left, stop - left, 0, 1)
    BY <1>12, <1>20
  <2>2. BytesIn(slice) = left .. stop - 1 /\ Stop(slice) = stop /\ slice.hole = 0 /\ slice.count = 1
    <3>1. PICK n \in Int : n = stop - left
      BY <1>2
    <3>2. slice = Sparse(left, n, 0, 1)
      BY <2>1, <3>1
    <3>3. left + n - 1 = stop - 1 /\ left + n = stop
      BY <1>2, <3>1
    <3>4. BytesIn(slice) = left .. left + n - 1 /\ Stop(slice) = left + n
      BY <3>2, PieceIs
    <3>5. slice.hole = 0 /\ slice.count = 1
      BY <3>2 DEF Sparse
    <3> QED
      BY <3>3, <3>4, <3>5
  <2>3. SlicedTo(slice, stop) = stop
    BY <2>2 DEF SlicedTo
  <2>4. ASSUME NEW b \in Int
        PROVE  b \in BytesIn(slice) <=> start <= b /\ b < stop /\ \E i \in 0 .. c - 1 : OfExtent(se, b, i)
    <3>1. ASSUME left <= b, b < stop PROVE start <= b /\ OfExtent(se, b, f) /\ f \in 0 .. c - 1
      BY <1>2, <1>6, <1>10, <1>11, <1>16, <1>20, <3>1
    <3>2. ASSUME start <= b, b < stop, NEW i \in 0 .. c - 1, OfExtent(se, b, i) PROVE left <= b
      <4>1. i = f
        BY <1>17, <1>18, <1>20, <3>2
      <4> QED
        BY <1>10, <1>16, <3>2, <4>1
    <3> QED
      BY <1>2, <2>2, <3>1, <3>2
  <2>5. stop \in start .. stop
    OBVIOUS
  <2> QED
    BY <1>2, <1>9, <1>15, <2>2, <2>3, <2>4, <2>5
<1>21. CASE f < c /\ ~ (stop < R[l] + z /\ l = f) /\ start <= R[f]
  <2>1. PICK m \in Int : m = IF stop < R[l] + z THEN l - 1 ELSE l
    OBVIOUS
  <2>2. PICK n \in Nat : n = m - f + 1
    BY <1>13, <1>21, <2>1
  <2>3. slice = ExtentsFrom(se, f, n)
    BY <1>1, <1>6, <1>12, <1>21, <2>1, <2>2 DEF ExtentsFrom
  <2>4. /\ slice.count = n /\ slice.hole = h /\ Stop(slice) = R[m + 1] - h
        /\ \A b : b \in BytesIn(slice) <=> b \in Int /\ \E i \in f .. m : OfExtent(se, b, i)
    <3>1. f + n = m + 1 /\ f + n - 1 = m
      BY <2>2
    <3>2. slice.count = n
      BY <2>3 DEF ExtentsFrom, Sparse
    <3>3. slice.hole = h
      BY <1>1, <2>3 DEF ExtentsFrom, Sparse
    <3>4. Stop(slice) = R[m + 1] - h
      <4>1. Stop(slice) = Row(se, f + n) - se.hole
        BY <2>3, ExtentsFromAre
      <4> QED
        BY <1>1, <1>6, <3>1, <4>1
    <3>5. ASSUME NEW b PROVE b \in BytesIn(slice) <=> b \in Int /\ \E i \in f .. m : OfExtent(se, b, i)
      <4>1. b \in BytesIn(slice) <=> b \in Int /\ \E i \in f .. f + n - 1 : OfExtent(se, b, i)
        BY <2>3, ExtentsFromAre
      <4> QED
        BY <3>1, <4>1
    <3> QED
      BY <3>2, <3>3, <3>4, <3>5
  <2>5. m < c
    BY <1>14, <2>1
  <2>6. CASE n = 0
    <3>1. SlicedTo(slice, stop) = stop
      BY <2>4, <2>6 DEF SlicedTo
    <3>2. m = f - 1 /\ f .. m = {} /\ l = m
      BY <1>13, <1>21, <2>1, <2>2, <2>6
    <3>3. BytesIn(slice) = {}
      BY <2>4, <3>2
    <3>4. ASSUME NEW b \in Int, start <= b, b < stop, NEW i \in 0 .. c - 1, OfExtent(se, b, i) PROVE FALSE
      BY <1>17, <1>18, <3>2, <3>4
    <3>5. stop \in start .. stop
      OBVIOUS
    <3> QED
      BY <1>9, <1>15, <3>1, <3>3, <3>4, <3>5
  <2>7. CASE n # 0
    <3>1. f <= m
      BY <2>2, <2>7
    <3>2. PICK e \in Int : e = SlicedTo(slice, stop)
      BY <1>6, <2>4, <1>2 DEF SlicedTo
    <3>3. IF R[m + 1] >= stop THEN e = stop ELSE e = R[m + 1] - h
      <4>1. (R[m + 1] - h) + h = R[m + 1]
        BY <1>6
      <4> QED
        BY <2>4, <2>7, <3>2, <4>1 DEF SlicedTo
    <3>4. R[m] + z <= e /\ e <= stop /\ e <= R[m + 1]
      <4>1. R[m] + s <= R[m + 1]
        BY <1>7
      <4>2. CASE stop < R[l] + z
        <5>1. m + 1 = l /\ R[m + 1] <= stop
          BY <1>11, <2>1, <4>2
        <5> QED
          BY <1>1, <1>2, <1>6, <3>3, <4>1, <5>1
      <4>3. CASE ~ stop < R[l] + z
        <5>1. m = l /\ R[m] + z <= stop
          BY <1>6, <2>1, <4>3
        <5>2. R[m + 1] = R[m] + s
          <6>1. Row(se, m + 1) = Row(se, m) + StrideSize(se)
            BY RowsApart
          <6> QED
            BY <1>1, <1>6, <6>1
        <5>3. R[m + 1] >= stop
          BY <1>6, <1>11, <5>1, <5>2
        <5> QED
          BY <1>1, <1>2, <1>6, <3>3, <5>1, <5>3
      <4> QED
        BY <4>2, <4>3
    <3>5. R[f] <= R[m]
      <4>1. f = m \/ R[f] + s <= R[m]
        BY <1>7, <3>1
      <4> QED
        BY <1>6, <4>1
    <3>6. e \in start .. stop
      BY <1>2, <1>6, <1>21, <3>4, <3>5
    <3>7. ASSUME NEW b \in Int
          PROVE  b \in BytesIn(slice) <=> start <= b /\ b < e /\ \E i \in 0 .. c - 1 : OfExtent(se, b, i)
      <4>1. ASSUME NEW i \in f .. m, OfExtent(se, b, i) PROVE start <= b /\ b < e /\ i \in 0 .. c - 1
        <5>1. i = m \/ R[i] + s <= R[m]
          BY <1>7
        <5>2. i = f \/ R[f] + s <= R[i]
          BY <1>7
        <5>3. R[i] <= b /\ b < R[i] + z
          BY <1>16, <4>1
        <5>4. start <= b
          BY <1>2, <1>6, <1>21, <5>2, <5>3
        <5>5. b < e
          BY <1>6, <3>4, <5>1, <5>3
        <5> QED
          BY <2>5, <5>4, <5>5
      <4>2. ASSUME start <= b, b < e, NEW i \in 0 .. c - 1, OfExtent(se, b, i) PROVE i \in f .. m
        <5>1. f <= i
          BY <1>17, <4>2
        <5>2. ASSUME m < i PROVE FALSE
          <6>1. i = m + 1 \/ R[m + 1] + s <= R[i]
            BY <1>7, <5>2
          <6>2. R[i] <= b
            BY <1>16, <4>2
          <6> QED
            BY <1>6, <3>4, <4>2, <6>1, <6>2
        <5> QED
          BY <5>1, <5>2
      <4> QED
        BY <2>4, <4>1, <4>2
    <3> QED
      BY <1>9, <1>15, <2>4, <3>2, <3>6, <3>7
  <2> QED
    BY <2>6, <2>7
<1>22. CASE f < c /\ ~ (stop < R[l] + z /\ l = f) /\ ~ start <= R[f]
  <2>1. slice = Sparse(start, z - (start - R[f]), 0, 1)
    BY <1>12, <1>22
  <2>2. PICK e \in Int : e = R[f] + z
    BY <1>6
  <2>3. /\ BytesIn(slice) = start .. e - 1 /\ Stop(slice) = e /\ slice.hole = 0 /\ slice.count = 1
    <3>1. PICK n \in Int : n = z - (start - R[f])
      BY <1>2, <1>6
    <3>2. slice = Sparse(start, n, 0, 1)
      BY <2>1, <3>1
    <3>3. start + n - 1 = e - 1 /\ start + n = e
      BY <1>2, <1>6, <2>2, <3>1
    <3>4. BytesIn(slice) = start .. start + n - 1 /\ Stop(slice) = start + n
      BY <3>2, PieceIs
    <3>5. slice.hole = 0 /\ slice.count = 1
      BY <3>2 DEF Sparse
    <3> QED
      BY <3>3, <3>4, <3>5
  <2>4. start < e /\ e <= stop
    <3>1. l >= f
      <4> SUFFICES ASSUME l < f PROVE FALSE
        OBVIOUS
      <4>1. R[l] + s <= R[f]
        BY <1>7
      <4> QED
        BY <1>2, <1>6, <1>11, <1>22, <4>1
    <3>2. CASE l = f
      BY <1>2, <1>6, <1>11, <1>22, <2>2, <3>2
    <3>3. CASE l > f
      <4>1. R[f] + s <= R[l]
        BY <1>7, <3>3
      <4> QED
        BY <1>1, <1>2, <1>6, <1>11, <2>2, <4>1
    <3> QED
      BY <3>1, <3>2, <3>3
  <2>5. SlicedTo(slice, stop) = e
    BY <2>3, <2>4 DEF SlicedTo
  <2>6. ASSUME NEW b \in Int
        PROVE  b \in BytesIn(slice) <=> start <= b /\ b < e /\ \E i \in 0 .. c - 1 : OfExtent(se, b, i)
    <3>1. ASSUME start <= b, b < e PROVE OfExtent(se, b, f) /\ f \in 0 .. c - 1
      BY <1>2, <1>6, <1>16, <1>22, <2>2, <3>1
    <3> QED
      BY <1>2, <2>3, <3>1
  <2>7. e \in start .. stop
    BY <1>2, <2>4
  <2> QED
    BY <1>2, <1>9, <1>15, <2>3, <2>5, <2>6, <2>7
<1> QED
  BY <1>19, <1>20, <1>21, <1>22

\* The first slice of what begins at p.
LEMMA SliceStartIs ==
    ASSUME NEW se \in SparseKind, NEW p \in Int, se.begin <= p, p < OuterEnd(se)
    PROVE  FirstOf(SliceStartAt(se, p), Within(se, p, OuterEnd(se)))
<1>1. PICK s \in Nat \ {0}, h \in Nat, z \in Nat \ {0}, c \in Nat \ {0}, b0 \in Nat :
          /\ s = StrideSize(se) /\ h = se.hole /\ z = se.size /\ s = z + h
          /\ c = se.count /\ b0 = se.begin
  BY KindIs
<1>2. p \in Nat
  BY <1>1
<1>3. PICK f \in Nat : f = ShiftedIndexAt(se, p) /\ Row(se, f) - h <= p /\ p < Row(se, f) + z
  BY <1>1, <1>2, ShiftedIndexIs
<1>4. PICK R : R = [i \in Int |-> Row(se, i)]
  OBVIOUS
<1>5. \A i \in Int : R[i] \in Int /\ R[i] = Row(se, i)
  BY <1>4, RowsApart
<1>6. \A i, j \in Int : i < j => R[i] + s <= R[j]
  BY <1>1, <1>5, RowsApart
<1>7. OuterEnd(se) = R[c] /\ R[f] - h <= p /\ p < R[f] + z
  BY <1>1, <1>3, <1>5, EndsAre
<1>8. PICK slice : slice = SliceStartAt(se, p)
  OBVIOUS
<1>9. slice = IF f >= c THEN Nothing
              ELSE IF p > R[f] THEN Sparse(p, z - (p - R[f]), 0, 1)
              ELSE Sparse(R[f], z, h, c - f)
  <2>1. R[f] = se.begin + f * StrideSize(se)
    BY <1>5 DEF Row
  <2> QED
    BY <1>1, <1>3, <1>8, <2>1 DEF SliceStartAt
<1>10. \A b \in Int, i \in Int : OfExtent(se, b, i) <=> R[i] <= b /\ b < R[i] + z
  BY <1>1, <1>5 DEF OfExtent
<1>11. ASSUME NEW b \in Int, NEW i \in Int, OfExtent(se, b, i), p <= b PROVE f <= i
  <2> SUFFICES ASSUME i < f PROVE FALSE
    BY <1>11
  <2>1. R[i] + s <= R[f]
    BY <1>6
  <2>2. b < R[i] + z
    BY <1>10, <1>11
  <2> QED
    BY <1>1, <1>2, <1>5, <1>7, <1>11, <2>1, <2>2
<1>12. PICK wanted : wanted = Within(se, p, OuterEnd(se))
  OBVIOUS
<1>13. ASSUME NEW b
       PROVE  b \in wanted <=>
                 b \in Int /\ p <= b /\ b < R[c] /\ \E i \in 0 .. c - 1 : OfExtent(se, b, i)
  <2>1. OuterEnd(se) \in Int
    BY <1>5, <1>7
  <2> QED
    BY <1>1, <1>7, <1>12, <2>1, WithinIs
<1>14. CASE f >= c
  <2>1. slice = Nothing
    BY <1>9, <1>14
  <2>2. BytesIn(slice) = {}
    BY <2>1, NothingIs
  <2>3. wanted = {}
    <3> SUFFICES ASSUME NEW b \in wanted PROVE FALSE
      OBVIOUS
    <3>1. PICK i \in 0 .. c - 1 : OfExtent(se, b, i)
      BY <1>13
    <3> QED
      BY <1>11, <1>13, <1>14, <3>1
  <2> QED
    BY <1>8, <1>12, <2>2, <2>3 DEF FirstOf
<1>15. CASE f < c /\ p > R[f]
  <2>1. PICK e \in Int : e = R[f] + z
    BY <1>5
  <2>2. BytesIn(slice) = p .. e - 1 /\ Stop(slice) = e
    <3>1. PICK n \in Int : n = z - (p - R[f])
      BY <1>2, <1>5
    <3>2. slice = Sparse(p, n, 0, 1)
      BY <1>9, <1>15, <3>1
    <3>3. p + n - 1 = e - 1 /\ p + n = e
      BY <1>2, <1>5, <2>1, <3>1
    <3>4. BytesIn(slice) = p .. p + n - 1 /\ Stop(slice) = p + n
      BY <3>2, PieceIs
    <3> QED
      BY <3>3, <3>4
  <2>3. p < e /\ e <= R[c]
    <3>1. R[f] + s <= R[c]
      BY <1>6, <1>15
    <3> QED
      BY <1>1, <1>2, <1>5, <1>7, <2>1, <3>1
  <2>4. ASSUME NEW b PROVE b \in BytesIn(slice) <=> b \in wanted /\ b < e
    <3>1. ASSUME b \in Int, p <= b, b < e PROVE OfExtent(se, b, f) /\ f \in 0 .. c - 1 /\ b < R[c]
      BY <1>2, <1>5, <1>10, <1>15, <2>1, <2>3, <3>1
    <3> QED
      BY <1>2, <1>13, <2>2, <3>1
  <2>5. p \in BytesIn(slice)
    BY <1>2, <2>2, <2>3
  <2> QED
    BY <1>8, <1>12, <2>2, <2>4, <2>5 DEF FirstOf
<1>16. CASE f < c /\ ~ p > R[f]
  <2>1. PICK n \in Nat : n = c - f /\ f + n = c /\ n # 0
    BY <1>16
  <2>2. slice = ExtentsFrom(se, f, n)
    BY <1>1, <1>5, <1>9, <1>16, <2>1 DEF ExtentsFrom
  <2>3. Stop(slice) = R[c] - h
    <3>1. Stop(slice) = Row(se, f + n) - se.hole
      BY <2>2, ExtentsFromAre
    <3> QED
      BY <1>1, <1>5, <2>1, <3>1
  <2>4. ASSUME NEW b PROVE b \in BytesIn(slice) <=> b \in Int /\ \E i \in f .. c - 1 : OfExtent(se, b, i)
    <3>1. b \in BytesIn(slice) <=> b \in Int /\ \E i \in f .. f + n - 1 : OfExtent(se, b, i)
      BY <2>2, ExtentsFromAre
    <3> QED
      BY <2>1, <3>1
  <2>5. ASSUME NEW b \in Int, NEW i \in f .. c - 1, OfExtent(se, b, i)
        PROVE  p <= b /\ b < R[c] - h
    <3>1. R[i] + s <= R[c]
      BY <1>6
    <3>2. i = f \/ R[f] + s <= R[i]
      BY <1>6
    <3>3. R[i] <= b /\ b < R[i] + z
      BY <1>10, <2>5
    <3> QED
      BY <1>1, <1>2, <1>5, <1>16, <3>1, <3>2, <3>3
  <2>6. ASSUME NEW b PROVE b \in BytesIn(slice) <=> b \in wanted /\ b < R[c] - h
    <3>1. ASSUME b \in BytesIn(slice) PROVE b \in wanted /\ b < R[c] - h
      <4>1. b \in Int
        BY <2>4, <3>1
      <4>2. PICK i \in f .. c - 1 : OfExtent(se, b, i)
        BY <2>4, <3>1
      <4>3. p <= b /\ b < R[c] - h /\ b < R[c]
        BY <1>1, <1>5, <2>5, <4>1, <4>2
      <4> QED
        BY <1>13, <4>1, <4>2, <4>3
    <3>2. ASSUME b \in wanted PROVE b \in BytesIn(slice)
      <4>1. PICK i \in 0 .. c - 1 : OfExtent(se, b, i)
        BY <1>13, <3>2
      <4>2. b \in Int /\ f <= i
        BY <1>11, <1>13, <3>2, <4>1
      <4> QED
        BY <2>4, <4>1, <4>2
    <3> QED
      BY <3>1, <3>2
  <2>7. R[f] \in BytesIn(slice)
    <3>1. R[f] \in Int /\ OfExtent(se, R[f], f) /\ f \in f .. c - 1
      BY <1>1, <1>5, <1>10, <1>16
    <3> QED
      BY <2>4, <3>1
  <2>8. BytesIn(slice) = {b \in wanted : b < Stop(slice)} /\ BytesIn(slice) # {}
    BY <2>3, <2>6, <2>7
  <2> QED
    BY <1>8, <1>12, <2>8 DEF FirstOf
<1> QED
  BY <1>14, <1>15, <1>16

\* The first slice of what ends at p.
LEMMA SliceStopIs ==
    ASSUME NEW se \in SparseKind, NEW p \in Int, se.begin < p, p < OuterEnd(se)
    PROVE  FirstOf(SliceStopAt(se, p), Within(se, se.begin, p))
<1>1. PICK s \in Nat \ {0}, h \in Nat, z \in Nat \ {0}, c \in Nat \ {0}, b0 \in Nat :
          /\ s = StrideSize(se) /\ h = se.hole /\ z = se.size /\ s = z + h
          /\ c = se.count /\ b0 = se.begin
  BY KindIs
<1>2. p \in Nat /\ se.begin <= p
  BY <1>1
<1>3. PICK l \in Nat : l = IndexAt(se, p) /\ Row(se, l) <= p /\ p < Row(se, l) + s
  BY <1>1, <1>2, IndexIs
<1>4. PICK R : R = [i \in Int |-> Row(se, i)]
  OBVIOUS
<1>5. \A i \in Int : R[i] \in Int /\ R[i] = Row(se, i)
  BY <1>4, RowsApart
<1>6. \A i, j \in Int : i < j => R[i] + s <= R[j]
  BY <1>1, <1>5, RowsApart
<1>7. p < R[c] /\ R[l] <= p /\ p < R[l] + s /\ R[0] = b0
  BY <1>1, <1>3, <1>5, EndsAre, RowsApart
<1>8. PICK slice : slice = SliceStopAt(se, p)
  OBVIOUS
<1>9. slice = IF p < R[l] + z /\ l = 0 THEN Sparse(b0, p - b0, 0, 1)
              ELSE Sparse(b0, z, h, IF p < R[l] + z THEN l ELSE l + 1)
  <2>1. R[l] = se.begin + l * StrideSize(se)
    BY <1>5 DEF Row
  <2>2. ~ p <= b0
    BY <1>1, <1>2
  <2> QED
    BY <1>1, <1>3, <1>8, <2>1, <2>2 DEF SliceStopAt
<1>10. \A b \in Int, i \in Int : OfExtent(se, b, i) <=> R[i] <= b /\ b < R[i] + z
  BY <1>1, <1>5 DEF OfExtent
<1>11. l < c
  <2> SUFFICES ASSUME c <= l PROVE FALSE
    OBVIOUS
  <2>1. c = l \/ R[c] + s <= R[l]
    BY <1>6
  <2> QED
    BY <1>2, <1>5, <1>7, <2>1
<1>12. PICK wanted : wanted = Within(se, b0, p)
  OBVIOUS
<1>13. \A b : b \in wanted <=> b \in Int /\ b0 <= b /\ b < p /\ \E i \in 0 .. c - 1 : OfExtent(se, b, i)
  BY <1>1, <1>2, <1>12, WithinIs
<1>14. CASE p < R[l] + z /\ l = 0
  <2>1. BytesIn(slice) = b0 .. p - 1 /\ Stop(slice) = p
    <3>1. PICK n \in Int : n = p - b0
      BY <1>2
    <3>2. slice = Sparse(b0, n, 0, 1)
      BY <1>9, <1>14, <3>1
    <3>3. b0 + n - 1 = p - 1 /\ b0 + n = p
      BY <1>2, <3>1
    <3>4. BytesIn(slice) = b0 .. b0 + n - 1 /\ Stop(slice) = b0 + n
      BY <3>2, PieceIs
    <3> QED
      BY <3>3, <3>4
  <2>2. ASSUME NEW b PROVE b \in BytesIn(slice) <=> b \in wanted /\ b < p
    <3>1. ASSUME b \in Int, b0 <= b, b < p PROVE OfExtent(se, b, 0) /\ 0 \in 0 .. c - 1
      BY <1>2, <1>5, <1>7, <1>10, <1>14, <3>1
    <3> QED
      BY <1>2, <1>13, <2>1, <3>1
  <2>3. b0 \in BytesIn(slice)
    BY <1>1, <1>2, <2>1
  <2> QED
    BY <1>1, <1>8, <1>12, <2>1, <2>2, <2>3 DEF FirstOf
<1>15. CASE ~ (p < R[l] + z /\ l = 0)
  <2>1. PICK n \in Nat : n = (IF p < R[l] + z THEN l ELSE l + 1) /\ n # 0 /\ n <= c
    BY <1>11, <1>15
  <2>2. slice = ExtentsFrom(se, 0, n)
    BY <1>1, <1>5, <1>7, <1>9, <1>15, <2>1 DEF ExtentsFrom
  <2>3. Stop(slice) = R[n] - h
    <3>1. Stop(slice) = Row(se, 0 + n) - se.hole
      BY <2>2, ExtentsFromAre
    <3> QED
      BY <1>1, <1>5, <3>1
  <2>4. ASSUME NEW b PROVE b \in BytesIn(slice) <=> b \in Int /\ \E i \in 0 .. n - 1 : OfExtent(se, b, i)
    <3>1. b \in BytesIn(slice) <=> b \in Int /\ \E i \in 0 .. 0 + n - 1 : OfExtent(se, b, i)
      BY <2>2, ExtentsFromAre
    <3> QED
      BY <3>1
  <2>5. R[n] - h <= p
    <3>1. CASE p < R[l] + z
      BY <1>2, <1>5, <1>7, <2>1, <3>1
    <3>2. CASE ~ p < R[l] + z
      <4>1. Row(se, l + 1) = Row(se, l) + StrideSize(se)
        BY RowsApart
      <4> QED
        BY <1>1, <1>2, <1>5, <2>1, <3>2, <4>1
    <3> QED
      BY <3>1, <3>2
  <2>6. ASSUME NEW b \in Int, NEW i \in 0 .. n - 1, OfExtent(se, b, i)
        PROVE  b0 <= b /\ b < R[n] - h
    <3>1. R[i] + s <= R[n]
      BY <1>6
    <3>2. i = 0 \/ R[0] + s <= R[i]
      BY <1>6
    <3>3. R[i] <= b /\ b < R[i] + z
      BY <1>10, <2>6
    <3> QED
      BY <1>1, <1>5, <1>7, <3>1, <3>2, <3>3
  <2>7. ASSUME NEW b \in Int, NEW i \in Int, OfExtent(se, b, i), b < R[n] - h PROVE i < n
    <3> SUFFICES ASSUME n <= i PROVE FALSE
      BY <2>7
    <3>1. i = n \/ R[n] + s <= R[i]
      BY <1>6
    <3>2. R[i] <= b
      BY <1>10, <2>7
    <3> QED
      BY <1>1, <1>5, <2>7, <3>1, <3>2
  <2>8. ASSUME NEW b PROVE b \in BytesIn(slice) <=> b \in wanted /\ b < R[n] - h
    <3>1. ASSUME b \in BytesIn(slice) PROVE b \in wanted /\ b < R[n] - h
      <4>1. b \in Int
        BY <2>4, <3>1
      <4>2. PICK i \in 0 .. n - 1 : OfExtent(se, b, i)
        BY <2>4, <3>1
      <4>3. b0 <= b /\ b < R[n] - h /\ b < p
        BY <1>2, <1>5, <2>5, <2>6, <4>1, <4>2
      <4>4. i \in 0 .. c - 1
        BY <2>1
      <4> QED
        BY <1>13, <4>1, <4>2, <4>3, <4>4
    <3>2. ASSUME b \in wanted, b < R[n] - h PROVE b \in BytesIn(slice)
      <4>1. PICK i \in 0 .. c - 1 : OfExtent(se, b, i)
        BY <1>13, <3>2
      <4>2. b \in Int
        BY <1>13, <3>2
      <4>3. i \in 0 .. n - 1
        BY <2>7, <3>2, <4>1, <4>2
      <4> QED
        BY <2>4, <4>1, <4>2, <4>3
    <3> QED
      BY <3>1, <3>2
  <2>9. b0 \in BytesIn(slice)
    <3>1. OfExtent(se, b0, 0) /\ 0 \in 0 .. n - 1
      BY <1>1, <1>5, <1>7, <1>10, <2>1
    <3> QED
      BY <2>4, <3>1
  <2>10. BytesIn(slice) = {b \in wanted : b < Stop(slice)} /\ BytesIn(slice) # {}
    BY <2>3, <2>8, <2>9
  <2> QED
    BY <1>1, <1>8, <1>12, <2>10 DEF FirstOf
<1> QED
  BY <1>14, <1>15

-----------------------------------------------------------------------------
(* Normalised, and by the place: the same bytes.                           *)

LEMMA NormalizeIs ==
    ASSUME NEW se \in SparseKind PROVE BytesIn(Normalize(se)) = BytesIn(se)
<1>1. PICK s \in Nat \ {0}, h \in Nat, z \in Nat \ {0}, c \in Nat \ {0}, b0 \in Nat :
          /\ s = StrideSize(se) /\ h = se.hole /\ z = se.size /\ s = z + h
          /\ c = se.count /\ b0 = se.begin
  BY KindIs
<1>2. se = [begin |-> b0, size |-> z, hole |-> h, count |-> c]
  BY <1>1 DEF SparseKind
<1>3. Row(se, 0) = b0
  BY <1>1, RowsApart
<1>4. PICK R : R = [i \in Int |-> Row(se, i)]
  OBVIOUS
<1>5. \A i \in Int : R[i] \in Int /\ R[i] = Row(se, i)
  BY <1>4, RowsApart
<1>6. \A i, j \in Int : i < j => R[i] + s <= R[j]
  BY <1>1, <1>5, RowsApart
<1>7. CASE c = 1
  <2>1. Normalize(se) = Sparse(b0, z, 0, 1)
    BY <1>2, <1>7 DEF Normalize, Sparse
  <2>2. BytesIn(Normalize(se)) = b0 .. b0 + z - 1
    BY <2>1, PieceIs
  <2>3. ASSUME NEW b PROVE b \in BytesIn(se) <=> b \in b0 .. b0 + z - 1
    <3>1. b \in BytesIn(se) <=> b \in Int /\ \E i \in 0 .. c - 1 : OfExtent(se, b, i)
      BY <1>1, BytesOf
    <3>2. 0 .. c - 1 = {0}
      BY <1>7
    <3> QED
      BY <1>1, <1>3, <3>1, <3>2 DEF OfExtent
  <2> QED
    BY <2>2, <2>3
<1>8. CASE c > 1 /\ h = 0
  <2>1. PICK w \in Int : w = z * c
    OBVIOUS
  <2>2. Normalize(se) = Sparse(b0, w, 0, 1)
    <3>1. Normalize(se) = [se EXCEPT !.size = se.size * se.count, !.count = 1]
      BY <1>1, <1>8 DEF Normalize
    <3>2. se.size * se.count = w
      BY <1>1, <2>1
    <3>3. PICK one \in Int : one = 1
      OBVIOUS
    <3>4. PICK t : t = [se EXCEPT !.size = w, !.count = one]
      OBVIOUS
    <3>5. t \in [begin : Int, size : Int, hole : Int, count : Int]
      <4>1. se \in [begin : Int, size : Int, hole : Int, count : Int]
        BY DEF SparseKind
      <4> QED
        BY <2>1, <3>3, <3>4, <4>1
    <3>6. t.begin = b0 /\ t.size = w /\ t.hole = 0 /\ t.count = 1
      BY <1>1, <1>2, <1>8, <3>3, <3>4
    <3>7. t = Sparse(b0, w, 0, 1)
      BY <3>5, <3>6 DEF Sparse
    <3> QED
      BY <3>1, <3>2, <3>3, <3>4, <3>7
  <2>3. BytesIn(Normalize(se)) = b0 .. b0 + w - 1
    BY <2>2, PieceIs
  <2>4. R[c] = b0 + w
    <3>1. z = s
      BY <1>1, <1>8
    <3>2. w = c * s
      BY <2>1, <3>1
    <3>3. R[c] = se.begin + c * StrideSize(se)
      BY <1>5 DEF Row
    <3> QED
      BY <1>1, <3>2, <3>3
  <2>5. ASSUME NEW b PROVE b \in BytesIn(se) <=> b \in b0 .. b0 + w - 1
    <3>1. b \in BytesIn(se) <=> b \in Int /\ \E i \in 0 .. c - 1 : OfExtent(se, b, i)
      BY <1>1, BytesOf
    <3>2. ASSUME b \in Int, NEW i \in 0 .. c - 1, OfExtent(se, b, i) PROVE b \in b0 .. b0 + w - 1
      <4>1. R[i] >= b0 /\ R[i] + s <= R[c]
        <5>1. Row(se, i) >= se.begin
          BY RowsApart
        <5>2. R[i] + s <= R[c]
          BY <1>6
        <5> QED
          BY <1>1, <1>5, <5>1, <5>2
      <4>2. R[i] <= b /\ b < R[i] + z
        BY <1>1, <1>5, <3>2 DEF OfExtent
      <4> QED
        BY <1>1, <1>8, <1>5, <2>4, <3>2, <4>1, <4>2
    <3>3. ASSUME b \in b0 .. b0 + w - 1 PROVE b \in Int /\ \E i \in 0 .. c - 1 : OfExtent(se, b, i)
      <4>1. b \in Nat /\ se.begin <= b
        BY <1>1, <3>3
      <4>2. PICK q \in Nat : q = IndexAt(se, b) /\ Row(se, q) <= b /\ b < Row(se, q) + s
        BY <1>1, <4>1, IndexIs
      <4>3. OfExtent(se, b, q)
        BY <1>1, <1>8, <4>2 DEF OfExtent
      <4>4. q < c
        <5> SUFFICES ASSUME c <= q PROVE FALSE
          OBVIOUS
        <5>1. c = q \/ R[c] + s <= R[q]
          BY <1>6
        <5>2. R[q] <= b
          BY <1>5, <4>2
        <5> QED
          BY <1>5, <2>4, <3>3, <5>1, <5>2
      <4> QED
        BY <4>1, <4>3, <4>4
    <3> QED
      BY <3>1, <3>2, <3>3
  <2> QED
    BY <2>3, <2>5
<1>9. CASE c > 1 /\ h # 0
  <2>1. Normalize(se) = se
    BY <1>1, <1>9 DEF Normalize
  <2> QED
    BY <2>1
<1> QED
  BY <1>7, <1>8, <1>9

LEMMA HolesAre ==
    ASSUME NEW se \in SparseKind
    PROVE  {p \in se.begin .. OuterEnd(se) - 1 : ~ IsInHole(se, p)} = BytesIn(se)
<1>1. PICK s \in Nat \ {0}, h \in Nat, z \in Nat \ {0}, c \in Nat \ {0}, b0 \in Nat :
          /\ s = StrideSize(se) /\ h = se.hole /\ z = se.size /\ s = z + h
          /\ c = se.count /\ b0 = se.begin
  BY KindIs
<1>2. PICK R : R = [i \in Int |-> Row(se, i)]
  OBVIOUS
<1>3. \A i \in Int : R[i] \in Int /\ R[i] = Row(se, i)
  BY <1>2, RowsApart
<1>4. \A i, j \in Int : i < j => R[i] + s <= R[j]
  BY <1>1, <1>3, RowsApart
<1>5. OuterEnd(se) = R[c] /\ \A i \in Nat : R[i] >= b0
  BY <1>1, <1>3, EndsAre, RowsApart
<1>6. \A b \in Int, i \in Int : OfExtent(se, b, i) <=> R[i] <= b /\ b < R[i] + z
  BY <1>1, <1>3 DEF OfExtent
<1>7. ASSUME NEW p \in Int, b0 <= p
      PROVE  \E q \in Nat : R[q] <= p /\ p < R[q] + s /\ (IsInHole(se, p) <=> p - R[q] >= z)
  <2>1. p \in Nat /\ se.begin <= p
    BY <1>1, <1>7
  <2>2. PICK q \in Nat : /\ q = IndexAt(se, p) /\ Row(se, q) <= p /\ p < Row(se, q) + s
                         /\ (p - se.begin) % StrideSize(se) = p - Row(se, q)
    BY <1>1, <2>1, IndexIs
  <2>3. IsInHole(se, p) <=> p - R[q] >= z
    BY <1>1, <1>3, <2>2 DEF IsInHole
  <2> QED
    BY <1>3, <2>2, <2>3
<1>8. ASSUME NEW p PROVE p \in BytesIn(se) <=> p \in Int /\ \E i \in 0 .. c - 1 : OfExtent(se, p, i)
  BY <1>1, BytesOf
<1>9. ASSUME NEW p \in b0 .. R[c] - 1, ~ IsInHole(se, p) PROVE p \in BytesIn(se)
  <2>1. p \in Int /\ b0 <= p /\ p < R[c]
    BY <1>3, <1>9
  <2>2. PICK q \in Nat : R[q] <= p /\ p < R[q] + s /\ (IsInHole(se, p) <=> p - R[q] >= z)
    BY <1>7, <2>1
  <2>3. OfExtent(se, p, q)
    BY <1>3, <1>6, <1>9, <2>1, <2>2
  <2>4. q < c
    <3> SUFFICES ASSUME c <= q PROVE FALSE
      OBVIOUS
    <3>1. c = q \/ R[c] + s <= R[q]
      BY <1>4
    <3> QED
      BY <1>3, <2>1, <2>2, <3>1
  <2> QED
    BY <1>8, <2>1, <2>3, <2>4
<1>10. ASSUME NEW p \in BytesIn(se) PROVE p \in b0 .. R[c] - 1 /\ ~ IsInHole(se, p)
  <2>1. p \in Int
    BY <1>8, <1>10
  <2>2. PICK i \in 0 .. c - 1 : OfExtent(se, p, i)
    BY <1>8, <1>10
  <2>3. R[i] <= p /\ p < R[i] + z /\ R[i] >= b0 /\ R[i] + s <= R[c]
    BY <1>4, <1>5, <1>6, <2>1, <2>2
  <2>4. b0 <= p /\ p < R[c]
    BY <1>1, <1>3, <2>1, <2>3
  <2>5. PICK q \in Nat : R[q] <= p /\ p < R[q] + s /\ (IsInHole(se, p) <=> p - R[q] >= z)
    BY <1>7, <2>1, <2>4
  <2>6. q = i
    <3>1. q = i \/ R[q] + s <= R[i] \/ R[i] + s <= R[q]
      BY <1>4
    <3> QED
      BY <1>1, <1>3, <2>1, <2>3, <2>5, <3>1
  <2> QED
    BY <1>3, <2>1, <2>3, <2>4, <2>5, <2>6
<1> QED
  BY <1>1, <1>5, <1>9, <1>10

-----------------------------------------------------------------------------
(* The row of slices. *)

SparseInv ==
    /\ sparse \in SparseKind
    /\ interval = <<interval[1], interval[2]>>
    /\ interval[1] \in Int /\ sparse.begin <= interval[1] /\ interval[1] < interval[2]
    /\ interval[2] \in Int /\ interval[2] <= OuterEnd(sparse)
    /\ pos \in interval[1] .. interval[2]
    /\ slices = Within(sparse, interval[1], pos)

LEMMA InitSparseInv == SparseInit => SparseInv
<1> SUFFICES ASSUME SparseInit PROVE SparseInv
  OBVIOUS
<1>1. sparse \in SparseKind
  BY SparseAssumption DEF SparseInit, SparseKind
<1>2. sparse.begin \in Int /\ OuterEnd(sparse) \in Int
  BY <1>1, KindIs, EndsAre, RowsApart
<1>3. /\ interval[1] \in sparse.begin .. OuterEnd(sparse) - 1
      /\ interval[2] \in sparse.begin + 1 .. OuterEnd(sparse)
      /\ interval = <<interval[1], interval[2]>>
  BY DEF SparseInit
<1>4. Within(sparse, interval[1], interval[1]) = {}
  <2> SUFFICES ASSUME NEW b \in Within(sparse, interval[1], interval[1]) PROVE FALSE
    OBVIOUS
  <2>1. b \in Int /\ interval[1] <= b /\ b < interval[1]
    BY <1>1, BytesOf DEF Within
  <2> QED
    BY <1>2, <1>3, <2>1
<1> QED
  BY <1>1, <1>2, <1>3, <1>4 DEF SparseInit, SparseInv

LEMMA StepSparseInv == SparseInv /\ [TakeSlice]_sparseVars => SparseInv'
<1> SUFFICES ASSUME SparseInv, [TakeSlice]_sparseVars PROVE SparseInv'
  OBVIOUS
<1>1. CASE UNCHANGED sparseVars
  <2>1. sparse' = sparse /\ interval' = interval /\ pos' = pos /\ slices' = slices
    BY <1>1 DEF sparseVars
  <2> QED
    BY <2>1 DEF SparseInv
<1>2. CASE TakeSlice
  <2>1. PICK se, left, to, p : se = sparse /\ left = interval[1] /\ to = interval[2] /\ p = pos
    OBVIOUS
  <2>2. PICK slice : slice = FirstSlice(se, p, to)
    OBVIOUS
  <2>3. /\ slices' = slices \cup BytesIn(slice) /\ pos' = SlicedTo(slice, to)
        /\ sparse' = sparse /\ interval' = interval /\ p < to
    BY <1>2, <2>1, <2>2 DEF TakeSlice, SlicedTo
  <2>4. /\ se \in SparseKind /\ left \in Int /\ to \in Int /\ se.begin <= left /\ to <= OuterEnd(se)
        /\ p \in left .. to /\ slices = Within(se, left, p)
    BY <2>1 DEF SparseInv
  <2>5. se.begin \in Int /\ OuterEnd(se) \in Int
    BY <2>4, KindIs, EndsAre, RowsApart
  <2>6. p \in Int /\ se.begin <= p /\ p < OuterEnd(se)
    BY <2>3, <2>4, <2>5
  <2>7. pos' \in p .. to /\ BytesIn(slice) = Within(se, p, pos')
    BY <2>2, <2>3, <2>4, <2>6, FirstSliceIs
  <2>8. slices' = Within(se, left, pos')
    <3>1. ASSUME NEW b \in BytesIn(se) PROVE b \in Int
      BY <2>4, BytesOf
    <3> QED
      BY <2>3, <2>4, <2>6, <2>7, <3>1 DEF Within
  <2>9. pos' \in left .. to
    BY <2>4, <2>6, <2>7
  <2> QED
    BY <2>1, <2>3, <2>8, <2>9 DEF SparseInv
<1> QED
  BY <1>1, <1>2

LEMMA SparseInvExact == SparseInv => SlicesExact
<1> SUFFICES ASSUME SparseInv PROVE SlicesExact
  OBVIOUS
<1>1. /\ sparse \in SparseKind /\ slices = Within(sparse, interval[1], pos)
      /\ interval[1] \in Int /\ sparse.begin <= interval[1] /\ interval[1] < interval[2]
      /\ interval[2] \in Int /\ interval[2] <= OuterEnd(sparse)
  BY DEF SparseInv
<1>2. sparse.begin \in Int /\ OuterEnd(sparse) \in Int
  BY <1>1, KindIs, EndsAre, RowsApart
<1>3. FirstOf(SliceStartAt(sparse, interval[1]), Within(sparse, interval[1], OuterEnd(sparse)))
  <2>1. interval[1] < OuterEnd(sparse)
    BY <1>1, <1>2
  <2> QED
    BY <1>1, <2>1, SliceStartIs
<1>4. ASSUME interval[2] < OuterEnd(sparse)
      PROVE  FirstOf(SliceStopAt(sparse, interval[2]), Within(sparse, sparse.begin, interval[2]))
  <2>1. sparse.begin < interval[2]
    BY <1>1, <1>2
  <2> QED
    BY <1>1, <1>4, <2>1, SliceStopIs
<1> QED
  BY <1>1, <1>3, <1>4, NormalizeIs, HolesAre DEF SlicesExact

\* For sparse extents of any sizes and any intervals: the row of slices has the
\* bytes of the interval, and the slices that begin or end at a place agree with
\* it (sparse_extent.hpp:61-147).
THEOREM SlicesAlwaysExact == SparseSpec => []SlicesExact
  BY InitSparseInv, StepSparseInv, SparseInvExact, PTL DEF SparseSpec

-----------------------------------------------------------------------------
(* Varints.  Those of the numbers up to v are the values of a recursive    *)
(* function, and so is the number that is read back; that there are such   *)
(* functions, and what their values are, is shown from the least number    *)
(* at which it would fail.                                                 *)

\* What the varint of x is, given those of smaller numbers.
VarintBy(f, x) == IF x >= 128 THEN <<128 + (x % 128)>> \o f[x \div 128] ELSE <<x>>

VarintsTo(f, v) == f = [x \in 0 .. v |-> VarintBy(f, x)]

\* The seven bits of n bytes are those of x: in rest is what is left of it from
\* each byte on.
AddsUp(e, n, x) ==
    \E rest \in [1 .. n -> Nat] :
        /\ rest[1] = x
        /\ \A i \in 1 .. n : rest[i] = (e[i] % 128) + (IF i = n THEN 0 ELSE 128 * rest[i + 1])

\* Bytes e are a varint of x.
IsVarint(e, x) ==
    /\ e \in Seq(Nat) /\ Len(e) > 0
    /\ e[Len(e)] < 128 /\ \A i \in 1 .. Len(e) - 1 : e[i] >= 128
    /\ AddsUp(e, Len(e), x)

LEMMA SevenBits ==
    ASSUME NEW x \in Nat
    PROVE  /\ x % 128 \in 0 .. 127 /\ x \div 128 \in Nat
           /\ x = (x % 128) + 128 * (x \div 128)
           /\ (128 + (x % 128)) % 128 = x % 128
           /\ x < 128 => x % 128 = x
           /\ x >= 128 => x \div 128 < x
  OBVIOUS

LEMMA VarintsMore ==
    ASSUME NEW v \in Nat, NEW f, v # 0 => VarintsTo(f, v - 1)
    PROVE  \E g : VarintsTo(g, v)
<1>1. PICK g : g = [x \in 0 .. v |-> IF x = v THEN VarintBy(f, v) ELSE f[x]]
  OBVIOUS
<1>2. ASSUME NEW x \in 0 .. v, x # v PROVE g[x] = VarintBy(f, x)
  <2>1. v # 0 /\ x \in 0 .. v - 1
    BY <1>2
  <2>2. f[x] = VarintBy(f, x)
    BY <2>1 DEF VarintsTo
  <2> QED
    BY <1>1, <1>2, <2>2
<1>3. g[v] = VarintBy(f, v)
  BY <1>1
<1>4. ASSUME NEW x \in 0 .. v PROVE VarintBy(f, x) = VarintBy(g, x)
  <2>1. CASE x >= 128
    <3>1. x \div 128 \in 0 .. v /\ x \div 128 # v
      BY <2>1, SevenBits
    <3>2. g[x \div 128] = f[x \div 128]
      BY <1>1, <3>1
    <3> QED
      BY <2>1, <3>2 DEF VarintBy
  <2>2. CASE ~ x >= 128
    BY <2>2 DEF VarintBy
  <2> QED
    BY <2>1, <2>2
<1>5. \A x \in 0 .. v : g[x] = VarintBy(g, x)
  BY <1>2, <1>3, <1>4
<1>6. g = [x \in 0 .. v |-> g[x]]
  BY <1>1
<1>7. g = [x \in 0 .. v |-> VarintBy(g, x)]
  BY <1>5, <1>6, Zenon
<1> QED
  BY <1>7 DEF VarintsTo

LEMMA VarintsExist == ASSUME NEW v \in Nat PROVE \E f : VarintsTo(f, v)
<1> DEFINE Short == {k \in Nat : ~ \E f : VarintsTo(f, k)}
<1> SUFFICES ASSUME Short # {} PROVE FALSE
  OBVIOUS
<1>1. Short \in SUBSET Nat
  OBVIOUS
<1>2. ASSUME NEW k \in Short PROVE ~ \E f : VarintsTo(f, k)
  OBVIOUS
<1>3. ASSUME NEW k \in Nat, k \notin Short PROVE \E f : VarintsTo(f, k)
  BY <1>3
<1> HIDE DEF Short
<1>4. PICK k \in Short : \A m \in Short : k <= m
  BY <1>1, LeastNumber
<1>5. k \in Nat
  BY <1>1, <1>4
<1>6. PICK f : k # 0 => VarintsTo(f, k - 1)
  <2>1. CASE k # 0
    <3>1. k - 1 \in Nat /\ ~ (k <= k - 1)
      BY <1>5, <2>1
    <3> QED
      BY <1>3, <1>4, <3>1
  <2> QED
    BY <2>1
<1>7. \E g : VarintsTo(g, k)
  BY <1>5, <1>6, VarintsMore
<1> QED
  BY <1>2, <1>4, <1>7

\* One byte, and one byte more.
LEMMA ByteIsVarint == ASSUME NEW x \in Nat, x < 128 PROVE IsVarint(<<x>>, x)
<1>1. <<x>> \in Seq(Nat) /\ Len(<<x>>) = 1 /\ <<x>>[1] = x
  OBVIOUS
<1>2. PICK rest : rest = [i \in 1 .. 1 |-> x]
  OBVIOUS
<1>3. rest \in [1 .. 1 -> Nat] /\ rest[1] = x
  BY <1>2
<1>4. x = (x % 128) + 0
  BY SevenBits
<1> QED
  BY <1>1, <1>3, <1>4 DEF IsVarint, AddsUp

LEMMA LongerVarint ==
    ASSUME NEW x \in Nat, x >= 128, NEW e, IsVarint(e, x \div 128)
    PROVE  IsVarint(<<128 + (x % 128)>> \o e, x)
<1>1. PICK n \in Nat : n = Len(e) /\ n > 0
  BY DEF IsVarint, AddsUp
<1>2. PICK low \in Nat : low = 128 + (x % 128) /\ low >= 128 /\ low % 128 = x % 128
  BY SevenBits
<1>3. PICK w : w = <<low>> \o e
  OBVIOUS
<1>4. w \in Seq(Nat) /\ Len(w) = n + 1 /\ w[1] = low /\ \A i \in 2 .. n + 1 : w[i] = e[i - 1]
  BY <1>1, <1>2, <1>3 DEF IsVarint, AddsUp
<1>5. PICK rest \in [1 .. n -> Nat] :
          /\ rest[1] = x \div 128
          /\ \A i \in 1 .. n : rest[i] = (e[i] % 128) + (IF i = n THEN 0 ELSE 128 * rest[i + 1])
  <2>1. AddsUp(e, n, x \div 128)
    BY <1>1 DEF IsVarint
  <2> QED
    BY <2>1, Zenon DEF AddsUp
<1>6. PICK more : more = [i \in 1 .. n + 1 |-> IF i = 1 THEN x ELSE rest[i - 1]]
  OBVIOUS
<1>7. more \in [1 .. n + 1 -> Nat] /\ more[1] = x /\ \A i \in 2 .. n + 1 : more[i] = rest[i - 1]
  <2>1. \A i \in 2 .. n + 1 : i - 1 \in 1 .. n /\ i # 1 /\ i \in 1 .. n + 1
    BY <1>1
  <2>2. \A i \in 1 .. n + 1 : i = 1 \/ i \in 2 .. n + 1
    BY <1>1
  <2>3. \A i \in 2 .. n + 1 : rest[i - 1] \in Nat
    BY <1>5, <2>1
  <2>4. \A i \in 1 .. n + 1 : (IF i = 1 THEN x ELSE rest[i - 1]) \in Nat
    BY <2>2, <2>3
  <2>5. 1 \in 1 .. n + 1
    BY <1>1
  <2> QED
    BY <1>6, <2>1, <2>4, <2>5
<1>8. ASSUME NEW i \in 1 .. n + 1
      PROVE  more[i] = (w[i] % 128) + (IF i = n + 1 THEN 0 ELSE 128 * more[i + 1])
  <2>1. CASE i = 1
    <3>1. more[2] = x \div 128 /\ i # n + 1
      <4>1. 2 \in 2 .. n + 1 /\ 2 - 1 = 1
        BY <1>1
      <4> QED
        BY <1>1, <1>5, <1>7, <2>1, <4>1
    <3>2. x = (x % 128) + 128 * (x \div 128)
      BY SevenBits
    <3> QED
      BY <1>2, <1>4, <1>7, <2>1, <3>1, <3>2
  <2>2. CASE i # 1
    <3>1. PICK j \in 1 .. n : j = i - 1 /\ i = j + 1 /\ (i = n + 1 <=> j = n)
      BY <1>1, <2>2
    <3>2. rest[j] = (e[j] % 128) + (IF j = n THEN 0 ELSE 128 * rest[j + 1])
      BY <1>5
    <3>3. w[i] = e[j] /\ more[i] = rest[j]
      <4>1. i \in 2 .. n + 1
        BY <2>2
      <4>2. w[i] = e[i - 1] /\ more[i] = rest[i - 1]
        BY <1>4, <1>7, <4>1
      <4> QED
        BY <3>1, <4>2
    <3>4. CASE j = n
      BY <3>1, <3>2, <3>3, <3>4
    <3>5. CASE j # n
      <4>1. i + 1 \in 2 .. n + 1 /\ (i + 1) - 1 = j + 1
        BY <1>1, <3>1, <3>5
      <4>2. more[i + 1] = rest[j + 1]
        BY <1>7, <4>1
      <4> QED
        BY <3>1, <3>2, <3>3, <3>5, <4>2
    <3> QED
      BY <3>4, <3>5
  <2> QED
    BY <2>1, <2>2
<1>9. w[n + 1] < 128
  <2>1. n + 1 \in 2 .. n + 1 /\ (n + 1) - 1 = n
    BY <1>1
  <2>2. e[n] < 128
    BY <1>1 DEF IsVarint, AddsUp
  <2> QED
    BY <1>4, <2>1, <2>2
<1>10. ASSUME NEW i \in 1 .. n PROVE w[i] >= 128
  <2>1. CASE i = 1
    BY <1>2, <1>4, <2>1
  <2>2. CASE i # 1
    <3>1. i \in 2 .. n + 1 /\ i - 1 \in 1 .. n - 1
      BY <1>1, <2>2
    <3>2. e[i - 1] >= 128
      BY <1>1, <3>1 DEF IsVarint, AddsUp
    <3> QED
      BY <1>4, <3>1, <3>2
  <2> QED
    BY <2>1, <2>2
<1>11. IsVarint(w, x)
  <2>1. Len(w) > 0 /\ Len(w) - 1 = n
    BY <1>1, <1>4
  <2>2. PICK m : m = Len(w)
    OBVIOUS
  <2>3. m = n + 1
    BY <1>4, <2>2
  <2>4. more \in [1 .. m -> Nat]
    BY <1>7, <2>3
  <2>5. \A i \in 1 .. m : more[i] = (w[i] % 128) + (IF i = m THEN 0 ELSE 128 * more[i + 1])
    BY <1>8, <2>3
  <2>6. AddsUp(w, m, x)
    BY <1>7, <2>4, <2>5, Zenon DEF AddsUp
  <2>7. w[Len(w)] < 128 /\ \A i \in 1 .. Len(w) - 1 : w[i] >= 128
    BY <1>4, <1>9, <1>10, <2>1
  <2> QED
    BY <1>4, <2>1, <2>2, <2>6, <2>7 DEF IsVarint
<1> QED
  BY <1>2, <1>3, <1>11

LEMMA VarintsAre ==
    ASSUME NEW v \in Nat, NEW f, VarintsTo(f, v), NEW x \in 0 .. v
    PROVE  IsVarint(f[x], x)
<1> DEFINE Wrong == {k \in 0 .. v : ~ IsVarint(f[k], k)}
<1> SUFFICES ASSUME Wrong # {} PROVE FALSE
  OBVIOUS
<1>1. Wrong \in SUBSET Nat /\ Wrong \subseteq 0 .. v
  OBVIOUS
<1>2. ASSUME NEW k \in Wrong PROVE ~ IsVarint(f[k], k)
  OBVIOUS
<1>3. ASSUME NEW k \in 0 .. v, k \notin Wrong PROVE IsVarint(f[k], k)
  BY <1>3
<1> HIDE DEF Wrong
<1>4. PICK k \in Wrong : \A m \in Wrong : k <= m
  BY <1>1, LeastNumber
<1>5. k \in 0 .. v /\ k \in Nat
  BY <1>1, <1>4
<1>6. f[k] = VarintBy(f, k)
  BY <1>5 DEF VarintsTo
<1>7. CASE k < 128
  <2>1. f[k] = <<k>>
    BY <1>5, <1>6, <1>7 DEF VarintBy
  <2> QED
    BY <1>2, <1>4, <1>5, <1>7, <2>1, ByteIsVarint
<1>8. CASE k >= 128
  <2>1. k \div 128 \in Nat /\ k \div 128 < k
    BY <1>5, <1>8, SevenBits
  <2>2. PICK q \in Nat : q = k \div 128 /\ q < k
    BY <2>1
  <2>3. q \in 0 .. v /\ ~ k <= q
    BY <1>5, <2>2
  <2>4. IsVarint(f[q], q)
    BY <1>3, <1>4, <2>3
  <2>5. f[k] = <<128 + (k % 128)>> \o f[q]
    BY <1>6, <1>8, <2>2 DEF VarintBy
  <2> QED
    BY <1>2, <1>4, <1>5, <1>8, <2>2, <2>4, <2>5, LongerVarint
<1> QED
  BY <1>5, <1>7, <1>8

LEMMA EncodeVarintIs == ASSUME NEW v \in Nat PROVE IsVarint(EncodeVarint(v), v)
<1>1. EncodeVarint(v) = (CHOOSE f : VarintsTo(f, v))[v]
  BY DEF EncodeVarint, VarintsTo, VarintBy
<1>2. PICK f : f = CHOOSE g : VarintsTo(g, v)
  OBVIOUS
<1>3. VarintsTo(f, v)
  BY <1>2, VarintsExist
<1>4. IsVarint(f[v], v)
  BY <1>3, VarintsAre
<1> QED
  BY <1>1, <1>2, <1>4

-----------------------------------------------------------------------------
(* Varints in a row. *)

\* Behind a and up to b, the bytes are a varint of x.
VarintAt(bytes, a, b, x) ==
    /\ a < b /\ b <= Len(bytes)
    /\ bytes[b] < 128 /\ \A i \in a + 1 .. b - 1 : bytes[i] >= 128
    /\ \E rest \in [a + 1 .. b -> Nat] :
          /\ rest[a + 1] = x
          /\ \A i \in a + 1 .. b :
                rest[i] = (bytes[i] % 128) + (IF i = b THEN 0 ELSE 128 * rest[i + 1])

LEMMA VarintKept ==
    ASSUME NEW bytes \in Seq(Nat), NEW e \in Seq(Nat), NEW a \in Nat, NEW b \in Nat, NEW x,
           VarintAt(bytes, a, b, x)
    PROVE  VarintAt(bytes \o e, a, b, x)
<1> DEFINE w == bytes \o e
<1>1. w = bytes \o e /\ w \in Seq(Nat)
  OBVIOUS
<1>2. a < b /\ b <= Len(bytes) /\ Len(bytes) <= Len(w)
  BY <1>1 DEF VarintAt
<1>3. \A i \in 1 .. Len(bytes) : w[i] = bytes[i]
  BY <1>1
<1> HIDE DEF w
<1>4. \A i \in a + 1 .. b : w[i] = bytes[i]
  <2>1. \A i \in a + 1 .. b : i \in 1 .. Len(bytes)
    BY <1>2
  <2> QED
    BY <1>3, <2>1
<1>5. w[b] < 128
  BY <1>2, <1>4 DEF VarintAt
<1>6. ASSUME NEW i \in a + 1 .. b - 1 PROVE w[i] >= 128
  <2>1. i \in a + 1 .. b
    OBVIOUS
  <2> QED
    BY <1>4, <2>1 DEF VarintAt
<1>7. PICK rest \in [a + 1 .. b -> Nat] :
          /\ rest[a + 1] = x
          /\ \A i \in a + 1 .. b :
                rest[i] = (bytes[i] % 128) + (IF i = b THEN 0 ELSE 128 * rest[i + 1])
  BY DEF VarintAt
<1>8. \A i \in a + 1 .. b :
          rest[i] = (w[i] % 128) + (IF i = b THEN 0 ELSE 128 * rest[i + 1])
  BY <1>4, <1>7, Zenon
<1>9. a < b /\ b <= Len(w)
  BY <1>2
<1>10. \E r \in [a + 1 .. b -> Nat] :
           /\ r[a + 1] = x
           /\ \A i \in a + 1 .. b : r[i] = (w[i] % 128) + (IF i = b THEN 0 ELSE 128 * r[i + 1])
  BY <1>7, <1>8, Zenon
<1>11. VarintAt(w, a, b, x)
  BY <1>5, <1>6, <1>9, <1>10, Zenon DEF VarintAt
<1> QED
  BY <1>1, <1>11

LEMMA VarintAppended ==
    ASSUME NEW bytes \in Seq(Nat), NEW e, NEW x, IsVarint(e, x)
    PROVE  VarintAt(bytes \o e, Len(bytes), Len(bytes) + Len(e), x)
<1>1. e \in Seq(Nat) /\ Len(e) > 0
  BY DEF IsVarint
<1>2. PICK a \in Nat : a = Len(bytes)
  OBVIOUS
<1>3. PICK n \in Nat : n = Len(e) /\ n > 0
  BY <1>1
<1>4. PICK b \in Nat : b = a + n
  OBVIOUS
<1> DEFINE w == bytes \o e
<1>5. w = bytes \o e /\ w \in Seq(Nat)
  BY <1>1
<1>6. Len(w) = b /\ \A i \in a + 1 .. b : w[i] = e[i - a]
  BY <1>1, <1>2, <1>3, <1>4, <1>5
<1> HIDE DEF w
<1>7. w[b] < 128
  <2>1. b \in a + 1 .. b /\ b - a = n
    BY <1>3, <1>4
  <2>2. e[n] < 128
    BY <1>3 DEF IsVarint, AddsUp
  <2> QED
    BY <1>6, <2>1, <2>2
<1>8. ASSUME NEW i \in a + 1 .. b - 1 PROVE w[i] >= 128
  <2>1. i \in a + 1 .. b /\ i - a \in 1 .. n - 1
    BY <1>3, <1>4
  <2>2. e[i - a] >= 128
    BY <1>3, <2>1 DEF IsVarint, AddsUp
  <2> QED
    BY <1>6, <2>1, <2>2
<1>9. PICK rest \in [1 .. n -> Nat] :
          /\ rest[1] = x
          /\ \A i \in 1 .. n : rest[i] = (e[i] % 128) + (IF i = n THEN 0 ELSE 128 * rest[i + 1])
  <2>1. AddsUp(e, n, x)
    BY <1>3 DEF IsVarint
  <2> QED
    BY <2>1, Zenon DEF AddsUp
<1>10. PICK more : more = [i \in a + 1 .. b |-> rest[i - a]]
  OBVIOUS
<1>11. \A i \in a + 1 .. b : i - a \in 1 .. n
  BY <1>4
<1>12. more \in [a + 1 .. b -> Nat] /\ \A i \in a + 1 .. b : more[i] = rest[i - a]
  BY <1>9, <1>10, <1>11
<1>13. more[a + 1] = x
  <2>1. a + 1 \in a + 1 .. b /\ (a + 1) - a = 1
    BY <1>3, <1>4
  <2> QED
    BY <1>9, <1>12, <2>1
<1>14. ASSUME NEW i \in a + 1 .. b
       PROVE  more[i] = (w[i] % 128) + (IF i = b THEN 0 ELSE 128 * more[i + 1])
  <2>1. PICK j \in 1 .. n : j = i - a /\ (i = b <=> j = n)
    BY <1>4
  <2>2. rest[j] = (e[j] % 128) + (IF j = n THEN 0 ELSE 128 * rest[j + 1])
    BY <1>9
  <2>3. more[i] = rest[j] /\ w[i] = e[j]
    BY <1>6, <1>12, <2>1
  <2>4. CASE i = b
    BY <2>1, <2>2, <2>3, <2>4
  <2>5. CASE i # b
    <3>1. i + 1 \in a + 1 .. b /\ (i + 1) - a = j + 1
      BY <2>1, <2>5
    <3>2. more[i + 1] = rest[j + 1]
      BY <1>12, <3>1
    <3> QED
      BY <2>1, <2>2, <2>3, <2>5, <3>2
  <2> QED
    BY <2>4, <2>5
<1>15. a < b /\ b <= Len(w)
  BY <1>3, <1>4, <1>6
<1>16. VarintAt(w, a, b, x)
  BY <1>7, <1>8, <1>12, <1>13, <1>14, <1>15, Zenon DEF VarintAt
<1> QED
  BY <1>2, <1>3, <1>4, <1>5, <1>16

\* What is left from each byte of a varint on, as decode_varint adds it up.
SumsTo(f, bytes, a, b) ==
    f = [i \in a + 1 .. b |-> (bytes[i] % 128) + (IF i = b THEN 0 ELSE 128 * f[i + 1])]

LEMMA SumsExist ==
    ASSUME NEW bytes \in Seq(Nat), NEW a \in Nat, NEW b \in Nat, NEW x, VarintAt(bytes, a, b, x)
    PROVE  \E f : SumsTo(f, bytes, a, b)
<1>1. PICK rest \in [a + 1 .. b -> Nat] :
          \A i \in a + 1 .. b :
                rest[i] = (bytes[i] % 128) + (IF i = b THEN 0 ELSE 128 * rest[i + 1])
  BY DEF VarintAt
<1>2. rest = [i \in a + 1 .. b |-> rest[i]]
  BY <1>1
<1>3. rest = [i \in a + 1 .. b |-> (bytes[i] % 128) + (IF i = b THEN 0 ELSE 128 * rest[i + 1])]
  BY <1>1, <1>2, Zenon
<1> QED
  BY <1>3 DEF SumsTo

\* There is only one such function: it is the same from behind.
LEMMA SumsAre ==
    ASSUME NEW bytes \in Seq(Nat), NEW a \in Nat, NEW b \in Nat, NEW x, VarintAt(bytes, a, b, x),
           NEW f, SumsTo(f, bytes, a, b)
    PROVE  f[a + 1] = x
<1>1. PICK rest \in [a + 1 .. b -> Nat] :
          /\ rest[a + 1] = x
          /\ \A i \in a + 1 .. b :
                rest[i] = (bytes[i] % 128) + (IF i = b THEN 0 ELSE 128 * rest[i + 1])
  BY DEF VarintAt
<1>2. \A i \in a + 1 .. b :
          f[i] = (bytes[i] % 128) + (IF i = b THEN 0 ELSE 128 * f[i + 1])
  BY DEF SumsTo
<1>3. a < b
  BY DEF VarintAt
<1> DEFINE Apart == {d \in Nat : b - d \in a + 1 .. b /\ f[b - d] # rest[b - d]}
<1>4. Apart = {}
  <2> SUFFICES ASSUME Apart # {} PROVE FALSE
    OBVIOUS
  <2>1. Apart \in SUBSET Nat
    OBVIOUS
  <2>2. \A d \in Apart : d \in Nat /\ b - d \in a + 1 .. b /\ f[b - d] # rest[b - d]
    OBVIOUS
  <2>3. \A d \in Nat : b - d \in a + 1 .. b /\ d \notin Apart => f[b - d] = rest[b - d]
    OBVIOUS
  <2> HIDE DEF Apart
  <2>4. PICK d \in Apart : \A m \in Apart : d <= m
    BY <2>1, LeastNumber
  <2>5. PICK i \in a + 1 .. b : i = b - d /\ f[i] # rest[i]
    BY <2>2, <2>4
  <2>6. CASE i = b
    BY <1>1, <1>2, <2>5, <2>6
  <2>7. CASE i # b
    <3>0. d \in Nat
      BY <2>1, <2>4
    <3>1. d - 1 \in Nat /\ ~ d <= d - 1 /\ b - (d - 1) = i + 1 /\ i + 1 \in a + 1 .. b
      BY <2>5, <2>7, <3>0
    <3>2. d - 1 \notin Apart
      BY <2>4, <3>1
    <3>3. f[i + 1] = rest[i + 1]
      <4>1. f[b - (d - 1)] = rest[b - (d - 1)]
        BY <2>3, <3>1, <3>2
      <4> QED
        BY <3>1, <4>1
    <3> QED
      BY <1>1, <1>2, <2>5, <2>7, <3>3
  <2> QED
    BY <2>6, <2>7
<1>5. b - (a + 1) \in Nat /\ b - (b - (a + 1)) = a + 1 /\ a + 1 \in a + 1 .. b
  BY <1>3
<1>6. f[a + 1] = rest[a + 1]
  <2>1. b - (a + 1) \notin Apart
    BY <1>4
  <2>2. f[b - (b - (a + 1))] = rest[b - (b - (a + 1))]
    BY <1>5, <2>1
  <2> QED
    BY <1>5, <2>2
<1> QED
  BY <1>1, <1>6

LEMMA DecodeVarintIs ==
    ASSUME NEW bytes \in Seq(Nat), NEW a \in Nat, NEW b \in Nat, NEW x, VarintAt(bytes, a, b, x)
    PROVE  DecodeVarint(bytes, a) = [value |-> x % WordLimit, index |-> b]
<1> DEFINE ends == {i \in a + 1 .. Len(bytes) : bytes[i] < 128}
           last == CHOOSE i \in ends : \A j \in ends : i <= j
           sums == CHOOSE f : SumsTo(f, bytes, a, last)
<1>1. DecodeVarint(bytes, a) =
          IF ends = {} THEN [value |-> Incomplete, index |-> Len(bytes)]
          ELSE [value |-> sums[a + 1] % WordLimit, index |-> last]
  BY DEF DecodeVarint, SumsTo
<1>2. ends \subseteq Nat /\ b \in ends
  BY DEF VarintAt
<1>3. ASSUME NEW j \in ends PROVE b <= j
  <2>1. j \in Nat /\ j >= a + 1 /\ bytes[j] < 128 /\ bytes[j] \in Nat
    BY <1>3
  <2>2. CASE j \in a + 1 .. b - 1
    <3>1. bytes[j] >= 128
      BY <2>2 DEF VarintAt
    <3> QED
      BY <2>1, <3>1
  <2>3. CASE j \notin a + 1 .. b - 1
    BY <2>1, <2>3
  <2> QED
    BY <2>2, <2>3
<1> HIDE DEF ends
<1>4. last = b
  <2>1. last \in ends /\ \A j \in ends : last <= j
    BY <1>2, <1>3
  <2> HIDE DEF last
  <2>2. last <= b /\ b <= last /\ last \in Nat
    BY <1>2, <1>3, <2>1
  <2> QED
    BY <2>2
<1> HIDE DEF last
<1>5. SumsTo(sums, bytes, a, b)
  BY <1>4, SumsExist
<1>6. sums[a + 1] = x
  BY <1>5, SumsAre
<1> HIDE DEF sums
<1> QED
  BY <1>1, <1>2, <1>4, <1>6

-----------------------------------------------------------------------------
(* The stream is varints of the differences, one behind the other, and the *)
(* iterator stands where one ends.                                         *)

Words == 0 .. WordLimit - 1

\* The value before the k-th, and what is written for the k-th.
Before(ins, k) == IF k = 1 THEN 0 ELSE ins[k - 1]
Difference(ins, k) == (ins[k] - Before(ins, k)) % WordLimit

EncodingTypes ==
    /\ inputs \in Seq(Words)
    /\ buffer \in Seq(Nat)
    /\ encPrev \in Words
    /\ iter \in [count : Nat, index : Nat, next : Nat] \cup {NoIterator}
    /\ fetched \in Words \cup {NotFetched}
    /\ decPrev \in Words
    /\ outputs \in Seq(Words)

\* Where each of the varints ends.
StreamOf(at) ==
    /\ at \in [0 .. Len(inputs) -> Nat]
    /\ at[0] = 0 /\ at[Len(inputs)] = Len(buffer)
    /\ \A k \in 1 .. Len(inputs) : VarintAt(buffer, at[k - 1], at[k], Difference(inputs, k))

LastEncoded == encPrev = Before(inputs, Len(inputs) + 1)

DecodedInOrder ==
    /\ Len(outputs) <= Len(inputs)
    /\ \A k \in 1 .. Len(outputs) : outputs[k] = inputs[k]
    /\ decPrev = Before(inputs, Len(outputs) + 1)

\* The iterator is behind the last value that was decoded, and what it has
\* fetched is the next one.
IteratorAt(at) ==
    /\ iter = NoIterator => fetched = NotFetched
    /\ iter # NoIterator =>
          /\ Len(outputs) + iter.count <= Len(inputs)
          /\ iter.index = at[Len(outputs)]
          /\ fetched # NotFetched =>
                /\ iter.count > 0
                /\ fetched = Difference(inputs, Len(outputs) + 1)
                /\ iter.next = at[Len(outputs) + 1]

InPlace(at) == StreamOf(at) /\ IteratorAt(at)

EncodingInv == EncodingTypes /\ LastEncoded /\ DecodedInOrder /\ \E at : InPlace(at)

LEMMA WordOf == ASSUME NEW x \in Int PROVE x % WordLimit \in Words
<1>1. PICK w \in Nat \ {0} : w = WordLimit
  BY EncodingAssumption
<1>2. x % w \in 0 .. w - 1
  OBVIOUS
<1> QED
  BY <1>1, <1>2 DEF Words

LEMMA WordsAre ==
    /\ WordLimit \in Nat \ {0} /\ Words \subseteq Nat /\ 0 \in Words /\ Inputs \subseteq Words
    /\ NotFetched \notin Words /\ Incomplete \notin Words /\ Incomplete # NotFetched
  BY EncodingAssumption DEF Words, NotFetched, Incomplete

LEMMA DifferenceOfWords ==
    ASSUME NEW c \in Words, NEW p \in Words PROVE (c - p) % WordLimit \in Words
<1>1. c - p \in Int
  BY WordsAre
<1> QED
  BY <1>1, WordOf

LEMMA WordIsItself == ASSUME NEW x \in Words PROVE x % WordLimit = x
<1>1. PICK w \in Nat \ {0} : w = WordLimit
  BY EncodingAssumption
<1>2. ASSUME NEW y \in 0 .. w - 1 PROVE y % w = y
  OBVIOUS
<1> QED
  BY <1>1, <1>2 DEF Words

\* A difference of words that is added again is the word.
LEMMA AddedAgain ==
    ASSUME NEW c \in Words, NEW p \in Words
    PROVE  (((c - p) % WordLimit) + p) % WordLimit = c
<1>1. PICK w \in Nat \ {0} : w = WordLimit /\ c \in 0 .. w - 1 /\ p \in 0 .. w - 1
  BY EncodingAssumption DEF Words
<1>2. ASSUME NEW y \in 0 .. w - 1 PROVE y % w = y /\ (y + w) % w = y
  <2>1. y % w = y
    OBVIOUS
  <2>2. PICK s \in 0 .. w - 1 : s = (y + w) % w
    OBVIOUS
  <2>3. PICK q \in Int : y + w = w * q + s
    <3>1. y + w = w * ((y + w) \div w) + ((y + w) % w) /\ (y + w) \div w \in Int
      OBVIOUS
    <3> QED
      BY <2>2, <3>1
  <2>4. q = 1
    <3>1. CASE q <= 0
      <4>1. w * q <= 0
        BY <3>1
      <4> QED
        BY <2>3, <4>1
    <3>2. CASE q >= 2
      <4>1. w * q >= w * 2
        BY <3>2
      <4> QED
        BY <2>3, <4>1
    <3> QED
      BY <3>1, <3>2
  <2> QED
    BY <2>1, <2>2, <2>3, <2>4
<1>3. CASE c >= p
  <2>1. PICK y \in 0 .. w - 1 : y = c - p
    BY <1>1, <1>3
  <2>2. y % w = y /\ c % w = c /\ y + p = c
    BY <1>1, <1>2, <2>1
  <2> QED
    BY <1>1, <2>1, <2>2
<1>4. CASE c < p
  <2>1. PICK y \in 0 .. w - 1 : y = c - p + w
    BY <1>1, <1>4
  <2>2. (c - p) % w = y
    <3>1. PICK s \in 0 .. w - 1 : s = (c - p) % w
      BY <1>1
    <3>2. PICK q \in Int : c - p = w * q + s
      <4>1. PICK z \in Int : z = c - p
        BY <1>1
      <4>2. z = w * (z \div w) + (z % w) /\ z \div w \in Int
        OBVIOUS
      <4> QED
        BY <3>1, <4>1, <4>2
    <3>3. q = -1
      <4>1. CASE q >= 0
        <5>1. w * q >= 0
          BY <4>1
        <5> QED
          BY <1>1, <1>4, <3>2, <5>1
      <4>2. CASE q <= -2
        <5>1. w * q <= w * (-2)
          BY <4>2
        <5> QED
          BY <1>1, <1>4, <3>2, <5>1
      <4> QED
        BY <4>1, <4>2
    <3> QED
      BY <1>1, <2>1, <3>1, <3>2, <3>3
  <2>3. y + p = c + w /\ (c + w) % w = c
    BY <1>1, <1>2, <2>1
  <2> QED
    BY <1>1, <2>2, <2>3
<1> QED
  BY <1>1, <1>3, <1>4

LEMMA DifferenceIs ==
    ASSUME NEW ins \in Seq(Words), NEW k \in 1 .. Len(ins)
    PROVE  /\ ins[k] \in Words /\ Before(ins, k) \in Words /\ Difference(ins, k) \in Words
           /\ (Difference(ins, k) + Before(ins, k)) % WordLimit = ins[k]
<1>1. ins[k] \in Words
  OBVIOUS
<1>2. Before(ins, k) \in Words
  <2>1. CASE k = 1
    BY <2>1, WordsAre DEF Before
  <2>2. CASE k # 1
    <3>1. k - 1 \in 1 .. Len(ins)
      BY <2>2
    <3> QED
      BY <2>2, <3>1 DEF Before
  <2> QED
    BY <2>1, <2>2
<1>3. Difference(ins, k) \in Words
  BY <1>1, <1>2, DifferenceOfWords DEF Difference
<1> QED
  BY <1>1, <1>2, <1>3, AddedAgain DEF Difference

\* What is added behind changes no difference before it.
LEMMA DifferencesStay ==
    ASSUME NEW ins \in Seq(Words), NEW v \in Words, NEW k \in 1 .. Len(ins) + 1
    PROVE  /\ Before(Append(ins, v), k) = Before(ins, k)
           /\ k <= Len(ins) => Difference(Append(ins, v), k) = Difference(ins, k)
           /\ k = Len(ins) + 1 => Difference(Append(ins, v), k) = (v - Before(ins, k)) % WordLimit
<1>1. PICK more : more = Append(ins, v)
  OBVIOUS
<1>2. more[Len(ins) + 1] = v /\ \A i \in 1 .. Len(ins) : more[i] = ins[i]
  BY <1>1
<1>3. Before(more, k) = Before(ins, k)
  <2>1. CASE k = 1
    BY <2>1 DEF Before
  <2>2. CASE k # 1
    <3>1. k - 1 \in 1 .. Len(ins)
      BY <2>2
    <3> QED
      BY <1>2, <2>2, <3>1 DEF Before
  <2> QED
    BY <2>1, <2>2
<1>4. ASSUME k <= Len(ins) PROVE Difference(more, k) = Difference(ins, k)
  <2>1. more[k] = ins[k]
    BY <1>2, <1>4
  <2> QED
    BY <1>3, <2>1 DEF Difference
<1>5. ASSUME k = Len(ins) + 1 PROVE Difference(more, k) = (v - Before(ins, k)) % WordLimit
  BY <1>2, <1>3, <1>5 DEF Difference
<1> QED
  BY <1>1, <1>3, <1>4, <1>5

LEMMA InitEncodingInv == EncodingInit => EncodingInv
<1> SUFFICES ASSUME EncodingInit PROVE EncodingInv
  OBVIOUS
<1>1. inputs = <<>> /\ Len(inputs) = 0 /\ inputs \in Seq(Words)
  BY DEF EncodingInit
<1>2. buffer = <<>> /\ Len(buffer) = 0 /\ buffer \in Seq(Nat)
  BY DEF EncodingInit
<1>3. outputs = <<>> /\ Len(outputs) = 0 /\ outputs \in Seq(Words)
  BY DEF EncodingInit
<1>4. encPrev = 0 /\ decPrev = 0 /\ iter = NoIterator /\ fetched = NotFetched
  BY DEF EncodingInit
<1>5. EncodingTypes
  BY <1>1, <1>2, <1>3, <1>4, WordsAre DEF EncodingTypes
<1>6. LastEncoded /\ DecodedInOrder
  BY <1>1, <1>3, <1>4 DEF LastEncoded, DecodedInOrder, Before
<1>7. PICK at : at = [k \in 0 .. 0 |-> 0]
  OBVIOUS
<1>8. at \in [0 .. 0 -> Nat] /\ at[0] = 0
  BY <1>7
<1>9. StreamOf(at)
  BY <1>1, <1>2, <1>8 DEF StreamOf
<1>10. IteratorAt(at)
  BY <1>4 DEF IteratorAt
<1> QED
  BY <1>5, <1>6, <1>9, <1>10 DEF EncodingInv, InPlace

LEMMA NoIteratorIs == NoIterator \notin [count : Nat, index : Nat, next : Nat]
<1> SUFFICES ASSUME NoIterator \in [count : Nat, index : Nat, next : Nat] PROVE FALSE
  OBVIOUS
<1>1. NoIterator.count \in Nat /\ NoIterator.count = -1
  BY DEF NoIterator
<1> QED
  BY <1>1

LEMMA EncodeStep == ASSUME EncodingInv, NEW v \in Inputs, Encode(v) PROVE EncodingInv'
<1>1. v \in Words /\ inputs \in Seq(Words) /\ buffer \in Seq(Nat) /\ encPrev \in Words
  BY WordsAre DEF EncodingInv, EncodingTypes
<1>2. PICK n \in Nat : n = Len(inputs)
  BY <1>1
<1>3. PICK x \in Words : x = (v - encPrev) % WordLimit
  <2>1. v - encPrev \in Int
    BY <1>1, WordsAre
  <2> QED
    BY <2>1, WordOf
<1>4. PICK e : e = EncodeVarint(x)
  OBVIOUS
<1>5. IsVarint(e, x)
  BY <1>3, <1>4, WordsAre, EncodeVarintIs
<1>6. e \in Seq(Nat) /\ Len(e) > 0
  BY <1>5 DEF IsVarint
<1>7. /\ inputs' = Append(inputs, v) /\ buffer' = buffer \o e /\ encPrev' = v
      /\ iter' = iter /\ fetched' = fetched /\ decPrev' = decPrev /\ outputs' = outputs
  BY <1>3, <1>4 DEF Encode
<1>8. inputs' \in Seq(Words) /\ Len(inputs') = n + 1 /\ inputs'[n + 1] = v
      /\ \A i \in 1 .. n : inputs'[i] = inputs[i]
  BY <1>1, <1>2, <1>7
<1>9. buffer' \in Seq(Nat) /\ Len(buffer') = Len(buffer) + Len(e)
  BY <1>1, <1>6, <1>7
<1>10. EncodingTypes'
  BY <1>1, <1>7, <1>8, <1>9 DEF EncodingInv, EncodingTypes
<1>11. LastEncoded'
  <2>1. Before(inputs', n + 2) = v
    <3>1. n + 2 # 1 /\ (n + 2) - 1 = n + 1
      OBVIOUS
    <3> QED
      BY <1>8, <3>1 DEF Before
  <2> QED
    BY <1>7, <1>8, <2>1 DEF LastEncoded
<1>12. /\ outputs \in Seq(Words) /\ Len(outputs) \in Nat /\ Len(outputs) <= n
       /\ \A k \in 1 .. Len(outputs) : outputs[k] = inputs[k]
       /\ decPrev = Before(inputs, Len(outputs) + 1)
  BY <1>2 DEF EncodingInv, EncodingTypes, DecodedInOrder
<1>13. DecodedInOrder'
  <2>1. Before(inputs', Len(outputs) + 1) = Before(inputs, Len(outputs) + 1)
    <3>1. Len(outputs) + 1 \in 1 .. Len(inputs) + 1
      BY <1>2, <1>12
    <3> QED
      BY <1>1, <1>7, <3>1, DifferencesStay
  <2>2. \A k \in 1 .. Len(outputs) : outputs[k] = inputs'[k]
    <3>1. \A k \in 1 .. Len(outputs) : k \in 1 .. n
      BY <1>12
    <3> QED
      BY <1>8, <1>12, <3>1
  <2>3. Len(outputs') <= Len(inputs')
    BY <1>7, <1>8, <1>12
  <2>4. \A k \in 1 .. Len(outputs') : outputs'[k] = inputs'[k]
    BY <1>7, <2>2
  <2>5. decPrev' = Before(inputs', Len(outputs') + 1)
    BY <1>7, <1>12, <2>1
  <2> QED
    BY <2>3, <2>4, <2>5 DEF DecodedInOrder
<1>14. PICK at : InPlace(at)
  BY DEF EncodingInv
<1>15. /\ at \in [0 .. n -> Nat] /\ at[0] = 0 /\ at[n] = Len(buffer)
       /\ \A k \in 1 .. n : VarintAt(buffer, at[k - 1], at[k], Difference(inputs, k))
  BY <1>2, <1>14 DEF InPlace, StreamOf
<1>16. PICK more : more = [k \in 0 .. n + 1 |-> IF k <= n THEN at[k] ELSE Len(buffer) + Len(e)]
  OBVIOUS
<1>17. /\ more \in [0 .. n + 1 -> Nat] /\ more[n + 1] = Len(buffer) + Len(e)
       /\ \A k \in 0 .. n : more[k] = at[k]
  <2>1. \A k \in 0 .. n + 1 : k <= n => k \in 0 .. n
    OBVIOUS
  <2>2. Len(buffer) + Len(e) \in Nat
    BY <1>1, <1>6
  <2>3. \A k \in 0 .. n + 1 : (IF k <= n THEN at[k] ELSE Len(buffer) + Len(e)) \in Nat
    BY <1>15, <2>1, <2>2
  <2>4. more \in [0 .. n + 1 -> Nat]
    BY <1>16, <2>3
  <2> QED
    BY <1>16, <2>4
<1>18. ASSUME NEW k \in 1 .. n + 1
       PROVE  VarintAt(buffer', more[k - 1], more[k], Difference(inputs', k))
  <2>1. CASE k <= n
    <3>1. k \in 1 .. n /\ k \in 0 .. n /\ k - 1 \in 0 .. n /\ k \in 1 .. Len(inputs) + 1
      BY <1>2, <2>1
    <3>2. PICK a \in Nat, b \in Nat : a = at[k - 1] /\ b = at[k] /\ a = more[k - 1] /\ b = more[k]
      BY <1>15, <1>17, <3>1
    <3>3. VarintAt(buffer, a, b, Difference(inputs, k))
      BY <1>15, <3>1, <3>2
    <3>4. VarintAt(buffer \o e, a, b, Difference(inputs, k))
      BY <1>1, <1>6, <3>3, VarintKept
    <3>5. Difference(inputs', k) = Difference(inputs, k)
      BY <1>1, <1>2, <1>7, <2>1, <3>1, DifferencesStay
    <3> QED
      BY <1>7, <3>2, <3>4, <3>5
  <2>2. CASE k = n + 1
    <3>1. k - 1 = n /\ n \in 0 .. n /\ k \in 1 .. Len(inputs) + 1 /\ k = Len(inputs) + 1
      BY <1>2, <2>2
    <3>2. more[k - 1] = Len(buffer) /\ more[k] = Len(buffer) + Len(e)
      BY <1>15, <1>17, <2>2, <3>1
    <3>3. Difference(inputs', k) = x
      <4>1. encPrev = Before(inputs, k)
        BY <3>1 DEF EncodingInv, LastEncoded
      <4>2. Difference(Append(inputs, v), k) = (v - Before(inputs, k)) % WordLimit
        BY <1>1, <3>1, DifferencesStay
      <4> QED
        BY <1>3, <1>7, <4>1, <4>2
    <3>4. VarintAt(buffer \o e, Len(buffer), Len(buffer) + Len(e), x)
      BY <1>1, <1>5, VarintAppended
    <3> QED
      BY <1>7, <3>2, <3>3, <3>4
  <2> QED
    BY <2>1, <2>2
<1>19. StreamOf(more)'
  <2>1. more[0] = 0
    BY <1>15, <1>17
  <2>2. more[n + 1] = Len(buffer')
    BY <1>9, <1>17
  <2> QED
    BY <1>8, <1>17, <1>18, <2>1, <2>2 DEF StreamOf
<1>20. IteratorAt(more)'
  <2>1. CASE iter = NoIterator
    BY <1>7, <1>14, <2>1 DEF InPlace, IteratorAt
  <2>2. CASE iter # NoIterator
    <3>1. iter.count \in Nat /\ Len(outputs) + iter.count <= n /\ iter.index = at[Len(outputs)]
      BY <1>2, <1>14, <2>2 DEF InPlace, IteratorAt, EncodingInv, EncodingTypes
    <3>2. Len(outputs) + iter.count <= n + 1
      BY <1>12, <3>1
    <3>3. iter.index = more[Len(outputs)]
      BY <1>12, <1>17, <3>1
    <3>4. ASSUME fetched # NotFetched
          PROVE  /\ iter.count > 0
                 /\ fetched = Difference(inputs', Len(outputs) + 1)
                 /\ iter.next = more[Len(outputs) + 1]
      <4>1. /\ iter.count > 0 /\ fetched = Difference(inputs, Len(outputs) + 1)
            /\ iter.next = at[Len(outputs) + 1]
        BY <1>14, <2>2, <3>4 DEF InPlace, IteratorAt
      <4>2. Len(outputs) + 1 <= n /\ Len(outputs) + 1 \in 1 .. Len(inputs) + 1
            /\ Len(outputs) + 1 \in 0 .. n /\ Len(outputs) + 1 <= Len(inputs)
        BY <1>2, <1>12, <3>1, <4>1
      <4>3. Difference(inputs', Len(outputs) + 1) = Difference(inputs, Len(outputs) + 1)
        BY <1>1, <1>7, <4>2, DifferencesStay
      <4> QED
        BY <1>17, <4>1, <4>2, <4>3
    <3> QED
      BY <1>7, <1>8, <2>2, <3>2, <3>3, <3>4 DEF IteratorAt
  <2> QED
    BY <2>1, <2>2
<1>21. InPlace(more)'
  BY <1>19, <1>20 DEF InPlace
<1>22. \E p : InPlace(p)'
  BY <1>21
<1> QED
  BY <1>10, <1>11, <1>13, <1>22 DEF EncodingInv

LEMMA BeginDecodingStep == ASSUME EncodingInv, BeginDecoding PROVE EncodingInv'
<1>1. inputs \in Seq(Words) /\ Len(inputs) \in Nat
  BY DEF EncodingInv, EncodingTypes
<1>2. /\ iter' = [count |-> Len(inputs), index |-> 0, next |-> 0]
      /\ fetched' = NotFetched /\ decPrev' = 0 /\ outputs' = <<>>
      /\ inputs' = inputs /\ buffer' = buffer /\ encPrev' = encPrev
  BY DEF BeginDecoding
<1>3. Len(outputs') = 0 /\ outputs' \in Seq(Words)
  BY <1>2
<1>4. iter' \in [count : Nat, index : Nat, next : Nat]
  BY <1>1, <1>2
<1>5. EncodingTypes'
  BY <1>2, <1>3, <1>4, WordsAre DEF EncodingInv, EncodingTypes
<1>6. LastEncoded'
  BY <1>2 DEF EncodingInv, LastEncoded
<1>7. DecodedInOrder'
  <2>1. Before(inputs, 1) = 0
    BY DEF Before
  <2> QED
    BY <1>1, <1>2, <1>3, <2>1 DEF DecodedInOrder
<1>8. PICK at : InPlace(at)
  BY DEF EncodingInv
<1>9. StreamOf(at)'
  BY <1>2, <1>8 DEF InPlace, StreamOf
<1>10. IteratorAt(at)'
  <2>1. at[0] = 0
    BY <1>8 DEF InPlace, StreamOf
  <2>2. iter'.count = Len(inputs) /\ iter'.index = 0
    BY <1>2
  <2>3. iter' # NoIterator
    BY <1>4, NoIteratorIs
  <2> QED
    BY <1>1, <1>2, <1>3, <2>1, <2>2, <2>3 DEF IteratorAt
<1>11. \E p : InPlace(p)'
  BY <1>9, <1>10 DEF InPlace
<1> QED
  BY <1>5, <1>6, <1>7, <1>11 DEF EncodingInv

\* Who has something to fetch has an iterator.
LEMMA Iterating ==
    ASSUME EncodingInv, iter.count > 0 \/ fetched >= 0
    PROVE  iter \in [count : Nat, index : Nat, next : Nat] /\ iter # NoIterator
<1>1. NoIterator.count = -1 /\ NotFetched = -1
  BY DEF NoIterator, NotFetched
<1>2. iter = NoIterator => fetched = NotFetched
  BY DEF EncodingInv, InPlace, IteratorAt
<1>3. iter # NoIterator
  BY <1>1, <1>2
<1> QED
  BY <1>3 DEF EncodingInv, EncodingTypes

LEMMA DereferenceStep == ASSUME EncodingInv, Dereference PROVE EncodingInv'
<1>1. iter.count > 0
  BY DEF Dereference
<1>2. iter \in [count : Nat, index : Nat, next : Nat] /\ iter # NoIterator
  BY <1>1, Iterating
<1>3. PICK at : InPlace(at)
  BY DEF EncodingInv
<1>4. /\ inputs \in Seq(Words) /\ buffer \in Seq(Nat) /\ outputs \in Seq(Words)
      /\ Len(inputs) \in Nat /\ Len(outputs) \in Nat
  BY DEF EncodingInv, EncodingTypes
<1>5. PICK k \in 1 .. Len(inputs) : k = Len(outputs) + 1
  <2>1. Len(outputs) + iter.count <= Len(inputs) /\ iter.count \in Nat
    BY <1>2, <1>3 DEF InPlace, IteratorAt
  <2> QED
    BY <1>1, <1>4, <2>1
<1>6. PICK a \in Nat, b \in Nat : a = at[k - 1] /\ b = at[k]
  <2>1. k - 1 \in 0 .. Len(inputs) /\ k \in 0 .. Len(inputs)
    BY <1>4, <1>5
  <2> QED
    BY <1>3, <2>1 DEF InPlace, StreamOf
<1>7. iter.index = a
  <2>1. k - 1 = Len(outputs)
    BY <1>4, <1>5
  <2> QED
    BY <1>2, <1>3, <1>6, <2>1 DEF InPlace, IteratorAt
<1>8. PICK x \in Words : x = Difference(inputs, k)
  BY <1>4, DifferenceIs
<1>9. VarintAt(buffer, a, b, x)
  BY <1>3, <1>6, <1>8 DEF InPlace, StreamOf
<1>10. DecodeVarint(buffer, iter.index) = [value |-> x, index |-> b]
  <2>1. DecodeVarint(buffer, a) = [value |-> x % WordLimit, index |-> b]
    BY <1>4, <1>9, DecodeVarintIs
  <2> QED
    BY <1>7, <2>1, WordIsItself
<1>11. /\ fetched' = x /\ iter' = [iter EXCEPT !.next = b]
       /\ inputs' = inputs /\ buffer' = buffer /\ encPrev' = encPrev
       /\ decPrev' = decPrev /\ outputs' = outputs
  BY <1>10 DEF Dereference
<1>12. /\ iter' \in [count : Nat, index : Nat, next : Nat]
       /\ iter'.count = iter.count /\ iter'.index = iter.index /\ iter'.next = b
  BY <1>2, <1>11
<1>13. EncodingTypes'
  BY <1>11, <1>12 DEF EncodingInv, EncodingTypes
<1>14. LastEncoded' /\ DecodedInOrder'
  BY <1>11 DEF EncodingInv, LastEncoded, DecodedInOrder
<1>15. StreamOf(at)'
  BY <1>3, <1>11 DEF InPlace, StreamOf
<1>16. IteratorAt(at)'
  <2>1. Len(outputs) + iter.count <= Len(inputs) /\ iter.index = at[Len(outputs)]
    BY <1>2, <1>3 DEF InPlace, IteratorAt
  <2>2. iter' # NoIterator
    BY <1>12, NoIteratorIs
  <2> QED
    BY <1>1, <1>5, <1>6, <1>8, <1>11, <1>12, <2>1, <2>2 DEF IteratorAt
<1>17. \E p : InPlace(p)'
  BY <1>15, <1>16 DEF InPlace
<1> QED
  BY <1>13, <1>14, <1>17 DEF EncodingInv

LEMMA IncrementStep == ASSUME EncodingInv, Increment PROVE EncodingInv'
<1>1. fetched >= 0
  BY DEF Increment
<1>2. iter \in [count : Nat, index : Nat, next : Nat] /\ iter # NoIterator
  BY <1>1, Iterating
<1>3. PICK at : InPlace(at)
  BY DEF EncodingInv
<1>4. /\ inputs \in Seq(Words) /\ buffer \in Seq(Nat) /\ outputs \in Seq(Words)
      /\ Len(inputs) \in Nat /\ decPrev \in Words
  BY DEF EncodingInv, EncodingTypes
<1>5. PICK m \in Nat : m = Len(outputs)
  BY <1>4
<1>6. fetched # NotFetched
  BY <1>1 DEF NotFetched
<1>7. /\ iter.count \in Nat /\ iter.count > 0 /\ m + iter.count <= Len(inputs)
      /\ fetched = Difference(inputs, m + 1) /\ iter.next = at[m + 1]
  BY <1>2, <1>3, <1>5, <1>6 DEF InPlace, IteratorAt
<1>8. PICK k \in 1 .. Len(inputs) : k = m + 1
  BY <1>4, <1>7
<1>9. (fetched + decPrev) % WordLimit = inputs[k]
  <2>1. decPrev = Before(inputs, k)
    BY <1>5, <1>8 DEF EncodingInv, DecodedInOrder
  <2> QED
    BY <1>4, <1>7, <1>8, <2>1, DifferenceIs
<1>10. PICK w \in Words : w = inputs[k]
  BY <1>4
<1>11. /\ outputs' = Append(outputs, w) /\ decPrev' = w /\ fetched' = NotFetched
       /\ iter' = [iter EXCEPT !.index = iter.next, !.count = @ - 1]
       /\ inputs' = inputs /\ buffer' = buffer /\ encPrev' = encPrev
  BY <1>9, <1>10 DEF Increment
<1>12. /\ outputs' \in Seq(Words) /\ Len(outputs') = k /\ outputs'[k] = w
       /\ \A i \in 1 .. m : outputs'[i] = outputs[i]
  BY <1>4, <1>5, <1>8, <1>11
<1>13. /\ iter' \in [count : Nat, index : Nat, next : Nat]
       /\ iter'.count = iter.count - 1 /\ iter'.index = iter.next
  <2>1. PICK left \in Nat : left = iter.count - 1
    BY <1>7
  <2>2. PICK behind \in Nat : behind = iter.next
    BY <1>2
  <2>3. iter' = [iter EXCEPT !.index = behind, !.count = left]
    BY <1>11, <2>1, <2>2
  <2>4. iter' \in [count : Nat, index : Nat, next : Nat] /\ iter'.count = left /\ iter'.index = behind
    BY <1>2, <2>3
  <2> QED
    BY <2>1, <2>2, <2>4
<1>14. EncodingTypes'
  BY <1>11, <1>12, <1>13 DEF EncodingInv, EncodingTypes
<1>15. LastEncoded'
  BY <1>11 DEF EncodingInv, LastEncoded
<1>16. DecodedInOrder'
  <2>1. ASSUME NEW i \in 1 .. k PROVE outputs'[i] = inputs[i]
    <3>1. CASE i = k
      BY <1>10, <1>12, <3>1
    <3>2. CASE i # k
      <4>1. i \in 1 .. m
        BY <1>8, <3>2
      <4>2. outputs[i] = inputs[i]
        BY <1>5, <4>1 DEF EncodingInv, DecodedInOrder
      <4> QED
        BY <1>12, <4>1, <4>2
    <3> QED
      BY <3>1, <3>2
  <2>2. Before(inputs, k + 1) = w
    <3>1. k + 1 # 1 /\ (k + 1) - 1 = k
      BY <1>8
    <3> QED
      BY <1>10, <3>1 DEF Before
  <2>3. Len(outputs') <= Len(inputs')
    BY <1>11, <1>12
  <2>4. \A i \in 1 .. Len(outputs') : outputs'[i] = inputs'[i]
    BY <1>11, <1>12, <2>1
  <2>5. decPrev' = Before(inputs', Len(outputs') + 1)
    BY <1>11, <1>12, <2>2
  <2> QED
    BY <2>3, <2>4, <2>5 DEF DecodedInOrder
<1>17. StreamOf(at)'
  BY <1>3, <1>11 DEF InPlace, StreamOf
<1>18. IteratorAt(at)'
  <2>1. iter' # NoIterator
    BY <1>13, NoIteratorIs
  <2>2. k + iter'.count <= Len(inputs)
    BY <1>7, <1>8, <1>13
  <2>3. iter'.index = at[k]
    BY <1>7, <1>8, <1>13
  <2> QED
    BY <1>11, <1>12, <2>1, <2>2, <2>3 DEF IteratorAt
<1>19. \E p : InPlace(p)'
  BY <1>17, <1>18 DEF InPlace
<1> QED
  BY <1>14, <1>15, <1>16, <1>19 DEF EncodingInv

LEMMA StepEncodingInv == EncodingInv /\ [EncodingNext]_encodingVars => EncodingInv'
<1> SUFFICES ASSUME EncodingInv, [EncodingNext]_encodingVars PROVE EncodingInv'
  OBVIOUS
<1>1. ASSUME UNCHANGED encodingVars PROVE EncodingInv'
  <2>1. PICK at : InPlace(at)
    BY DEF EncodingInv
  <2>2. InPlace(at)'
    BY <1>1, <2>1 DEF InPlace, StreamOf, IteratorAt, encodingVars
  <2>3. \E p : InPlace(p)'
    BY <2>2
  <2>4. EncodingTypes' /\ LastEncoded' /\ DecodedInOrder'
    BY <1>1 DEF EncodingInv, EncodingTypes, LastEncoded, DecodedInOrder, encodingVars
  <2> QED
    BY <2>3, <2>4 DEF EncodingInv
<1> QED
  BY <1>1, EncodeStep, BeginDecodingStep, DereferenceStep, IncrementStep DEF EncodingNext

LEMMA EncodingInvDecodes == EncodingInv => StreamDecodes
<1> SUFFICES ASSUME EncodingInv PROVE StreamDecodes
  OBVIOUS
<1>1. /\ inputs \in Seq(Words) /\ outputs \in Seq(Words) /\ Len(outputs) <= Len(inputs)
      /\ \A k \in 1 .. Len(outputs) : outputs[k] = inputs[k]
  BY DEF EncodingInv, EncodingTypes, DecodedInOrder
<1>2. outputs = SubSeq(inputs, 1, Len(outputs))
  <2>1. PICK s \in Seq(Words) : s = SubSeq(inputs, 1, Len(outputs))
    BY <1>1
  <2>2. Len(s) = Len(outputs) /\ \A k \in 1 .. Len(outputs) : s[k] = inputs[k]
    BY <1>1, <2>1
  <2>3. \A k \in 1 .. Len(outputs) : s[k] = outputs[k]
    BY <1>1, <2>2
  <2> QED
    BY <1>1, <2>1, <2>2, <2>3
<1>3. fetched # Incomplete
  BY WordsAre DEF EncodingInv, EncodingTypes
<1>4. ASSUME iter.count = 0, Len(outputs) = Len(inputs) PROVE iter.index = Len(buffer)
  <2>1. iter # NoIterator
    BY <1>4 DEF NoIterator
  <2> QED
    BY <1>4, <2>1 DEF EncodingInv, InPlace, StreamOf, IteratorAt
<1> QED
  BY <1>2, <1>3, <1>4 DEF StreamDecodes

\* For words of any width and any values, however long the stream and with
\* whatever is added behind a live iterator: what delta_decoder gives back is
\* what delta_encoder took, in its order, and no varint in the buffer of
\* varint_compressor is ever incomplete.
THEOREM StreamsAlwaysDecode == EncodingSpec => []StreamDecodes
<1>1. EncodingInit => EncodingInv
  BY InitEncodingInv
<1>2. EncodingInv /\ [EncodingNext]_encodingVars => EncodingInv'
  BY StepEncodingInv
<1>3. EncodingInv => StreamDecodes
  BY EncodingInvDecodes
<1> QED
  BY <1>1, <1>2, <1>3, PTL DEF EncodingSpec

-----------------------------------------------------------------------------
(* Archives.  First folds: FoldLeft takes the largest place of a set of    *)
(* places away until none is left, which makes it a recursive function of  *)
(* subsets of 1 .. n; on the intervals, which are the only ones it comes   *)
(* to, it is a run of one step after the other.                            *)

LEMMA TopOf ==
    ASSUME NEW n \in Nat, NEW s \in SUBSET (1 .. n), n \in s
    PROVE  Max(s) = n
<1>1. n \in s /\ \A y \in s : n >= y
  OBVIOUS
<1>2. ASSUME NEW x \in s, \A y \in s : x >= y PROVE x = n
  BY <1>1, <1>2
<1> QED
  BY <1>1, <1>2 DEF Max

LEMMA TopSplit ==
    ASSUME NEW n \in Nat, n # 0
    PROVE  /\ 1 .. n # {} /\ 1 .. n \in SUBSET (1 .. n) /\ n \in 1 .. n /\ Max(1 .. n) = n
           /\ (1 .. n) \ {n} = 1 .. n - 1 /\ n - 1 \in Nat
<1>1. Max(1 .. n) = n
  BY TopOf
<1> QED
  BY <1>1

\* The operators that are folded, by a name, for no lemma takes an operator.
FoldStep(op, acc, item) ==
    IF op = "put" THEN Put(acc, item)
    ELSE IF op = "node" THEN GetNode(acc, item)
    ELSE IF op = "plus" THEN Reduced(Plus(acc, item))
    ELSE IF op = "busy" THEN IF item.xs = <<>> THEN acc ELSE Append(acc, item)
    ELSE IF op = "join" THEN acc \o item.xs
    ELSE acc + item

FoldBy(op, f, a, items, s) == IF s = {} THEN a ELSE FoldStep(op, f[s \ {Max(s)}], items[Max(s)])

FoldsTo(op, f, a, items, n) == f = [s \in SUBSET (1 .. n) |-> FoldBy(op, f, a, items, s)]

LEMMA FoldsMore ==
    ASSUME NEW op, NEW a, NEW items, NEW n \in Nat, NEW f, n # 0 => FoldsTo(op, f, a, items, n - 1)
    PROVE  \E g : FoldsTo(op, g, a, items, n)
<1>1. PICK g : g = [s \in SUBSET (1 .. n) |-> IF n \in s /\ n # 0 THEN FoldStep(op, f[s \ {n}], items[n])
                                             ELSE IF n = 0 THEN a ELSE f[s]]
  OBVIOUS
<1>2. ASSUME NEW s \in SUBSET (1 .. n) PROVE g[s] = FoldBy(op, g, a, items, s)
  <2>1. CASE n = 0
    <3>1. s = {}
      BY <2>1
    <3> QED
      BY <1>1, <2>1, <3>1 DEF FoldBy
  <2>2. CASE n # 0 /\ n \in s
    <3>1. Max(s) = n /\ s # {}
      BY <2>2, TopOf
    <3>2. s \ {n} \in SUBSET (1 .. n) /\ s \ {n} \in SUBSET (1 .. n - 1) /\ n \notin s \ {n}
      OBVIOUS
    <3>3. g[s \ {n}] = f[s \ {n}]
      BY <1>1, <2>2, <3>2
    <3>4. g[s] = FoldStep(op, f[s \ {n}], items[n])
      BY <1>1, <2>2
    <3> QED
      BY <3>1, <3>3, <3>4 DEF FoldBy
  <2>3. CASE n # 0 /\ n \notin s
    <3>1. s \in SUBSET (1 .. n - 1)
      BY <2>3
    <3>2. g[s] = f[s]
      BY <1>1, <2>3
    <3>3. f[s] = FoldBy(op, f, a, items, s)
      BY <2>3, <3>1 DEF FoldsTo
    <3>4. s \ {Max(s)} \in SUBSET (1 .. n) /\ n \notin s \ {Max(s)}
      BY <2>3
    <3>5. g[s \ {Max(s)}] = f[s \ {Max(s)}]
      BY <1>1, <2>3, <3>4
    <3> QED
      BY <3>2, <3>3, <3>5 DEF FoldBy
  <2> QED
    BY <2>1, <2>2, <2>3
<1>3. g = [s \in SUBSET (1 .. n) |-> g[s]]
  BY <1>1
<1>4. g = [s \in SUBSET (1 .. n) |-> FoldBy(op, g, a, items, s)]
  BY <1>2, <1>3, Zenon
<1> QED
  BY <1>4 DEF FoldsTo

LEMMA FoldsExist == ASSUME NEW op, NEW a, NEW items, NEW n \in Nat PROVE \E f : FoldsTo(op, f, a, items, n)
<1> DEFINE Short == {k \in Nat : ~ \E f : FoldsTo(op, f, a, items, k)}
<1> SUFFICES ASSUME Short # {} PROVE FALSE
  OBVIOUS
<1>1. Short \in SUBSET Nat
  OBVIOUS
<1>2. ASSUME NEW k \in Short PROVE ~ \E f : FoldsTo(op, f, a, items, k)
  OBVIOUS
<1>3. ASSUME NEW k \in Nat, k \notin Short PROVE \E f : FoldsTo(op, f, a, items, k)
  BY <1>3
<1> HIDE DEF Short
<1>4. PICK k \in Short : \A m \in Short : k <= m
  BY <1>1, LeastNumber
<1>5. k \in Nat
  BY <1>1, <1>4
<1>6. PICK f : k # 0 => FoldsTo(op, f, a, items, k - 1)
  <2>1. CASE k # 0
    <3>1. k - 1 \in Nat /\ ~ (k <= k - 1)
      BY <1>5, <2>1
    <3> QED
      BY <1>3, <1>4, <3>1
  <2> QED
    BY <2>1
<1>7. \E g : FoldsTo(op, g, a, items, k)
  BY <1>5, <1>6, FoldsMore
<1> QED
  BY <1>2, <1>4, <1>7

\* One step for each item, from a on.
Running(op, run, a, items, n) == run[0] = a /\ \A k \in 1 .. n : run[k] = FoldStep(op, run[k - 1], items[k])

LEMMA FoldsAre ==
    ASSUME NEW op, NEW a, NEW items, NEW n \in Nat, NEW f, FoldsTo(op, f, a, items, n),
           NEW run, Running(op, run, a, items, n)
    PROVE  f[1 .. n] = run[n]
<1> DEFINE Wrong == {k \in 0 .. n : f[1 .. k] # run[k]}
<1> SUFFICES ASSUME Wrong # {} PROVE FALSE
  OBVIOUS
<1>1. Wrong \in SUBSET Nat /\ Wrong \subseteq 0 .. n
  OBVIOUS
<1>2. ASSUME NEW k \in Wrong PROVE f[1 .. k] # run[k]
  OBVIOUS
<1>3. ASSUME NEW k \in 0 .. n, k \notin Wrong PROVE f[1 .. k] = run[k]
  BY <1>3
<1> HIDE DEF Wrong
<1>4. PICK k \in Wrong : \A m \in Wrong : k <= m
  BY <1>1, LeastNumber
<1>5. k \in 0 .. n /\ k \in Nat
  BY <1>1, <1>4
<1>6. f[1 .. k] = FoldBy(op, f, a, items, 1 .. k)
  <2>1. 1 .. k \in SUBSET (1 .. n)
    BY <1>5
  <2> QED
    BY <2>1 DEF FoldsTo
<1>7. CASE k = 0
  <2>1. 1 .. k = {}
    BY <1>7
  <2>2. f[1 .. k] = a
    BY <1>6, <2>1 DEF FoldBy
  <2> QED
    BY <1>2, <1>4, <1>7, <2>2 DEF Running
<1>8. CASE k # 0
  <2>1. k \in 1 .. n /\ k - 1 \in 0 .. n /\ ~ k <= k - 1
    BY <1>5, <1>8
  <2>2. f[1 .. k - 1] = run[k - 1]
    BY <1>3, <1>4, <2>1
  <2>3. 1 .. k # {} /\ Max(1 .. k) = k /\ (1 .. k) \ {k} = 1 .. k - 1
    BY <1>5, <1>8, TopSplit
  <2>4. f[1 .. k] = FoldStep(op, run[k - 1], items[k])
    BY <1>6, <2>2, <2>3 DEF FoldBy
  <2> QED
    BY <1>2, <1>4, <2>1, <2>4 DEF Running
<1> QED
  BY <1>7, <1>8

LEMMA RunExists ==
    ASSUME NEW op, NEW a, NEW items, NEW n \in Nat
    PROVE  \E run : Running(op, run, a, items, n)
<1>1. PICK f : FoldsTo(op, f, a, items, n)
  BY FoldsExist
<1>2. PICK run : run = [k \in 0 .. n |-> f[1 .. k]]
  OBVIOUS
<1>3. run[0] = a
  <2>1. 1 .. 0 = {} /\ 1 .. 0 \in SUBSET (1 .. n)
    OBVIOUS
  <2>2. f[1 .. 0] = a
    BY <1>1, <2>1 DEF FoldsTo, FoldBy
  <2> QED
    BY <1>2, <2>2
<1>4. ASSUME NEW k \in 1 .. n PROVE run[k] = FoldStep(op, run[k - 1], items[k])
  <2>1. k \in 0 .. n /\ k - 1 \in 0 .. n /\ k \in Nat /\ k # 0
    OBVIOUS
  <2>2. 1 .. k # {} /\ Max(1 .. k) = k /\ (1 .. k) \ {k} = 1 .. k - 1
    BY <2>1, TopSplit
  <2>3. 1 .. k \in SUBSET (1 .. n)
    OBVIOUS
  <2>4. f[1 .. k] = FoldStep(op, f[1 .. k - 1], items[k])
    BY <1>1, <2>2, <2>3 DEF FoldsTo, FoldBy
  <2> QED
    BY <1>2, <2>1, <2>4
<1> QED
  BY <1>3, <1>4 DEF Running

\* What FoldLeft gives is the end of the run.
PutsTo(f, a, items, n) ==
    f = [s \in SUBSET (1 .. n) |-> IF s = {} THEN a ELSE Put(f[s \ {Max(s)}], items[Max(s)])]

LEMMA PutsFold ==
    ASSUME NEW f, NEW a, NEW items, NEW n \in Nat
    PROVE  FoldsTo("put", f, a, items, n) <=> PutsTo(f, a, items, n)
<1>1. \A s : FoldBy("put", f, a, items, s) = IF s = {} THEN a ELSE Put(f[s \ {Max(s)}], items[Max(s)])
  BY DEF FoldBy, FoldStep
<1> QED
  BY <1>1, Zenon DEF FoldsTo, PutsTo

LEMMA PutFold ==
    ASSUME NEW a, NEW items, NEW n \in Nat, DOMAIN items = 1 .. n,
           NEW run, Running("put", run, a, items, n)
    PROVE  FoldLeft(Put, a, items) = run[n]
<1>1. FoldLeft(Put, a, items) = (CHOOSE f : PutsTo(f, a, items, n))[1 .. n]
  BY DEF FoldLeft, MapThenFoldSet, PutsTo
<1>2. PICK f : f = CHOOSE g : PutsTo(g, a, items, n)
  OBVIOUS
<1>3. FoldsTo("put", f, a, items, n)
  <2>1. PICK g : PutsTo(g, a, items, n)
    BY FoldsExist, PutsFold
  <2>2. PutsTo(f, a, items, n)
    BY <1>2, <2>1
  <2> QED
    BY <2>2, PutsFold
<1>4. f[1 .. n] = run[n]
  BY <1>3, FoldsAre
<1> QED
  BY <1>1, <1>2, <1>4

NodesTo(f, a, items, n) ==
    f = [s \in SUBSET (1 .. n) |-> IF s = {} THEN a ELSE GetNode(f[s \ {Max(s)}], items[Max(s)])]

LEMMA NodesFold ==
    ASSUME NEW f, NEW a, NEW items, NEW n \in Nat
    PROVE  FoldsTo("node", f, a, items, n) <=> NodesTo(f, a, items, n)
<1>1. \A s : FoldBy("node", f, a, items, s) = IF s = {} THEN a ELSE GetNode(f[s \ {Max(s)}], items[Max(s)])
  BY DEF FoldBy, FoldStep
<1> QED
  BY <1>1, Zenon DEF FoldsTo, NodesTo

LEMMA NodeFold ==
    ASSUME NEW a, NEW items, NEW n \in Nat, DOMAIN items = 1 .. n,
           NEW run, Running("node", run, a, items, n)
    PROVE  FoldLeft(GetNode, a, items) = run[n]
<1>1. FoldLeft(GetNode, a, items) = (CHOOSE f : NodesTo(f, a, items, n))[1 .. n]
  BY DEF FoldLeft, MapThenFoldSet, NodesTo
<1>2. PICK f : f = CHOOSE g : NodesTo(g, a, items, n)
  OBVIOUS
<1>3. FoldsTo("node", f, a, items, n)
  <2>1. PICK g : NodesTo(g, a, items, n)
    BY FoldsExist, NodesFold
  <2>2. NodesTo(f, a, items, n)
    BY <1>2, <2>1
  <2> QED
    BY <2>2, NodesFold
<1>4. f[1 .. n] = run[n]
  BY <1>3, FoldsAre
<1> QED
  BY <1>1, <1>2, <1>4

TotalsTo(f, a, items, n) ==
    f = [s \in SUBSET (1 .. n) |-> IF s = {} THEN a ELSE f[s \ {Max(s)}] + items[Max(s)]]

LEMMA TotalsFold ==
    ASSUME NEW f, NEW a, NEW items, NEW n \in Nat
    PROVE  FoldsTo("sum", f, a, items, n) <=> TotalsTo(f, a, items, n)
<1>1. \A s : FoldBy("sum", f, a, items, s) = IF s = {} THEN a ELSE f[s \ {Max(s)}] + items[Max(s)]
  BY DEF FoldBy, FoldStep
<1> QED
  BY <1>1, Zenon DEF FoldsTo, TotalsTo

LEMMA TotalFold ==
    ASSUME NEW a, NEW items, NEW n \in Nat, DOMAIN items = 1 .. n,
           NEW run, Running("sum", run, a, items, n)
    PROVE  FoldLeft(LAMBDA x, y : x + y, a, items) = run[n]
<1>1. FoldLeft(LAMBDA x, y : x + y, a, items) = (CHOOSE f : TotalsTo(f, a, items, n))[1 .. n]
  BY DEF FoldLeft, MapThenFoldSet, TotalsTo
<1>2. PICK f : f = CHOOSE g : TotalsTo(g, a, items, n)
  OBVIOUS
<1>3. FoldsTo("sum", f, a, items, n)
  <2>1. PICK g : TotalsTo(g, a, items, n)
    BY FoldsExist, TotalsFold
  <2>2. TotalsTo(f, a, items, n)
    BY <1>2, <2>1
  <2> QED
    BY <2>2, TotalsFold
<1>4. f[1 .. n] = run[n]
  BY <1>3, FoldsAre
<1> QED
  BY <1>1, <1>2, <1>4

PlusesTo(f, a, items, n) ==
    f = [s \in SUBSET (1 .. n) |-> IF s = {} THEN a ELSE Reduced(Plus(f[s \ {Max(s)}], items[Max(s)]))]

LEMMA PlusesFold ==
    ASSUME NEW f, NEW a, NEW items, NEW n \in Nat
    PROVE  FoldsTo("plus", f, a, items, n) <=> PlusesTo(f, a, items, n)
<1>1. \A s : FoldBy("plus", f, a, items, s) = IF s = {} THEN a ELSE Reduced(Plus(f[s \ {Max(s)}], items[Max(s)]))
  BY DEF FoldBy, FoldStep
<1> QED
  BY <1>1, Zenon DEF FoldsTo, PlusesTo

LEMMA PlusFold ==
    ASSUME NEW a, NEW items, NEW n \in Nat, DOMAIN items = 1 .. n,
           NEW run, Running("plus", run, a, items, n)
    PROVE  FoldLeft(LAMBDA x, y : Reduced(Plus(x, y)), a, items) = run[n]
<1>1. FoldLeft(LAMBDA x, y : Reduced(Plus(x, y)), a, items) = (CHOOSE f : PlusesTo(f, a, items, n))[1 .. n]
  BY DEF FoldLeft, MapThenFoldSet, PlusesTo
<1>2. PICK f : f = CHOOSE g : PlusesTo(g, a, items, n)
  OBVIOUS
<1>3. FoldsTo("plus", f, a, items, n)
  <2>1. PICK g : PlusesTo(g, a, items, n)
    BY FoldsExist, PlusesFold
  <2>2. PlusesTo(f, a, items, n)
    BY <1>2, <2>1
  <2> QED
    BY <2>2, PlusesFold
<1>4. f[1 .. n] = run[n]
  BY <1>3, FoldsAre
<1> QED
  BY <1>1, <1>2, <1>4

BusiesTo(f, a, items, n) ==
    f = [s \in SUBSET (1 .. n) |->
            IF s = {} THEN a
            ELSE IF items[Max(s)].xs = <<>> THEN f[s \ {Max(s)}] ELSE Append(f[s \ {Max(s)}], items[Max(s)])]

LEMMA BusiesFold ==
    ASSUME NEW f, NEW a, NEW items, NEW n \in Nat
    PROVE  FoldsTo("busy", f, a, items, n) <=> BusiesTo(f, a, items, n)
<1>1. \A s : FoldBy("busy", f, a, items, s) =
                IF s = {} THEN a
                ELSE IF items[Max(s)].xs = <<>> THEN f[s \ {Max(s)}] ELSE Append(f[s \ {Max(s)}], items[Max(s)])
  BY DEF FoldBy, FoldStep
<1> QED
  BY <1>1, Zenon DEF FoldsTo, BusiesTo

LEMMA BusyFold ==
    ASSUME NEW a, NEW items, NEW n \in Nat, DOMAIN items = 1 .. n,
           NEW run, Running("busy", run, a, items, n)
    PROVE  FoldLeft(LAMBDA acc, part : IF part.xs = <<>> THEN acc ELSE Append(acc, part), a, items) = run[n]
<1>1. FoldLeft(LAMBDA acc, part : IF part.xs = <<>> THEN acc ELSE Append(acc, part), a, items)
         = (CHOOSE f : BusiesTo(f, a, items, n))[1 .. n]
  BY DEF FoldLeft, MapThenFoldSet, BusiesTo
<1>2. PICK f : f = CHOOSE g : BusiesTo(g, a, items, n)
  OBVIOUS
<1>3. FoldsTo("busy", f, a, items, n)
  <2>1. PICK g : BusiesTo(g, a, items, n)
    BY FoldsExist, BusiesFold
  <2>2. BusiesTo(f, a, items, n)
    BY <1>2, <2>1
  <2> QED
    BY <2>2, BusiesFold
<1>4. f[1 .. n] = run[n]
  BY <1>3, FoldsAre
<1> QED
  BY <1>1, <1>2, <1>4

JoinsTo(f, a, items, n) ==
    f = [s \in SUBSET (1 .. n) |-> IF s = {} THEN a ELSE f[s \ {Max(s)}] \o items[Max(s)].xs]

LEMMA JoinsFold ==
    ASSUME NEW f, NEW a, NEW items, NEW n \in Nat
    PROVE  FoldsTo("join", f, a, items, n) <=> JoinsTo(f, a, items, n)
<1>1. \A s : FoldBy("join", f, a, items, s) = IF s = {} THEN a ELSE f[s \ {Max(s)}] \o items[Max(s)].xs
  BY DEF FoldBy, FoldStep
<1> QED
  BY <1>1, Zenon DEF FoldsTo, JoinsTo

LEMMA JoinFold ==
    ASSUME NEW a, NEW items, NEW n \in Nat, DOMAIN items = 1 .. n,
           NEW run, Running("join", run, a, items, n)
    PROVE  FoldLeft(LAMBDA acc, part : acc \o part.xs, a, items) = run[n]
<1>1. FoldLeft(LAMBDA acc, part : acc \o part.xs, a, items) = (CHOOSE f : JoinsTo(f, a, items, n))[1 .. n]
  BY DEF FoldLeft, MapThenFoldSet, JoinsTo
<1>2. PICK f : f = CHOOSE g : JoinsTo(g, a, items, n)
  OBVIOUS
<1>3. FoldsTo("join", f, a, items, n)
  <2>1. PICK g : JoinsTo(g, a, items, n)
    BY FoldsExist, JoinsFold
  <2>2. JoinsTo(f, a, items, n)
    BY <1>2, <2>1
  <2> QED
    BY <2>2, JoinsFold
<1>4. f[1 .. n] = run[n]
  BY <1>3, FoldsAre
<1> QED
  BY <1>1, <1>2, <1>4

-----------------------------------------------------------------------------
(* Sequences, of whatever: put together, cut and made longer. *)

LEMMA SequenceIs ==
    ASSUME NEW s, IsSequence(s)
    PROVE  /\ Len(s) \in Nat /\ DOMAIN s = 1 .. Len(s)
           /\ s = [i \in 1 .. Len(s) |-> s[i]]
<1>1. PICK S : s \in Seq(S)
  BY DEF IsSequence
<1> QED
  BY <1>1

LEMMA SequenceIn == ASSUME NEW S, NEW s \in Seq(S) PROVE IsSequence(s)
<1>1. Len(s) \in Nat /\ s \in [1 .. Len(s) -> S]
  OBVIOUS
<1>2. \A i \in 1 .. Len(s) : s[i] \in Range(s)
  BY <1>1 DEF Range
<1>3. PICK V : V = Range(s)
  OBVIOUS
<1>4. s \in [1 .. Len(s) -> V]
  BY <1>1, <1>2, <1>3
<1>5. s \in Seq(V)
  BY <1>1, <1>4
<1> QED
  BY <1>3, <1>5 DEF IsSequence

LEMMA SequenceOf ==
    ASSUME NEW n \in Nat, NEW s, s = [i \in 1 .. n |-> s[i]]
    PROVE  IsSequence(s) /\ Len(s) = n
<1>1. PICK V : V = {s[i] : i \in 1 .. n}
  OBVIOUS
<1>2. s \in [1 .. n -> V]
  BY <1>1
<1>3. s \in Seq(V) /\ Len(s) = n
  BY <1>2
<1> QED
  BY <1>3, SequenceIn

LEMMA SameSequence ==
    ASSUME NEW s, NEW t, IsSequence(s), IsSequence(t), Len(s) = Len(t),
           \A i \in 1 .. Len(s) : s[i] = t[i]
    PROVE  s = t
<1>1. s = [i \in 1 .. Len(s) |-> s[i]] /\ t = [i \in 1 .. Len(t) |-> t[i]]
  BY SequenceIs
<1> QED
  BY <1>1

LEMMA BothIn ==
    ASSUME NEW s, NEW t, IsSequence(s), IsSequence(t)
    PROVE  \E S : s \in Seq(S) /\ t \in Seq(S)
<1>1. PICK A : s \in Seq(A)
  BY DEF IsSequence
<1>2. PICK B : t \in Seq(B)
  BY DEF IsSequence
<1>3. PICK S : S = A \cup B
  OBVIOUS
<1>4. s \in Seq(S)
  BY <1>1, <1>3
<1>5. t \in Seq(S)
  BY <1>2, <1>3
<1> QED
  BY <1>4, <1>5

\* What a concatenation is.
IsJoined(x, s, t) ==
    /\ IsSequence(x) /\ Len(x) = Len(s) + Len(t)
    /\ \A i \in 1 .. Len(s) : x[i] = s[i]
    /\ \A i \in 1 .. Len(t) : x[Len(s) + i] = t[i]

LEMMA JoinedIs ==
    ASSUME NEW s, NEW t, IsSequence(s), IsSequence(t)
    PROVE  IsJoined(s \o t, s, t)
<1>1. PICK S : s \in Seq(S) /\ t \in Seq(S)
  BY BothIn
<1>2. s \o t \in Seq(S)
  BY <1>1
<1>3. IsSequence(s \o t)
  BY <1>2, SequenceIn
<1>4. Len(s \o t) = Len(s) + Len(t)
  BY <1>1
<1>5. \A i \in 1 .. Len(s) : (s \o t)[i] = s[i]
  BY <1>1
<1>6. \A i \in 1 .. Len(t) : (s \o t)[Len(s) + i] = t[i]
  BY <1>1
<1> QED
  BY <1>3, <1>4, <1>5, <1>6 DEF IsJoined

LEMMA AppendedIs ==
    ASSUME NEW s, NEW v, IsSequence(s)
    PROVE  /\ IsSequence(Append(s, v)) /\ Len(Append(s, v)) = Len(s) + 1
           /\ Append(s, v)[Len(s) + 1] = v
           /\ \A i \in 1 .. Len(s) : Append(s, v)[i] = s[i]
<1>1. PICK A : s \in Seq(A)
  BY DEF IsSequence
<1>2. PICK S : S = A \cup {v}
  OBVIOUS
<1>3. s \in Seq(S) /\ v \in S
  BY <1>1, <1>2
<1>4. Append(s, v) \in Seq(S)
  BY <1>3
<1>5. IsSequence(Append(s, v))
  BY <1>4, SequenceIn
<1> QED
  BY <1>3, <1>5

LEMMA CutIs ==
    ASSUME NEW s, IsSequence(s), NEW p \in Nat, NEW q \in Nat, p <= q, q <= Len(s)
    PROVE  /\ IsSequence(SubSeq(s, p + 1, q)) /\ Len(SubSeq(s, p + 1, q)) = q - p
           /\ \A i \in 1 .. q - p : SubSeq(s, p + 1, q)[i] = s[p + i]
<1>1. PICK S : s \in Seq(S)
  BY DEF IsSequence
<1>2. SubSeq(s, p + 1, q) \in Seq(S)
  BY <1>1
<1>3. IsSequence(SubSeq(s, p + 1, q))
  BY <1>2, SequenceIn
<1>4. Len(SubSeq(s, p + 1, q)) = q - p
  BY <1>1
<1>5. \A i \in 1 .. q - p : SubSeq(s, p + 1, q)[i] = s[p + i]
  BY <1>1
<1> QED
  BY <1>3, <1>4, <1>5

-----------------------------------------------------------------------------
(* Output: items are put one behind the other, and the buffer grows. *)

\* An archive that has room and not too much of it.
Roomy(a, top) ==
    /\ a = [data |-> a.data, pos |-> a.pos]
    /\ IsSequence(a.data) /\ a.pos \in Nat
    /\ a.pos <= Len(a.data) /\ Len(a.data) <= 3 * top

CellsAt(data, p, v, w) == p + w <= Len(data) /\ \A j \in 1 .. w : data[p + j] = <<v, j>>

LEMMA WordsEnough == ASSUME NEW x \in Nat, x < WordMod PROVE x % WordMod = x
<1>1. PICK w \in Nat \ {0} : w = WordMod
  BY ArchiveAssumption
<1>2. \A y \in 0 .. w - 1 : y % w = y
  OBVIOUS
<1> QED
  BY <1>1, <1>2

LEMMA RemainingIs ==
    ASSUME NEW a, IsSequence(a.data), a.pos \in Nat, a.pos <= Len(a.data), Len(a.data) < WordMod
    PROVE  Remaining(a) = Len(a.data) - a.pos
<1>1. Len(a.data) \in Nat /\ WordMod \in Nat
  BY SequenceIs, ArchiveAssumption
<1>2. PICK x \in Nat : x = Len(a.data) - a.pos
  BY <1>1
<1>3. x < WordMod
  BY <1>1, <1>2
<1> QED
  BY <1>2, <1>3, WordsEnough DEF Remaining

LEMMA BufferKeeps ==
    ASSUME NEW data, NEW n \in Nat, NEW i \in 1 .. n, i <= Len(data)
    PROVE  Resized(data, n)[i] = data[i]
  BY DEF Resized

LEMMA BufferResized ==
    ASSUME NEW data, NEW n \in Nat
    PROVE  IsSequence(Resized(data, n)) /\ Len(Resized(data, n)) = n
<1>1. PICK s : s = Resized(data, n)
  OBVIOUS
<1>2. s = [i \in 1 .. n |-> IF i <= Len(data) THEN data[i] ELSE <<0, 0>>]
  BY <1>1 DEF Resized
<1>3. s = [i \in 1 .. n |-> s[i]]
  BY <1>2
<1>4. IsSequence(s) /\ Len(s) = n
  BY <1>3, SequenceOf
<1> QED
  BY <1>1, <1>4

\* What the enlarged archive e is: a, with room for w more.
IsEnlarged(e, a, w, top) ==
    /\ Roomy(e, top) /\ e.pos = a.pos /\ a.pos + w <= Len(e.data)
    /\ \A i \in 1 .. a.pos : e.data[i] = a.data[i]

LEMMA EnlargedIs ==
    ASSUME NEW top \in Nat, 3 * top < WordMod, NEW a, Roomy(a, top),
           NEW w \in Nat, a.pos + w <= top
    PROVE  IsEnlarged(EnlargeFor(a, w), a, w, top)
<1>1. PICK len \in Nat : len = Len(a.data)
  BY SequenceIs DEF Roomy
<1>2. PICK p \in Nat : p = a.pos
  BY DEF Roomy
<1>3. p <= len /\ len <= 3 * top /\ IsSequence(a.data)
  BY <1>1, <1>2 DEF Roomy
<1>4. len < WordMod
  BY <1>3, ArchiveAssumption
<1>5. Remaining(a) = len - p
  BY <1>1, <1>2, <1>3, <1>4, RemainingIs
<1>6. CASE w <= len - p
  <2>1. EnlargeFor(a, w) = a
    BY <1>2, <1>3, <1>5, <1>6 DEF EnlargeFor
  <2>2. a.pos + w <= Len(a.data)
    BY <1>1, <1>2, <1>6
  <2> QED
    BY <2>1, <2>2 DEF IsEnlarged
<1>7. CASE ~ w <= len - p
  <2>1. PICK n \in Nat : n = ((len + w) * 3) \div 2
    OBVIOUS
  <2>2. p + w <= n /\ n <= 3 * top
    <3>1. PICK m \in Nat : m = len + w
      OBVIOUS
    <3>2. p + w <= m /\ m >= 1 /\ m <= 2 * top
      BY <1>2, <1>3, <1>7, <3>1
    <3>3. n = (m * 3) \div 2
      BY <2>1, <3>1
    <3>4. 2 * n <= 3 * m /\ 3 * m <= 2 * n + 1
      BY <3>3
    <3> QED
      BY <3>2, <3>4
  <2>3. EnlargeFor(a, w) = [a EXCEPT !.data = Resized(a.data, n)]
    BY <1>1, <1>5, <1>7, <2>1 DEF EnlargeFor
  <2>4. PICK d : d = Resized(a.data, n)
    OBVIOUS
  <2>5. EnlargeFor(a, w) = [data |-> d, pos |-> p]
    BY <1>2, <2>3, <2>4, Zenon DEF Roomy
  <2>6. IsSequence(d) /\ Len(d) = n
    BY <2>4, BufferResized
  <2>7. \A i \in 1 .. p : d[i] = a.data[i]
    <3>1. \A i \in 1 .. p : i \in 1 .. n /\ i <= Len(a.data)
      BY <1>1, <1>3, <2>2
    <3> QED
      BY <2>1, <2>4, <3>1, BufferKeeps
  <2>8. PICK e : e = EnlargeFor(a, w)
    OBVIOUS
  <2>9. e.data = d /\ e.pos = p /\ e = [data |-> e.data, pos |-> e.pos]
    BY <2>5, <2>8
  <2>10. Roomy(e, top)
    BY <2>2, <2>6, <2>9 DEF Roomy
  <2>11. a.pos + w <= Len(e.data)
    BY <1>2, <2>2, <2>6, <2>9
  <2>12. e.pos = a.pos /\ \A i \in 1 .. a.pos : e.data[i] = a.data[i]
    BY <1>2, <2>7, <2>9
  <2> QED
    BY <2>8, <2>10, <2>11, <2>12 DEF IsEnlarged
<1> QED
  BY <1>6, <1>7

\* An item goes behind what is there.
LEMMA PutIs ==
    ASSUME NEW top \in Nat, 3 * top < WordMod, NEW a, Roomy(a, top),
           NEW v, NEW w \in Nat, a.pos + w <= top
    PROVE  \E b : /\ b = Put(a, <<v, w>>)
                  /\ Roomy(b, top) /\ b.pos = a.pos + w
                  /\ \A i \in 1 .. a.pos : b.data[i] = a.data[i]
                  /\ CellsAt(b.data, a.pos, v, w)
<1>1. PICK e : e = EnlargeFor(a, w)
  OBVIOUS
<1>2. /\ Roomy(e, top) /\ e.pos = a.pos /\ a.pos + w <= Len(e.data)
      /\ \A i \in 1 .. a.pos : e.data[i] = a.data[i]
  <2>1. IsEnlarged(EnlargeFor(a, w), a, w, top)
    BY EnlargedIs
  <2> QED
    BY <1>1, <2>1 DEF IsEnlarged
<1>3. PICK p \in Nat : p = a.pos
  BY DEF Roomy
<1>4. PICK len \in Nat : len = Len(e.data)
  BY <1>2, SequenceIs DEF Roomy
<1>5. p + w <= len /\ len <= 3 * top /\ IsSequence(e.data) /\ e.pos = p
  BY <1>2, <1>3, <1>4 DEF Roomy
<1>6. PICK d : d = [i \in 1 .. len |-> IF i \in p + 1 .. p + w THEN Cells(v, w)[i - p] ELSE e.data[i]]
  OBVIOUS
<1>7. PICK b : b = [data |-> d, pos |-> p + w]
  OBVIOUS
<1>8. b = Put(a, <<v, w>>)
  <2>1. <<v, w>>[1] = v /\ <<v, w>>[2] = w /\ ~ p + w > len
    BY <1>5
  <2> QED
    BY <1>1, <1>4, <1>5, <1>6, <1>7, <2>1 DEF Put
<1>9. d = [i \in 1 .. len |-> d[i]]
  BY <1>6
<1>10. IsSequence(d) /\ Len(d) = len
  BY <1>9, SequenceOf
<1>11. b.data = d /\ b.pos = p + w /\ b = [data |-> b.data, pos |-> b.pos]
  BY <1>7
<1>12. Roomy(b, top)
  BY <1>5, <1>10, <1>11 DEF Roomy
<1>13. \A i \in 1 .. p : d[i] = a.data[i]
  <2>1. \A i \in 1 .. p : i \in 1 .. len /\ i \notin p + 1 .. p + w
    BY <1>5
  <2> QED
    BY <1>2, <1>3, <1>6, <2>1
<1>14. ASSUME NEW j \in 1 .. w PROVE d[p + j] = <<v, j>>
  <2>1. p + j \in 1 .. len /\ p + j \in p + 1 .. p + w /\ (p + j) - p = j
    BY <1>5
  <2>2. Cells(v, w)[j] = <<v, j>>
    BY DEF Cells
  <2> QED
    BY <1>6, <2>1, <2>2
<1>15. CellsAt(d, p, v, w)
  BY <1>5, <1>10, <1>14 DEF CellsAt
<1> QED
  BY <1>3, <1>8, <1>11, <1>12, <1>13, <1>15

\* Where items are put: each behind the one before.
Places(at, items, n, p, top) ==
    /\ at[0] = p
    /\ \A k \in 0 .. n : at[k] \in Nat /\ at[k] <= top
    /\ \A k \in 1 .. n : /\ items[k] = <<items[k][1], items[k][2]>>
                         /\ items[k][2] \in Nat /\ at[k] = at[k - 1] + items[k][2]

\* What is in an archive after k items.
PutSoFar(b, a, items, at, top, k) ==
    /\ Roomy(b, top) /\ b.pos = at[k]
    /\ \A i \in 1 .. a.pos : b.data[i] = a.data[i]
    /\ at[0] <= at[k]
    /\ \A j \in 1 .. k : at[j] <= at[k] /\ CellsAt(b.data, at[j - 1], items[j][1], items[j][2])

LEMMA CellsKept ==
    ASSUME NEW d, NEW e, NEW p \in Nat, NEW w \in Nat, NEW v, CellsAt(d, p, v, w),
           NEW q \in Nat, p + w <= q, q <= Len(e), \A i \in 1 .. q : e[i] = d[i], Len(e) \in Nat
    PROVE  CellsAt(e, p, v, w)
<1>1. \A j \in 1 .. w : p + j \in 1 .. q
  OBVIOUS
<1>2. \A j \in 1 .. w : e[p + j] = <<v, j>>
  BY <1>1 DEF CellsAt
<1>3. p + w <= Len(e)
  OBVIOUS
<1> QED
  BY <1>2, <1>3 DEF CellsAt

LEMMA PutNext ==
    ASSUME NEW top \in Nat, 3 * top < WordMod, NEW a, Roomy(a, top), NEW items, NEW n \in Nat,
           NEW at, Places(at, items, n, a.pos, top),
           NEW k \in 1 .. n, NEW b, PutSoFar(b, a, items, at, top, k - 1)
    PROVE  PutSoFar(Put(b, items[k]), a, items, at, top, k)
<1>1. PICK v, w : v = items[k][1] /\ w = items[k][2]
  OBVIOUS
<1>2. items[k] = <<v, w>> /\ w \in Nat /\ at[k] = at[k - 1] + w
  BY <1>1 DEF Places
<1>3. k - 1 \in 0 .. n /\ k \in 0 .. n /\ 0 \in 0 .. n
  OBVIOUS
<1>4. PICK p \in Nat, q \in Nat : p = at[k - 1] /\ q = at[k] /\ q <= top
  BY <1>3 DEF Places
<1>5. Roomy(b, top) /\ b.pos = p /\ q = p + w
  BY <1>2, <1>4 DEF PutSoFar
<1>6. PICK c : /\ c = Put(b, <<v, w>>)
               /\ Roomy(c, top) /\ c.pos = b.pos + w
               /\ \A i \in 1 .. b.pos : c.data[i] = b.data[i]
               /\ CellsAt(c.data, b.pos, v, w)
  <2>1. b.pos + w <= top
    BY <1>4, <1>5
  <2> QED
    BY <1>2, <1>5, <2>1, PutIs
<1>7. /\ c = Put(b, items[k]) /\ c.pos = q
      /\ \A i \in 1 .. p : c.data[i] = b.data[i]
      /\ CellsAt(c.data, p, v, w)
  BY <1>2, <1>5, <1>6
<1>8. at[0] \in Nat /\ at[0] = a.pos /\ at[0] <= p
  BY <1>3, <1>4 DEF Places, PutSoFar
<1>9. \A i \in 1 .. a.pos : c.data[i] = a.data[i]
  <2>1. \A i \in 1 .. a.pos : i \in 1 .. p
    BY <1>8
  <2>2. \A i \in 1 .. a.pos : b.data[i] = a.data[i]
    BY DEF PutSoFar
  <2> QED
    BY <1>7, <2>1, <2>2
<1>10. p <= Len(c.data) /\ Len(c.data) \in Nat
  <2>1. Len(c.data) \in Nat /\ c.pos <= Len(c.data)
    BY <1>6, SequenceIs DEF Roomy
  <2> QED
    BY <1>2, <1>5, <1>7, <2>1
<1>11. ASSUME NEW j \in 1 .. k
       PROVE  at[j] <= at[k] /\ CellsAt(c.data, at[j - 1], items[j][1], items[j][2])
  <2>1. CASE j = k
    BY <1>1, <1>4, <1>7, <2>1
  <2>2. CASE j # k
    <3>1. j \in 1 .. k - 1 /\ j \in 1 .. n /\ j - 1 \in 0 .. n /\ j \in 0 .. n
      BY <2>2
    <3>2. at[j] <= p /\ CellsAt(b.data, at[j - 1], items[j][1], items[j][2])
      BY <1>4, <3>1 DEF PutSoFar
    <3>3. PICK r \in Nat, s \in Nat : r = at[j - 1] /\ s = items[j][2]
      BY <3>1 DEF Places
    <3>9. PICK u : u = items[j][1]
      OBVIOUS
    <3>4. at[j] = r + s /\ r + s <= p
      BY <3>1, <3>2, <3>3 DEF Places
    <3>5. CellsAt(b.data, r, u, s)
      BY <3>2, <3>3, <3>9
    <3>6. CellsAt(c.data, r, u, s)
      BY <1>7, <1>10, <3>4, <3>5, CellsKept
    <3> QED
      BY <1>2, <1>4, <1>5, <3>3, <3>4, <3>6, <3>9
  <2> QED
    BY <2>1, <2>2
<1>12. at[0] <= at[k]
  BY <1>2, <1>4, <1>5, <1>8
<1>13. PutSoFar(c, a, items, at, top, k)
  BY <1>4, <1>6, <1>7, <1>9, <1>11, <1>12 DEF PutSoFar
<1> QED
  BY <1>7, <1>13

LEMMA PutAll ==
    ASSUME NEW top \in Nat, 3 * top < WordMod, NEW a, Roomy(a, top), NEW items, NEW n \in Nat,
           NEW at, Places(at, items, n, a.pos, top), NEW run, Running("put", run, a, items, n)
    PROVE  PutSoFar(run[n], a, items, at, top, n)
<1> DEFINE Wrong == {k \in 0 .. n : ~ PutSoFar(run[k], a, items, at, top, k)}
<1> SUFFICES ASSUME Wrong # {} PROVE FALSE
  OBVIOUS
<1>1. Wrong \in SUBSET Nat /\ Wrong \subseteq 0 .. n
  OBVIOUS
<1>2. ASSUME NEW k \in Wrong PROVE ~ PutSoFar(run[k], a, items, at, top, k)
  OBVIOUS
<1>3. ASSUME NEW k \in 0 .. n, k \notin Wrong PROVE PutSoFar(run[k], a, items, at, top, k)
  BY <1>3
<1> HIDE DEF Wrong
<1>4. PICK k \in Wrong : \A m \in Wrong : k <= m
  BY <1>1, LeastNumber
<1>5. k \in 0 .. n /\ k \in Nat
  BY <1>1, <1>4
<1>6. CASE k = 0
  <2>1. run[0] = a /\ at[0] = a.pos /\ at[0] <= at[0]
    <3>1. at[0] \in Nat
      BY <1>5, <1>6 DEF Places
    <3> QED
      BY <3>1 DEF Running, FoldStep, Places
  <2>2. 1 .. 0 = {}
    OBVIOUS
  <2>3. PutSoFar(a, a, items, at, top, 0)
    BY <2>1, <2>2 DEF PutSoFar
  <2> QED
    BY <1>2, <1>4, <1>6, <2>1, <2>3
<1>7. CASE k # 0
  <2>1. k \in 1 .. n /\ k - 1 \in 0 .. n /\ ~ k <= k - 1
    BY <1>5, <1>7
  <2>2. PutSoFar(run[k - 1], a, items, at, top, k - 1)
    BY <1>3, <1>4, <2>1
  <2>3. PICK b : b = run[k - 1]
    OBVIOUS
  <2>4. PutSoFar(Put(b, items[k]), a, items, at, top, k)
    BY <2>1, <2>2, <2>3, PutNext
  <2>5. run[k] = Put(b, items[k])
    BY <2>1, <2>3 DEF Running, FoldStep
  <2> QED
    BY <1>2, <1>4, <2>4, <2>5
<1> QED
  BY <1>6, <1>7

\* What is in the buffer after all items, from the end of what was there.
OutHolds(d, a, items, n, at) ==
    /\ IsSequence(d) /\ Len(d) = at[n]
    /\ \A i \in 1 .. a.pos : d[i] = a.data[i]
    /\ \A k \in 1 .. n : CellsAt(d, at[k - 1], items[k][1], items[k][2])

LEMMA OutIs ==
    ASSUME NEW top \in Nat, 3 * top < WordMod, NEW a, Roomy(a, top), a.pos = Len(a.data),
           NEW items, NEW n \in Nat, DOMAIN items = 1 .. n,
           NEW at, Places(at, items, n, a.pos, top)
    PROVE  OutHolds(Out(a, items).data, a, items, n, at)
<1>1. PICK run : Running("put", run, a, items, n)
  BY RunExists
<1>2. PICK b : b = run[n]
  OBVIOUS
<1>3. PutSoFar(b, a, items, at, top, n)
  BY <1>1, <1>2, PutAll
<1>4. FoldLeft(Put, a, items) = b
  BY <1>1, <1>2, PutFold
<1>5. PICK q \in Nat : q = at[n]
  <2>1. n \in 0 .. n
    OBVIOUS
  <2> QED
    BY <2>1 DEF Places
<1>6. PICK len \in Nat : len = Len(b.data)
  BY <1>3, SequenceIs DEF PutSoFar, Roomy
<1>7. PICK p \in Nat : p = a.pos
  BY DEF Roomy
<1>8. b.pos = q /\ q <= len /\ p <= q /\ at[0] = p
  BY <1>3, <1>5, <1>6, <1>7 DEF PutSoFar, Roomy, Places
<1>9. PICK d : d = Resized(b.data, q)
  OBVIOUS
<1>10. Out(a, items).data = d
  <2>1. b.pos >= Len(a.data)
    BY <1>7, <1>8
  <2>2. Out(a, items) = [b EXCEPT !.data = d]
    BY <1>4, <1>8, <1>9, <2>1 DEF Out
  <2>3. b = [data |-> b.data, pos |-> b.pos]
    BY <1>3 DEF PutSoFar, Roomy
  <2>4. [b EXCEPT !.data = d].data = d
    BY <2>3
  <2> QED
    BY <2>2, <2>4
<1>11. IsSequence(d) /\ Len(d) = q
  BY <1>9, BufferResized
<1>12. \A i \in 1 .. q : d[i] = b.data[i]
  <2>1. \A i \in 1 .. q : i <= Len(b.data)
    BY <1>6, <1>8
  <2> QED
    BY <1>9, <2>1, BufferKeeps
<1>13. \A i \in 1 .. p : d[i] = a.data[i]
  <2>1. \A i \in 1 .. p : i \in 1 .. q
    BY <1>8
  <2>2. \A i \in 1 .. p : b.data[i] = a.data[i]
    BY <1>3, <1>7 DEF PutSoFar
  <2> QED
    BY <1>12, <2>1, <2>2
<1>14. ASSUME NEW k \in 1 .. n PROVE CellsAt(d, at[k - 1], items[k][1], items[k][2])
  <2>1. k - 1 \in 0 .. n
    OBVIOUS
  <2>2. PICK r \in Nat, s \in Nat : r = at[k - 1] /\ s = items[k][2]
    BY <2>1 DEF Places
  <2>7. PICK u : u = items[k][1]
    OBVIOUS
  <2>3. at[k] = r + s
    BY <2>2 DEF Places
  <2>4. at[k] <= q /\ CellsAt(b.data, r, u, s)
    BY <1>3, <1>5, <2>2, <2>7 DEF PutSoFar
  <2>5. r + s <= q /\ q <= Len(d) /\ Len(d) \in Nat
    BY <1>11, <2>3, <2>4
  <2>6. CellsAt(d, r, u, s)
    BY <1>12, <2>4, <2>5, CellsKept
  <2> QED
    BY <2>2, <2>6, <2>7
<1> QED
  BY <1>5, <1>7, <1>10, <1>11, <1>13, <1>14 DEF OutHolds

-----------------------------------------------------------------------------
(* Trees and bbs in cells. *)

TreeAt(d, p, tree) ==
    /\ CellsAt(d, p, Len(tree), CountWidth)
    /\ p + TreeWidth(tree) <= Len(d)
    /\ \A i \in 1 .. Len(tree) : CellsAt(d, p + CountWidth + NodeWidth * (i - 1), tree[i], NodeWidth)

BbAt(d, p, bb) ==
    /\ CellsAt(d, p, bb.ino, InoWidth)
    /\ TreeAt(d, p + InoWidth, bb.global)
    /\ TreeAt(d, p + InoWidth + TreeWidth(bb.global), bb.local)

LEMMA TreeWidthIs ==
    ASSUME NEW tree, IsSequence(tree)
    PROVE  /\ TreeWidth(tree) \in Nat /\ TreeWidth(tree) > 0
           /\ TreeWidth(tree) = 1 + 3 * Len(tree)
  BY SequenceIs DEF TreeWidth, CountWidth, NodeWidth

LEMMA BbWidthIs ==
    ASSUME NEW bb, IsSequence(bb.global), IsSequence(bb.local)
    PROVE  /\ BbWidth(bb) \in Nat /\ BbWidth(bb) > 0
           /\ BbWidth(bb) = 2 + TreeWidth(bb.global) + TreeWidth(bb.local)
<1>1. PICK g \in Nat, l \in Nat : g = TreeWidth(bb.global) /\ l = TreeWidth(bb.local)
  BY TreeWidthIs
<1> QED
  BY <1>1 DEF BbWidth, InoWidth

\* The same cells at another place.
SameCells(d, p, e, q, n) ==
    /\ q + n <= Len(e) /\ Len(e) \in Nat
    /\ \A i \in 1 .. n : e[q + i] = d[p + i]

LEMMA CellsMoved ==
    ASSUME NEW d, NEW p \in Nat, NEW e, NEW q \in Nat, NEW n \in Nat, SameCells(d, p, e, q, n),
           NEW r \in Nat, NEW w \in Nat, r + w <= n, NEW v,
           NEW x, x = p + r, NEW y, y = q + r, CellsAt(d, x, v, w)
    PROVE  CellsAt(e, y, v, w)
<1>1. ASSUME NEW j \in 1 .. w PROVE e[y + j] = <<v, j>>
  <2>1. PICK i \in 1 .. n : i = r + j
    OBVIOUS
  <2>2. q + i = y + j /\ p + i = x + j
    BY <2>1
  <2>3. e[q + i] = d[p + i]
    BY DEF SameCells
  <2>4. d[x + j] = <<v, j>>
    BY DEF CellsAt
  <2> QED
    BY <2>2, <2>3, <2>4
<1>2. y + w <= Len(e)
  BY DEF SameCells
<1> QED
  BY <1>1, <1>2 DEF CellsAt

LEMMA TreeMoved ==
    ASSUME NEW d, NEW p \in Nat, NEW e, NEW q \in Nat, NEW n \in Nat, SameCells(d, p, e, q, n),
           NEW tree, IsSequence(tree), NEW r \in Nat, r + TreeWidth(tree) <= n,
           NEW x, x = p + r, NEW y, y = q + r, TreeAt(d, x, tree)
    PROVE  TreeAt(e, y, tree)
<1>1. PICK m \in Nat : m = Len(tree) /\ TreeWidth(tree) = 1 + 3 * m
  BY SequenceIs, TreeWidthIs
<1>2. CellsAt(e, y, m, 1)
  <2>1. CellsAt(d, x, m, 1)
    BY <1>1 DEF TreeAt, CountWidth
  <2>2. r + 1 <= n
    BY <1>1
  <2> QED
    BY <2>1, <2>2, CellsMoved
<1>3. ASSUME NEW i \in 1 .. m PROVE CellsAt(e, y + 1 + 3 * (i - 1), tree[i], 3)
  <2>1. PICK s \in Nat : s = r + 1 + 3 * (i - 1)
    OBVIOUS
  <2>2. PICK w \in Nat : w = 3
    OBVIOUS
  <2>3. s + w <= n
    BY <1>1, <2>1, <2>2
  <2>4. PICK x1 : x1 = x + 1 + 3 * (i - 1)
    OBVIOUS
  <2>5. PICK y1 : y1 = y + 1 + 3 * (i - 1)
    OBVIOUS
  <2>6. x1 = p + s /\ y1 = q + s
    BY <2>1, <2>4, <2>5
  <2>7. CellsAt(d, x1, tree[i], w)
    BY <1>1, <2>2, <2>4 DEF TreeAt, CountWidth, NodeWidth
  <2>8. CellsAt(e, y1, tree[i], w)
    BY <2>3, <2>6, <2>7, CellsMoved
  <2> QED
    BY <2>2, <2>5, <2>8
<1>4. y + TreeWidth(tree) <= Len(e)
  BY <1>1 DEF SameCells
<1> QED
  BY <1>1, <1>2, <1>3, <1>4 DEF TreeAt, CountWidth, NodeWidth

LEMMA BbMoved ==
    ASSUME NEW d, NEW p \in Nat, NEW e, NEW q \in Nat, NEW n \in Nat, SameCells(d, p, e, q, n),
           NEW bb, IsSequence(bb.global), IsSequence(bb.local),
           NEW r \in Nat, r + BbWidth(bb) <= n,
           NEW x, x = p + r, NEW y, y = q + r, BbAt(d, x, bb)
    PROVE  BbAt(e, y, bb)
<1>1. PICK g \in Nat, l \in Nat : g = TreeWidth(bb.global) /\ l = TreeWidth(bb.local)
  BY TreeWidthIs
<1>2. BbWidth(bb) = 2 + g + l
  BY <1>1, BbWidthIs
<1>3. CellsAt(e, y, bb.ino, 2)
  <2>1. CellsAt(d, x, bb.ino, 2) /\ r + 2 <= n
    BY <1>2 DEF BbAt, InoWidth
  <2> QED
    BY <2>1, CellsMoved
<1>4. TreeAt(e, y + 2, bb.global)
  <2>1. PICK s \in Nat : s = r + 2 /\ s + TreeWidth(bb.global) <= n
    BY <1>1, <1>2
  <2>2. PICK x1, y1 : x1 = x + 2 /\ y1 = y + 2
    OBVIOUS
  <2>3. x1 = p + s /\ y1 = q + s
    BY <2>1, <2>2
  <2>4. TreeAt(d, x1, bb.global)
    BY <2>2 DEF BbAt, InoWidth
  <2>5. PICK tree : tree = bb.global
    OBVIOUS
  <2>6. TreeAt(d, x1, tree) /\ s + TreeWidth(tree) <= n /\ IsSequence(tree) /\ s \in Nat
    BY <2>1, <2>4, <2>5
  <2>7. TreeAt(e, y1, tree)
    BY <2>3, <2>6, TreeMoved
  <2> QED
    BY <2>2, <2>5, <2>7
<1>5. TreeAt(e, y + 2 + g, bb.local)
  <2>1. PICK s \in Nat : s = r + 2 + g /\ s + TreeWidth(bb.local) <= n
    BY <1>1, <1>2
  <2>2. PICK x1, y1 : x1 = x + 2 + g /\ y1 = y + 2 + g
    OBVIOUS
  <2>3. x1 = p + s /\ y1 = q + s
    BY <2>1, <2>2
  <2>4. TreeAt(d, x1, bb.local)
    BY <1>1, <2>2 DEF BbAt, InoWidth
  <2>5. PICK tree : tree = bb.local
    OBVIOUS
  <2>6. TreeAt(d, x1, tree) /\ s + TreeWidth(tree) <= n /\ IsSequence(tree) /\ s \in Nat
    BY <2>1, <2>4, <2>5
  <2>7. TreeAt(e, y1, tree)
    BY <2>3, <2>6, TreeMoved
  <2> QED
    BY <2>2, <2>5, <2>7
<1> QED
  BY <1>1, <1>3, <1>4, <1>5 DEF BbAt, InoWidth

-----------------------------------------------------------------------------
(* The items of a tree and of a bb, and where they go. *)

LEMMA TreeItemsAre ==
    ASSUME NEW tree, IsSequence(tree)
    PROVE  /\ IsSequence(TreeItems(tree)) /\ Len(TreeItems(tree)) = Len(tree) + 1
           /\ TreeItems(tree)[1] = <<Len(tree), 1>>
           /\ \A i \in 1 .. Len(tree) : TreeItems(tree)[1 + i] = <<tree[i], 3>>
<1>1. PICK n \in Nat : n = Len(tree)
  BY SequenceIs
<1>2. PICK s : s = <<<<n, 1>>>>
  OBVIOUS
<1>3. IsSequence(s) /\ Len(s) = 1 /\ s[1] = <<n, 1>>
  <2>1. s \in Seq({<<n, 1>>})
    BY <1>2
  <2> QED
    BY <1>2, <2>1, SequenceIn
<1>4. PICK t : t = [i \in 1 .. n |-> <<tree[i], 3>>]
  OBVIOUS
<1>5. t = [i \in 1 .. n |-> t[i]]
  BY <1>4
<1>6. IsSequence(t) /\ Len(t) = n
  BY <1>5, SequenceOf
<1>7. TreeItems(tree) = s \o t
  BY <1>1, <1>2, <1>4 DEF TreeItems, CountWidth, NodeWidth
<1>8. /\ IsSequence(s \o t) /\ Len(s \o t) = Len(s) + Len(t)
      /\ \A i \in 1 .. Len(s) : (s \o t)[i] = s[i]
      /\ \A i \in 1 .. Len(t) : (s \o t)[Len(s) + i] = t[i]
  <2>1. IsJoined(s \o t, s, t)
    BY <1>3, <1>6, JoinedIs
  <2> QED
    BY <2>1 DEF IsJoined
<1>9. 1 \in 1 .. 1 /\ Len(s) + Len(t) = n + 1
  BY <1>3, <1>6
<1>10. \A i \in 1 .. n : (s \o t)[1 + i] = <<tree[i], 3>>
  BY <1>3, <1>4, <1>6, <1>8
<1>11. (s \o t)[1] = <<n, 1>>
  BY <1>3, <1>8, <1>9
<1> QED
  BY <1>1, <1>7, <1>8, <1>9, <1>10, <1>11

\* A tree is serialised to its cells and nothing else.
LEMMA SerialisedIs ==
    ASSUME NEW tree, SmallTree(tree)
    PROVE  /\ IsSequence(Serialised(tree)) /\ Len(Serialised(tree)) = TreeWidth(tree)
           /\ TreeAt(Serialised(tree), 0, tree)
<1>1. PICK n \in Nat : n = Len(tree)
  BY SequenceIs DEF SmallTree
<1>2. PICK top \in Nat : top = TreeWidth(tree) /\ top = 1 + 3 * n
  BY <1>1, TreeWidthIs DEF SmallTree
<1>3. 3 * top < WordMod
  BY <1>2 DEF SmallTree
<1>4. PICK items : items = TreeItems(tree)
  OBVIOUS
<1>5. /\ DOMAIN items = 1 .. n + 1 /\ items[1] = <<n, 1>>
      /\ \A i \in 1 .. n : items[1 + i] = <<tree[i], 3>>
  BY <1>1, <1>4, TreeItemsAre, SequenceIs DEF SmallTree
<1>6. PICK a : a = EmptyArchive
  OBVIOUS
<1>7. a = [data |-> <<>>, pos |-> 0] /\ a.data = <<>> /\ a.pos = 0
  BY <1>6 DEF EmptyArchive, Arch
<1>8. IsSequence(a.data) /\ Len(a.data) = 0
  <2>1. a.data \in Seq({})
    BY <1>7
  <2> QED
    BY <1>7, <2>1, SequenceIn
<1>9. Roomy(a, top)
  BY <1>7, <1>8 DEF Roomy
<1>10. PICK at : at = [k \in 0 .. n + 1 |-> IF k = 0 THEN 0 ELSE 1 + 3 * (k - 1)]
  OBVIOUS
<1>11. at[0] = 0 /\ at[n + 1] = top /\ \A k \in 1 .. n + 1 : at[k] = 1 + 3 * (k - 1)
  BY <1>2, <1>10
<1>12. Places(at, items, n + 1, 0, top)
  <2>1. ASSUME NEW k \in 0 .. n + 1 PROVE at[k] \in Nat /\ at[k] <= top
    BY <1>2, <1>10
  <2>2. ASSUME NEW k \in 1 .. n + 1
        PROVE  /\ items[k] = <<items[k][1], items[k][2]>>
               /\ items[k][2] \in Nat /\ at[k] = at[k - 1] + items[k][2]
    <3>1. CASE k = 1
      <4>1. items[1] = <<items[1][1], items[1][2]>> /\ items[1][2] = 1
        BY <1>5
      <4>2. at[1] = 1 /\ at[1 - 1] = 0
        BY <1>11
      <4> QED
        BY <3>1, <4>1, <4>2
    <3>2. CASE k # 1
      <4>1. PICK i \in 1 .. n : k = 1 + i /\ i = k - 1
        BY <3>2
      <4>2. items[k] = <<tree[i], 3>>
        BY <1>5, <4>1
      <4>3. items[k] = <<items[k][1], items[k][2]>> /\ items[k][2] = 3
        BY <4>2
      <4>4. at[k] = 1 + 3 * (k - 1) /\ at[i] = 1 + 3 * (i - 1)
        BY <1>11, <4>1
      <4> QED
        BY <4>1, <4>3, <4>4
    <3> QED
      BY <3>1, <3>2
  <2> QED
    BY <1>11, <2>1, <2>2 DEF Places
<1>13. PICK d : /\ d = Out(a, items).data /\ IsSequence(d) /\ Len(d) = at[n + 1]
                /\ \A k \in 1 .. n + 1 : CellsAt(d, at[k - 1], items[k][1], items[k][2])
  <2>1. PICK m \in Nat : m = n + 1
    OBVIOUS
  <2>2. Places(at, items, m, a.pos, top) /\ DOMAIN items = 1 .. m /\ a.pos = Len(a.data)
    BY <1>5, <1>7, <1>8, <1>12, <2>1
  <2>3. OutHolds(Out(a, items).data, a, items, m, at)
    BY <1>3, <1>9, <2>2, OutIs
  <2> QED
    BY <2>1, <2>3 DEF OutHolds
<1>14. d = Serialised(tree)
  BY <1>4, <1>6, <1>13 DEF Serialised
<1>15. CellsAt(d, 0, n, 1)
  <2>1. CellsAt(d, at[1 - 1], items[1][1], items[1][2])
    BY <1>13
  <2> QED
    BY <1>5, <1>11, <2>1
<1>16. ASSUME NEW i \in 1 .. n PROVE CellsAt(d, 0 + 1 + 3 * (i - 1), tree[i], 3)
  <2>1. 1 + i \in 1 .. n + 1 /\ (1 + i) - 1 = i /\ i \in 1 .. n + 1
    OBVIOUS
  <2>2. CellsAt(d, at[i], items[1 + i][1], items[1 + i][2])
    BY <1>13, <2>1
  <2>3. items[1 + i][1] = tree[i] /\ items[1 + i][2] = 3
    <3>1. items[1 + i] = <<tree[i], 3>>
      BY <1>5, Zenon
    <3> QED
      BY <3>1
  <2>4. at[i] = 0 + 1 + 3 * (i - 1)
    BY <1>11, <2>1
  <2> QED
    BY <2>2, <2>3, <2>4
<1>17. TreeAt(d, 0, tree)
  BY <1>1, <1>2, <1>11, <1>13, <1>15, <1>16 DEF TreeAt, CountWidth, NodeWidth
<1> QED
  BY <1>2, <1>11, <1>13, <1>14, <1>17

TreesHave(bb, g, l) == g = Len(bb.global) /\ l = Len(bb.local)

BbListed(items, bb, g, l) ==
    /\ DOMAIN items = 1 .. g + l + 3
    /\ items[1] = <<bb.ino, 2>> /\ items[2] = <<g, 1>>
    /\ \A i \in 1 .. g : items[2 + i] = <<bb.global[i], 3>>
    /\ items[g + 3] = <<l, 1>>
    /\ \A i \in 1 .. l : items[g + 3 + i] = <<bb.local[i], 3>>

LEMMA BbItemsAre ==
    ASSUME NEW bb, IsSequence(bb.global), IsSequence(bb.local),
           NEW g \in Nat, NEW l \in Nat, TreesHave(bb, g, l)
    PROVE  BbListed(BbItems(bb), bb, g, l)
<1>1. PICK s : s = <<<<bb.ino, 2>>>>
  OBVIOUS
<1>2. IsSequence(s) /\ Len(s) = 1 /\ s[1] = <<bb.ino, 2>>
  <2>1. s \in Seq({<<bb.ino, 2>>})
    BY <1>1
  <2> QED
    BY <1>1, <2>1, SequenceIn
<1>3. PICK t : t = TreeItems(bb.global)
  OBVIOUS
<1>4. /\ IsSequence(t) /\ Len(t) = g + 1 /\ t[1] = <<g, 1>>
      /\ \A i \in 1 .. g : t[1 + i] = <<bb.global[i], 3>>
  <2>1. g = Len(bb.global)
    BY DEF TreesHave
  <2> QED
    BY <1>3, <2>1, TreeItemsAre
<1>5. PICK u : u = TreeItems(bb.local)
  OBVIOUS
<1>6. /\ IsSequence(u) /\ Len(u) = l + 1 /\ u[1] = <<l, 1>>
      /\ \A i \in 1 .. l : u[1 + i] = <<bb.local[i], 3>>
  <2>1. l = Len(bb.local)
    BY DEF TreesHave
  <2> QED
    BY <1>5, <2>1, TreeItemsAre
<1>7. PICK x : x = s \o t
  OBVIOUS
<1>8. /\ IsSequence(x) /\ Len(x) = Len(s) + Len(t)
      /\ \A i \in 1 .. Len(s) : x[i] = s[i]
      /\ \A i \in 1 .. Len(t) : x[Len(s) + i] = t[i]
  <2>1. IsJoined(x, s, t)
    BY <1>2, <1>4, <1>7, JoinedIs
  <2> QED
    BY <2>1 DEF IsJoined
<1>9. Len(x) = g + 2 /\ x[1] = <<bb.ino, 2>> /\ x[2] = <<g, 1>>
  <2>1. 1 \in 1 .. 1 /\ 1 \in 1 .. g + 1 /\ 1 + 1 = 2
    OBVIOUS
  <2>2. x[1] = s[1]
    BY <1>2, <1>8, <2>1
  <2>3. x[1 + 1] = t[1]
    BY <1>2, <1>4, <1>8, <2>1
  <2>4. Len(x) = g + 2
    BY <1>2, <1>4, <1>8
  <2> QED
    BY <1>2, <1>4, <2>1, <2>2, <2>3, <2>4
<1>10. ASSUME NEW i \in 1 .. g PROVE x[2 + i] = <<bb.global[i], 3>>
  <2>1. 1 + i \in 1 .. g + 1 /\ 1 + (1 + i) = 2 + i
    OBVIOUS
  <2>2. x[1 + (1 + i)] = t[1 + i]
    BY <1>2, <1>4, <1>8, <2>1
  <2> QED
    BY <1>4, <2>1, <2>2
<1>11. PICK y : y = x \o u
  OBVIOUS
<1>12. /\ IsSequence(y) /\ Len(y) = Len(x) + Len(u)
       /\ \A i \in 1 .. Len(x) : y[i] = x[i]
       /\ \A i \in 1 .. Len(u) : y[Len(x) + i] = u[i]
  <2>1. IsJoined(y, x, u)
    BY <1>6, <1>8, <1>11, JoinedIs
  <2> QED
    BY <2>1 DEF IsJoined
<1>13. y = BbItems(bb)
  BY <1>1, <1>3, <1>5, <1>7, <1>11 DEF BbItems, InoWidth
<1>14. DOMAIN y = 1 .. g + l + 3
  <2>1. Len(y) = g + l + 3
    BY <1>6, <1>9, <1>12
  <2>2. DOMAIN y = 1 .. Len(y)
    BY <1>12, SequenceIs
  <2> QED
    BY <2>1, <2>2
<1>15. y[1] = <<bb.ino, 2>> /\ y[2] = <<g, 1>>
  <2>1. 1 \in 1 .. g + 2 /\ 2 \in 1 .. g + 2
    OBVIOUS
  <2> QED
    BY <1>9, <1>12, <2>1
<1>16. ASSUME NEW i \in 1 .. g PROVE y[2 + i] = <<bb.global[i], 3>>
  <2>1. 2 + i \in 1 .. g + 2
    OBVIOUS
  <2> QED
    BY <1>9, <1>10, <1>12, <2>1
<1>17. y[g + 3] = <<l, 1>>
  <2>1. 1 \in 1 .. l + 1 /\ (g + 2) + 1 = g + 3
    OBVIOUS
  <2>2. y[(g + 2) + 1] = u[1]
    BY <1>6, <1>9, <1>12, <2>1
  <2> QED
    BY <1>6, <2>1, <2>2
<1>18. ASSUME NEW i \in 1 .. l PROVE y[g + 3 + i] = <<bb.local[i], 3>>
  <2>1. 1 + i \in 1 .. l + 1
    OBVIOUS
  <2>3. (g + 2) + (1 + i) = g + 3 + i
    OBVIOUS
  <2>2. y[(g + 2) + (1 + i)] = u[1 + i]
    BY <1>6, <1>9, <1>12, <2>1
  <2> QED
    BY <1>6, <2>1, <2>2, <2>3
<1> QED
  BY <1>13, <1>14, <1>15, <1>16, <1>17, <1>18 DEF BbListed

\* A bb is serialised behind the room for its size.
LEMMA BbOut ==
    ASSUME NEW bb, SmallBb(bb), NEW a, a = Arch(Resized(<<>>, HeaderWidth), HeaderWidth)
    PROVE  \E d : /\ d = Out(a, BbItems(bb)).data /\ IsSequence(d)
                  /\ Len(d) = HeaderWidth + BbWidth(bb)
                  /\ BbAt(d, HeaderWidth, bb)
<1>1. IsSequence(bb.global) /\ IsSequence(bb.local)
  BY DEF SmallBb
<1>2. PICK g \in Nat, l \in Nat : g = Len(bb.global) /\ l = Len(bb.local)
  BY <1>1, SequenceIs
<1>3. TreeWidth(bb.global) = 1 + 3 * g /\ TreeWidth(bb.local) = 1 + 3 * l
  BY <1>1, <1>2, TreeWidthIs
<1>4. PICK top \in Nat : top = 6 + 3 * g + 3 * l
  OBVIOUS
<1>5. top = HeaderWidth + BbWidth(bb)
  BY <1>1, <1>3, <1>4, BbWidthIs DEF HeaderWidth
<1>6. 3 * top < WordMod
  BY <1>5 DEF SmallBb
<1>7. PICK items : items = BbItems(bb)
  OBVIOUS
<1>8. PICK n \in Nat : n = g + l + 3
  OBVIOUS
<1>9. /\ DOMAIN items = 1 .. n
      /\ items[1] = <<bb.ino, 2>> /\ items[2] = <<g, 1>>
      /\ \A i \in 1 .. g : items[2 + i] = <<bb.global[i], 3>>
      /\ items[g + 3] = <<l, 1>>
      /\ \A i \in 1 .. l : items[g + 3 + i] = <<bb.local[i], 3>>
  <2>1. BbListed(items, bb, g, l)
    BY <1>1, <1>2, <1>7, BbItemsAre DEF TreesHave
  <2> QED
    BY <1>8, <2>1 DEF BbListed
<1>10. a = [data |-> Resized(<<>>, 2), pos |-> 2]
  BY DEF Arch, HeaderWidth
<1>11. a = [data |-> a.data, pos |-> a.pos] /\ a.data = Resized(<<>>, 2) /\ a.pos = 2
  BY <1>10
<1>12. IsSequence(a.data) /\ Len(a.data) = 2
  <2>1. IsSequence(Resized(<<>>, 2)) /\ Len(Resized(<<>>, 2)) = 2
    BY BufferResized
  <2> QED
    BY <1>11, <2>1
<1>13. Roomy(a, top)
  <2>1. 2 <= 3 * top
    BY <1>4
  <2>2. PICK len, at0 : len = Len(a.data) /\ at0 = a.pos
    OBVIOUS
  <2>3. len = 2 /\ at0 = 2
    BY <1>11, <1>12, <2>2
  <2>4. len <= 3 * top /\ at0 <= len /\ at0 \in Nat
    BY <2>1, <2>3
  <2> QED
    BY <1>11, <1>12, <2>2, <2>4, Zenon DEF Roomy
<1>14. PICK at : at = [k \in 0 .. n |-> IF k = 0 THEN 2
                                       ELSE IF k = 1 THEN 4
                                       ELSE IF k <= g + 2 THEN 5 + 3 * (k - 2)
                                       ELSE 6 + 3 * g + 3 * (k - g - 3)]
  OBVIOUS
<1>15. /\ at[0] = 2 /\ at[1] = 4 /\ at[n] = top
       /\ \A k \in 2 .. g + 2 : at[k] = 5 + 3 * (k - 2)
       /\ \A k \in g + 3 .. n : at[k] = 6 + 3 * g + 3 * (k - g - 3)
  <2>1. at[0] = 2 /\ at[1] = 4
    BY <1>8, <1>14
  <2>2. \A k \in g + 3 .. n : k \in 0 .. n /\ k # 0 /\ k # 1 /\ ~ k <= g + 2
    BY <1>8
  <2>3. \A k \in g + 3 .. n : at[k] = 6 + 3 * g + 3 * (k - g - 3)
    BY <1>14, <2>2
  <2>4. \A k \in 2 .. g + 2 : k \in 0 .. n /\ k # 0 /\ k # 1 /\ k <= g + 2
    BY <1>8
  <2>5. \A k \in 2 .. g + 2 : at[k] = 5 + 3 * (k - 2)
    BY <1>14, <2>4
  <2>6. n \in g + 3 .. n /\ 6 + 3 * g + 3 * (n - g - 3) = top
    BY <1>4, <1>8
  <2>7. at[n] = top
    BY <2>3, <2>6
  <2> QED
    BY <2>1, <2>3, <2>5, <2>7
<1>16. ASSUME NEW k \in 0 .. n
       PROVE  k = 0 \/ k = 1 \/ k \in 2 .. g + 2 \/ k \in g + 3 .. n
  BY <1>8
<1>17. ASSUME NEW k \in 0 .. n PROVE at[k] \in Nat /\ at[k] <= top
  <2>1. CASE k = 0 \/ k = 1
    BY <1>4, <1>15, <2>1
  <2>2. CASE k \in 2 .. g + 2
    <3>1. at[k] = 5 + 3 * (k - 2)
      BY <1>15, <2>2
    <3> QED
      BY <1>4, <2>2, <3>1
  <2>3. CASE k \in g + 3 .. n
    <3>1. at[k] = 6 + 3 * g + 3 * (k - g - 3)
      BY <1>15, <2>3
    <3> QED
      BY <1>4, <1>8, <2>3, <3>1
  <2> QED
    BY <1>16, <2>1, <2>2, <2>3
<1>18. ASSUME NEW k \in 1 .. n
       PROVE  /\ items[k] = <<items[k][1], items[k][2]>>
              /\ items[k][2] \in Nat /\ at[k] = at[k - 1] + items[k][2]
  <2>1. CASE k = 1
    <3>1. items[1] = <<items[1][1], items[1][2]>> /\ items[1][2] = 2 /\ at[1 - 1] = 2
      BY <1>9, <1>15
    <3> QED
      BY <1>15, <2>1, <3>1
  <2>2. CASE k = 2
    <3>1. items[2] = <<items[2][1], items[2][2]>> /\ items[2][2] = 1
      BY <1>9
    <3>2. at[2] = 5 /\ at[2 - 1] = 4
      <4>1. 2 \in 2 .. g + 2
        OBVIOUS
      <4> QED
        BY <1>15, <4>1
    <3> QED
      BY <2>2, <3>1, <3>2
  <2>3. CASE k \in 3 .. g + 2
    <3>1. PICK i \in 1 .. g : k = 2 + i
      BY <2>3
    <3>2. items[k] = <<bb.global[i], 3>>
      BY <1>9, <3>1
    <3>3. items[k] = <<items[k][1], items[k][2]>> /\ items[k][2] = 3
      BY <3>2
    <3>4. k \in 2 .. g + 2 /\ k - 1 \in 2 .. g + 2
      BY <2>3
    <3>5. at[k] = 5 + 3 * (k - 2) /\ at[k - 1] = 5 + 3 * ((k - 1) - 2)
      BY <1>15, <3>4
    <3> QED
      BY <3>3, <3>5
  <2>4. CASE k = g + 3
    <3>1. items[k] = <<items[k][1], items[k][2]>> /\ items[k][2] = 1
      BY <1>9, <2>4
    <3>2. k \in g + 3 .. n /\ k - 1 \in 2 .. g + 2 /\ k - 1 = g + 2
      BY <1>8, <2>4
    <3>3. at[k] = 6 + 3 * g + 3 * (k - g - 3) /\ at[k - 1] = 5 + 3 * ((k - 1) - 2)
      BY <1>15, <3>2
    <3> QED
      BY <2>4, <3>1, <3>3
  <2>5. CASE k \in g + 4 .. n
    <3>1. PICK i \in 1 .. l : k = g + 3 + i
      <4>1. k - g - 3 \in 1 .. l /\ k = g + 3 + (k - g - 3)
        BY <1>8, <2>5
      <4> QED
        BY <4>1
    <3>2. items[k] = <<bb.local[i], 3>>
      BY <1>9, <3>1
    <3>3. items[k] = <<items[k][1], items[k][2]>> /\ items[k][2] = 3
      BY <3>2
    <3>4. k \in g + 3 .. n /\ k - 1 \in g + 3 .. n
      BY <2>5
    <3>5. at[k] = 6 + 3 * g + 3 * (k - g - 3) /\ at[k - 1] = 6 + 3 * g + 3 * ((k - 1) - g - 3)
      BY <1>15, <3>4
    <3> QED
      BY <3>3, <3>5
  <2>6. k = 1 \/ k = 2 \/ k \in 3 .. g + 2 \/ k = g + 3 \/ k \in g + 4 .. n
    BY <1>8
  <2> QED
    BY <2>1, <2>2, <2>3, <2>4, <2>5, <2>6
<1>19. Places(at, items, n, 2, top)
  BY <1>15, <1>17, <1>18 DEF Places
<1>20. PICK d : /\ d = Out(a, items).data /\ IsSequence(d) /\ Len(d) = at[n]
                /\ \A k \in 1 .. n : CellsAt(d, at[k - 1], items[k][1], items[k][2])
  <2>1. Places(at, items, n, a.pos, top) /\ a.pos = Len(a.data) /\ DOMAIN items = 1 .. n
    BY <1>9, <1>11, <1>12, <1>19
  <2>2. OutHolds(Out(a, items).data, a, items, n, at)
    BY <1>6, <1>13, <2>1, OutIs
  <2> QED
    BY <2>2 DEF OutHolds
<1>21. Len(d) = top
  BY <1>15, <1>20
<1>22. CellsAt(d, 2, bb.ino, 2)
  <2>1. CellsAt(d, at[1 - 1], items[1][1], items[1][2])
    BY <1>8, <1>20
  <2> QED
    BY <1>9, <1>15, <2>1
<1>23. TreeAt(d, 4, bb.global)
  <2>1. CellsAt(d, 4, g, 1)
    <3>1. 2 \in 1 .. n /\ 2 - 1 = 1
      BY <1>8
    <3>2. CellsAt(d, at[1], items[2][1], items[2][2])
      BY <1>20, <3>1
    <3> QED
      BY <1>9, <1>15, <3>2
  <2>2. ASSUME NEW i \in 1 .. g PROVE CellsAt(d, 4 + 1 + 3 * (i - 1), bb.global[i], 3)
    <3>1. 2 + i \in 1 .. n /\ (2 + i) - 1 = 1 + i /\ 1 + i \in 2 .. g + 2
      BY <1>8
    <3>2. CellsAt(d, at[1 + i], items[2 + i][1], items[2 + i][2])
      BY <1>20, <3>1
    <3>3. at[1 + i] = 4 + 1 + 3 * (i - 1)
      <4>1. at[1 + i] = 5 + 3 * ((1 + i) - 2)
        BY <1>15, <3>1
      <4> QED
        BY <4>1
    <3>4. items[2 + i][1] = bb.global[i] /\ items[2 + i][2] = 3
      <4>1. items[2 + i] = <<bb.global[i], 3>>
        BY <1>9
      <4> QED
        BY <4>1
    <3> QED
      BY <3>2, <3>3, <3>4
  <2>3. 4 + TreeWidth(bb.global) <= Len(d)
    BY <1>3, <1>4, <1>21
  <2> QED
    BY <1>2, <2>1, <2>2, <2>3 DEF TreeAt, CountWidth, NodeWidth
<1>24. TreeAt(d, 4 + TreeWidth(bb.global), bb.local)
  <2>1. PICK p \in Nat : p = 4 + TreeWidth(bb.global) /\ p = 5 + 3 * g
    BY <1>3
  <2>2. CellsAt(d, p, l, 1)
    <3>1. g + 3 \in 1 .. n /\ (g + 3) - 1 = g + 2 /\ g + 2 \in 2 .. g + 2
      BY <1>8
    <3>2. CellsAt(d, at[g + 2], items[g + 3][1], items[g + 3][2])
      BY <1>20, <3>1
    <3>3. at[g + 2] = p
      <4>1. at[g + 2] = 5 + 3 * ((g + 2) - 2)
        BY <1>15, <3>1
      <4> QED
        BY <2>1, <4>1
    <3>4. items[g + 3][1] = l /\ items[g + 3][2] = 1
      BY <1>9
    <3> QED
      BY <3>2, <3>3, <3>4
  <2>3. ASSUME NEW i \in 1 .. l PROVE CellsAt(d, p + 1 + 3 * (i - 1), bb.local[i], 3)
    <3>1. g + 3 + i \in 1 .. n /\ (g + 3 + i) - 1 = g + 2 + i /\ g + 2 + i \in g + 3 .. n
      BY <1>8
    <3>2. CellsAt(d, at[g + 2 + i], items[g + 3 + i][1], items[g + 3 + i][2])
      BY <1>20, <3>1
    <3>3. at[g + 2 + i] = p + 1 + 3 * (i - 1)
      <4>1. at[g + 2 + i] = 6 + 3 * g + 3 * ((g + 2 + i) - g - 3)
        BY <1>15, <3>1
      <4> QED
        BY <2>1, <4>1
    <3>4. items[g + 3 + i][1] = bb.local[i] /\ items[g + 3 + i][2] = 3
      <4>1. items[g + 3 + i] = <<bb.local[i], 3>>
        BY <1>9
      <4> QED
        BY <4>1
    <3> QED
      BY <3>2, <3>3, <3>4
  <2>4. p + TreeWidth(bb.local) <= Len(d)
    BY <1>3, <1>4, <1>21, <2>1
  <2>5. TreeAt(d, p, bb.local)
    BY <1>2, <2>2, <2>3, <2>4 DEF TreeAt, CountWidth, NodeWidth
  <2> QED
    BY <2>1, <2>5
<1>25. BbAt(d, 2, bb)
  <2>1. 2 + 2 = 4
    OBVIOUS
  <2> QED
    BY <1>22, <1>23, <1>24, <2>1 DEF BbAt, InoWidth
<1> QED
  BY <1>5, <1>7, <1>20, <1>21, <1>25 DEF HeaderWidth

-----------------------------------------------------------------------------
(* Input: what stands in the cells is what is read. *)

\* What may be read from place p on.
Readable(d, p) == IsSequence(d) /\ p \in Nat /\ p <= Len(d) /\ Len(d) < WordMod

LEMMA ValueIs ==
    ASSUME NEW d, IsSequence(d), NEW p \in Nat, NEW w \in Nat, w >= 1, NEW v, CellsAt(d, p, v, w)
    PROVE  ValueAt(d, p, w) = v
<1>1. PICK q \in Nat : q = p + w
  OBVIOUS
<1>2. p <= q /\ q <= Len(d) /\ q - p = w
  BY <1>1 DEF CellsAt
<1>3. PICK s : s = SubSeq(d, p + 1, q)
  OBVIOUS
<1>4. IsSequence(s) /\ Len(s) = w
  BY <1>2, <1>3, CutIs
<1>5. \A i \in 1 .. w : s[i] = d[p + i]
  BY <1>2, <1>3, CutIs
<1>6. \A i \in 1 .. w : s[i] = <<v, i>>
  BY <1>5 DEF CellsAt
<1>7. s = [i \in 1 .. w |-> s[i]]
  BY <1>4, SequenceIs
<1>8. s = Cells(v, w)
  BY <1>6, <1>7 DEF Cells
<1>9. d[p + 1] = <<v, 1>>
  BY DEF CellsAt
<1>10. d[p + 1][1] = v
  BY <1>9
<1> QED
  BY <1>1, <1>3, <1>8, <1>10 DEF ValueAt

\* What reading a value gives: the value, and the archive behind it.
Got(got, v, d, p) == got = [ok |-> TRUE, value |-> v, rest |-> Arch(d, p)]

LEMMA GetIs ==
    ASSUME NEW d, NEW p, Readable(d, p), NEW w \in Nat, w >= 1, NEW v, CellsAt(d, p, v, w),
           NEW q, q = p + w
    PROVE  Got(Get(Arch(d, p), w), v, d, q) /\ Readable(d, q)
<1>1. PICK a : a = Arch(d, p)
  OBVIOUS
<1>2. a = [data |-> d, pos |-> p] /\ a.data = d /\ a.pos = p
  BY <1>1 DEF Arch
<1>3. PICK len \in Nat : len = Len(d)
  BY SequenceIs DEF Readable
<1>4. p \in Nat /\ p + w <= len /\ len < WordMod /\ IsSequence(d)
  BY <1>3 DEF Readable, CellsAt
<1>5. Remaining(a) = len - p
  <2>1. p <= len
    BY <1>4
  <2> QED
    BY <1>2, <1>3, <1>4, <2>1, RemainingIs
<1>6. ~ w > Remaining(a)
  BY <1>4, <1>5
<1>7. ValueAt(d, p, w) = v
  BY <1>4, ValueIs
<1>8. [a EXCEPT !.pos = @ + w] = [data |-> d, pos |-> q]
  BY <1>2
<1>9. Get(a, w) = [ok |-> TRUE, value |-> v, rest |-> [data |-> d, pos |-> q]]
  BY <1>2, <1>6, <1>7, <1>8, Zenon DEF Get
<1>10. q \in Nat /\ q <= len
  BY <1>4
<1> QED
  BY <1>1, <1>3, <1>4, <1>9, <1>10 DEF Got, Arch, Readable

\* A tree is read as it stands there.
NodesRead(run, tree, d, p, k) ==
    /\ run[k].ok = TRUE
    /\ IsSequence(run[k].value) /\ Len(run[k].value) = k
    /\ \A i \in 1 .. k : run[k].value[i] = tree[i]
    /\ Readable(d, p + 1 + 3 * k)
    /\ Got(run[k], run[k].value, d, p + 1 + 3 * k)

LEMMA NodeNext ==
    ASSUME NEW tree, IsSequence(tree), NEW d, NEW p \in Nat, TreeAt(d, p, tree), NEW run, NEW items,
           NEW k \in 1 .. Len(tree), NodesRead(run, tree, d, p, k - 1), run[k] = GetNode(run[k - 1], items[k])
    PROVE  NodesRead(run, tree, d, p, k)
<1>1. PICK got : got = run[k - 1]
  OBVIOUS
<1>2. PICK s : s = got.value
  OBVIOUS
<1>3. PICK q : q = p + 1 + 3 * (k - 1)
  OBVIOUS
<1>4. /\ IsSequence(s) /\ Len(s) = k - 1 /\ \A i \in 1 .. k - 1 : s[i] = tree[i]
      /\ Readable(d, q) /\ got = [ok |-> TRUE, value |-> s, rest |-> Arch(d, q)]
  BY <1>1, <1>2, <1>3 DEF NodesRead, Got
<1>5. CellsAt(d, q, tree[k], 3)
  BY <1>3 DEF TreeAt, CountWidth, NodeWidth
<1>6. PICK r : r = p + 1 + 3 * k
  OBVIOUS
<1>7. PICK node : node = Get(Arch(d, q), 3)
  OBVIOUS
<1>8. Got(node, tree[k], d, r) /\ Readable(d, r)
  <2>1. k \in Nat
    BY SequenceIs
  <2>2. r = q + 3
    BY <1>3, <1>6, <2>1
  <2>3. PICK w \in Nat : w = 3 /\ w >= 1
    OBVIOUS
  <2>4. r = q + w /\ CellsAt(d, q, tree[k], w)
    BY <1>5, <2>2, <2>3
  <2>5. Got(Get(Arch(d, q), w), tree[k], d, r) /\ Readable(d, r)
    BY <1>4, <2>3, <2>4, GetIs
  <2> QED
    BY <1>7, <2>3, <2>5
<1>9. PICK t : t = Append(s, tree[k])
  OBVIOUS
<1>10. run[k] = [ok |-> TRUE, value |-> t, rest |-> Arch(d, r)]
  <2>1. got.ok = TRUE /\ got.value = s /\ got.rest = Arch(d, q)
    BY <1>4
  <2>2. node.ok = TRUE /\ node.value = tree[k] /\ node.rest = Arch(d, r)
    BY <1>8 DEF Got
  <2> QED
    BY <1>1, <1>7, <1>9, <2>1, <2>2 DEF GetNode, NodeWidth
<1>11. run[k].ok = TRUE /\ run[k].value = t
  BY <1>10
<1>12. IsSequence(t) /\ Len(t) = k
  <2>1. Len(t) = (k - 1) + 1 /\ k \in Nat
    BY <1>4, <1>9, AppendedIs, SequenceIs
  <2> QED
    BY <1>4, <1>9, <2>1, AppendedIs
<1>13. ASSUME NEW i \in 1 .. k PROVE t[i] = tree[i]
  <2>1. k \in Nat /\ (k - 1) + 1 = k
    BY SequenceIs
  <2>2. CASE i = k
    <3>1. t[(k - 1) + 1] = tree[k]
      BY <1>4, <1>9, AppendedIs
    <3> QED
      BY <2>1, <2>2, <3>1
  <2>3. CASE i # k
    <3>1. i \in 1 .. k - 1
      BY <2>1, <2>3
    <3>2. t[i] = s[i]
      BY <1>4, <1>9, <3>1, AppendedIs
    <3> QED
      BY <1>4, <3>1, <3>2
  <2> QED
    BY <2>2, <2>3
<1>14. Got(run[k], t, d, r)
  BY <1>10 DEF Got
<1> QED
  BY <1>6, <1>8, <1>11, <1>12, <1>13, <1>14 DEF NodesRead

LEMMA GetTreeIs ==
    ASSUME NEW d, NEW p, Readable(d, p), NEW tree, IsSequence(tree), TreeAt(d, p, tree),
           NEW q, q = p + TreeWidth(tree)
    PROVE  Got(GetTree(Arch(d, p)), tree, d, q) /\ Readable(d, q)
<1>1. PICK n \in Nat : n = Len(tree)
  BY SequenceIs
<1>2. p \in Nat
  BY DEF Readable
<1>3. PICK count : count = Get(Arch(d, p), 1)
  OBVIOUS
<1>4. Got(count, n, d, p + 1) /\ Readable(d, p + 1)
  <2>1. PICK w \in Nat : w = 1 /\ w >= 1
    OBVIOUS
  <2>2. PICK r : r = p + w
    OBVIOUS
  <2>3. CellsAt(d, p, n, w)
    BY <1>1, <2>1 DEF TreeAt, CountWidth
  <2>4. Got(Get(Arch(d, p), w), n, d, r) /\ Readable(d, r)
    BY <2>1, <2>2, <2>3, GetIs
  <2> QED
    BY <1>3, <2>1, <2>2, <2>4
<1>5. count.ok = TRUE /\ count.value = n /\ count.rest = Arch(d, p + 1)
  BY <1>4 DEF Got
<1>6. PICK a : a = [ok |-> TRUE, value |-> <<>>, rest |-> Arch(d, p + 1)]
  OBVIOUS
<1>7. PICK items : items = [i \in 1 .. n |-> i]
  OBVIOUS
<1>8. DOMAIN items = 1 .. n
  BY <1>7
<1>9. GetTree(Arch(d, p)) = FoldLeft(GetNode, a, items)
  BY <1>3, <1>5, <1>6, <1>7 DEF GetTree, GetNodes, CountWidth
<1>10. PICK run : Running("node", run, a, items, n)
  BY RunExists
<1>11. FoldLeft(GetNode, a, items) = run[n]
  BY <1>8, <1>10, NodeFold
<1>12. run[0] = a
  BY <1>10 DEF Running
<1>13. ASSUME NEW k \in 1 .. n PROVE run[k] = GetNode(run[k - 1], items[k])
  BY <1>10 DEF Running, FoldStep
<1>14. NodesRead(run, tree, d, p, 0)
  <2>1. run[0].ok = TRUE /\ run[0].value = <<>>
    BY <1>6, <1>12
  <2>2. IsSequence(<<>>) /\ Len(<<>>) = 0
    <3>1. <<>> \in Seq({})
      OBVIOUS
    <3> QED
      BY <3>1, SequenceIn
  <2>3. 1 .. 0 = {} /\ p + 1 + 3 * 0 = p + 1
    BY <1>2
  <2>4. Got(run[0], <<>>, d, p + 1)
    BY <1>6, <1>12 DEF Got
  <2> QED
    BY <1>4, <2>1, <2>2, <2>3, <2>4 DEF NodesRead
<1>15. NodesRead(run, tree, d, p, n)
  <2> DEFINE Wrong == {k \in 0 .. n : ~ NodesRead(run, tree, d, p, k)}
  <2> SUFFICES ASSUME Wrong # {} PROVE FALSE
    BY <1>1
  <2>1. Wrong \in SUBSET Nat /\ Wrong \subseteq 0 .. n
    OBVIOUS
  <2>2. ASSUME NEW k \in Wrong PROVE ~ NodesRead(run, tree, d, p, k)
    OBVIOUS
  <2>3. ASSUME NEW k \in 0 .. n, k \notin Wrong PROVE NodesRead(run, tree, d, p, k)
    BY <2>3
  <2> HIDE DEF Wrong
  <2>4. PICK k \in Wrong : \A m \in Wrong : k <= m
    BY <2>1, LeastNumber
  <2>5. k \in 1 .. n /\ k - 1 \in 0 .. n /\ ~ k <= k - 1
    <3>1. k # 0 /\ k \in 0 .. n
      BY <1>14, <2>1, <2>2, <2>4
    <3> QED
      BY <3>1
  <2>6. NodesRead(run, tree, d, p, k - 1)
    BY <2>3, <2>4, <2>5
  <2>7. NodesRead(run, tree, d, p, k)
    BY <1>1, <1>2, <1>13, <2>5, <2>6, NodeNext
  <2> QED
    BY <2>2, <2>4, <2>7
<1>16. PICK s : s = run[n].value
  OBVIOUS
<1>17. s = tree
  <2>1. IsSequence(s) /\ Len(s) = n /\ \A i \in 1 .. n : s[i] = tree[i]
    BY <1>15, <1>16 DEF NodesRead
  <2> QED
    BY <1>1, <2>1, SameSequence
<1>18. q = p + 1 + 3 * n
  <2>1. TreeWidth(tree) = 1 + 3 * n
    BY <1>1, TreeWidthIs
  <2> QED
    BY <1>2, <2>1
<1>19. Got(run[n], s, d, q) /\ Readable(d, q)
  BY <1>15, <1>16, <1>18 DEF NodesRead
<1> QED
  BY <1>9, <1>11, <1>17, <1>19

\* And so is a bb.
LEMMA GetBbIs ==
    ASSUME NEW d, NEW p, Readable(d, p), NEW bb, SmallBb(bb), BbAt(d, p, bb)
    PROVE  GetBb(Arch(d, p)).ok = TRUE /\ GetBb(Arch(d, p)).value = bb
<1>1. p \in Nat /\ IsSequence(bb.global) /\ IsSequence(bb.local)
  BY DEF Readable, SmallBb
<1>2. PICK ino : ino = Get(Arch(d, p), 2)
  OBVIOUS
<1>3. PICK p1 : p1 = p + 2
  OBVIOUS
<1>4. Got(ino, bb.ino, d, p1) /\ Readable(d, p1)
  <2>1. PICK w \in Nat : w = 2 /\ w >= 1
    OBVIOUS
  <2>2. CellsAt(d, p, bb.ino, w) /\ p1 = p + w
    BY <1>3, <2>1 DEF BbAt, InoWidth
  <2>3. Got(Get(Arch(d, p), w), bb.ino, d, p1) /\ Readable(d, p1)
    BY <2>1, <2>2, GetIs
  <2> QED
    BY <1>2, <2>1, <2>3
<1>5. ino.ok = TRUE /\ ino.value = bb.ino /\ ino.rest = Arch(d, p1)
  BY <1>4 DEF Got
<1>6. PICK g : g = bb.global
  OBVIOUS
<1>7. PICK p2 : p2 = p1 + TreeWidth(g)
  OBVIOUS
<1>8. TreeAt(d, p1, g)
  BY <1>3, <1>6 DEF BbAt, InoWidth
<1>9. PICK global : global = GetTree(Arch(d, p1))
  OBVIOUS
<1>10. Got(global, g, d, p2) /\ Readable(d, p2)
  BY <1>1, <1>4, <1>6, <1>7, <1>8, <1>9, GetTreeIs
<1>11. global.ok = TRUE /\ global.value = g /\ global.rest = Arch(d, p2)
  BY <1>10 DEF Got
<1>12. PICK l : l = bb.local
  OBVIOUS
<1>13. PICK p3 : p3 = p2 + TreeWidth(l)
  OBVIOUS
<1>14. TreeAt(d, p2, l)
  BY <1>3, <1>6, <1>7, <1>12 DEF BbAt, InoWidth
<1>15. PICK local : local = GetTree(Arch(d, p2))
  OBVIOUS
<1>16. Got(local, l, d, p3)
  BY <1>1, <1>10, <1>12, <1>13, <1>14, <1>15, GetTreeIs
<1>17. local.ok = TRUE /\ local.value = l
  BY <1>16 DEF Got
<1>18. GetBb(Arch(d, p)) = [ok    |-> ino.ok /\ global.ok /\ local.ok,
                            value |-> [ino |-> ino.value, global |-> global.value, local |-> local.value],
                            rest  |-> local.rest]
  BY <1>2, <1>5, <1>9, <1>11, <1>15 DEF GetBb, InoWidth
<1>19. bb = [ino |-> bb.ino, global |-> g, local |-> l]
  BY <1>6, <1>12 DEF SmallBb
<1>20. PICK got : got = GetBb(Arch(d, p))
  OBVIOUS
<1>21. got.ok = (ino.ok /\ global.ok /\ local.ok)
  BY <1>18, <1>20
<1>22. got.value = [ino |-> ino.value, global |-> global.value, local |-> local.value]
  BY <1>18, <1>20
<1>23. got.value = bb
  BY <1>5, <1>11, <1>17, <1>19, <1>22, Zenon
<1>24. got.ok = TRUE
  BY <1>5, <1>11, <1>17, <1>21
<1> QED
  BY <1>20, <1>23, <1>24

-----------------------------------------------------------------------------
(* The save: each index behind its size. *)

SavedAt(r, p, q, bb) ==
    /\ p \in Nat /\ q = p + 2 + BbWidth(bb)
    /\ CellsAt(r, p, BbWidth(bb), 2) /\ BbAt(r, p + 2, bb)

\* The first m indices fill the ring r; ends are their ends.
Recorded(ends, r, b, m) ==
    /\ ends[0] = 0 /\ ends[m] = Len(r)
    /\ \A k \in 1 .. m : SavedAt(r, ends[k - 1], ends[k], b[k])

LEMMA SavedFits ==
    ASSUME NEW r, NEW p, NEW q, NEW bb, SmallBb(bb), SavedAt(r, p, q, bb)
    PROVE  q <= Len(r)
<1>1. PICK g \in Nat, l \in Nat : g = TreeWidth(bb.global) /\ l = TreeWidth(bb.local)
  BY TreeWidthIs DEF SmallBb
<1>2. q = p + 4 + g + l
  <2>1. BbWidth(bb) = 2 + g + l
    BY <1>1, BbWidthIs DEF SmallBb
  <2> QED
    BY <1>1, <2>1 DEF SavedAt
<1>3. p + 2 + 2 + g + l <= Len(r)
  BY <1>1 DEF SavedAt, BbAt, TreeAt, InoWidth
<1> QED
  BY <1>1, <1>2, <1>3 DEF SavedAt

LEMMA SavedKept ==
    ASSUME NEW r, IsSequence(r), NEW x, NEW len \in Nat, len = Len(r), SameCells(r, 0, x, 0, len),
           NEW p, NEW q, NEW bb, SmallBb(bb), SavedAt(r, p, q, bb)
    PROVE  SavedAt(x, p, q, bb)
<1>1. q <= len
  BY SavedFits
<1>2. PICK w \in Nat : w = BbWidth(bb)
  BY BbWidthIs DEF SmallBb
<1>3. p \in Nat /\ q = p + 2 + w
  BY <1>2 DEF SavedAt
<1>4. CellsAt(x, p, w, 2)
  <2>1. CellsAt(r, p, w, 2)
    BY <1>2 DEF SavedAt
  <2>2. PICK y \in Nat : y = p /\ y = 0 + p
    BY <1>3
  <2>3. y + 2 <= len
    BY <1>1, <1>3, <2>2
  <2>4. CellsAt(r, y, w, 2)
    BY <2>1, <2>2
  <2>5. y = 0 + y
    OBVIOUS
  <2>6. CellsAt(x, y, w, 2)
    BY <2>3, <2>4, <2>5, CellsMoved
  <2> QED
    BY <2>2, <2>6
<1>5. BbAt(x, p + 2, bb)
  <2>1. PICK y \in Nat : y = p + 2
    BY <1>3
  <2>2. y + BbWidth(bb) <= len
    BY <1>1, <1>2, <1>3, <2>1
  <2>3. BbAt(r, y, bb)
    BY <2>1 DEF SavedAt
  <2>4. y = 0 + y
    OBVIOUS
  <2>5. BbAt(x, y, bb)
    BY <2>2, <2>3, <2>4, BbMoved DEF SmallBb
  <2> QED
    BY <2>1, <2>5
<1> QED
  BY <1>2, <1>3, <1>4, <1>5 DEF SavedAt

\* What the ring is after an index d, with the room for its size before it.
Recording(r, d) == r \o Cells(Len(d) - HeaderWidth, HeaderWidth) \o SubSeq(d, HeaderWidth + 1, Len(d))

LEMMA RecordingIs ==
    ASSUME NEW r, IsSequence(r), NEW bb, SmallBb(bb),
           NEW d, IsSequence(d), Len(d) = HeaderWidth + BbWidth(bb), BbAt(d, HeaderWidth, bb),
           NEW p, p = Len(r), NEW x, x = Recording(r, d)
    PROVE  /\ IsSequence(x) /\ p \in Nat
           /\ SameCells(r, 0, x, 0, p)
           /\ SavedAt(x, p, Len(x), bb)
<1>1. PICK w \in Nat : w = BbWidth(bb)
  BY BbWidthIs DEF SmallBb
<1>2. p \in Nat /\ Len(d) = w + 2 /\ BbAt(d, 2, bb)
  <2>1. p \in Nat
    BY SequenceIs
  <2> QED
    BY <1>1, <2>1 DEF HeaderWidth
<1>3. PICK s : s = Cells(w, 2)
  OBVIOUS
<1>4. IsSequence(s) /\ Len(s) = 2 /\ \A i \in 1 .. 2 : s[i] = <<w, i>>
  <2>1. s = [i \in 1 .. 2 |-> <<w, i>>]
    BY <1>3 DEF Cells
  <2>2. s = [i \in 1 .. 2 |-> s[i]]
    BY <2>1
  <2>3. IsSequence(s) /\ Len(s) = 2
    BY <2>2, SequenceOf
  <2> QED
    BY <2>1, <2>3
<1>5. PICK len \in Nat : len = Len(d) /\ len = w + 2
  BY <1>2
<1>6. PICK t : t = SubSeq(d, 2 + 1, len)
  OBVIOUS
<1>7. IsSequence(t) /\ Len(t) = w /\ \A i \in 1 .. w : t[i] = d[2 + i]
  <2>1. PICK n \in Nat : n = 2
    OBVIOUS
  <2>2. n <= len /\ len <= Len(d) /\ len - n = w /\ t = SubSeq(d, n + 1, len)
    BY <1>5, <1>6, <2>1
  <2>3. IsSequence(t) /\ Len(t) = len - n
    BY <2>2, CutIs
  <2>4. \A i \in 1 .. len - n : t[i] = d[n + i]
    BY <2>2, CutIs
  <2> QED
    BY <2>1, <2>2, <2>3, <2>4
<1>8. PICK y : y = r \o s
  OBVIOUS
<1>9. /\ IsSequence(y) /\ Len(y) = Len(r) + Len(s)
      /\ \A i \in 1 .. Len(r) : y[i] = r[i]
      /\ \A i \in 1 .. Len(s) : y[Len(r) + i] = s[i]
  <2>1. IsJoined(y, r, s)
    BY <1>4, <1>8, JoinedIs
  <2> QED
    BY <2>1 DEF IsJoined
<1>10. x = y \o t
  <2>1. Len(d) - 2 = w
    BY <1>5
  <2> QED
    BY <1>3, <1>5, <1>6, <1>8, <2>1 DEF Recording, HeaderWidth
<1>11. /\ IsSequence(x) /\ Len(x) = Len(y) + Len(t)
       /\ \A i \in 1 .. Len(y) : x[i] = y[i]
       /\ \A i \in 1 .. Len(t) : x[Len(y) + i] = t[i]
  <2>1. IsJoined(x, y, t)
    BY <1>7, <1>9, <1>10, JoinedIs
  <2> QED
    BY <2>1 DEF IsJoined
<1>12. Len(y) = p + 2
  BY <1>4, <1>9
<1>13. Len(x) = p + 2 + w
  BY <1>7, <1>11, <1>12
<1>14. \A i \in 1 .. p : x[i] = r[i]
  <2>1. \A i \in 1 .. p : i \in 1 .. p + 2
    BY <1>2
  <2> QED
    BY <1>9, <1>11, <1>12, <2>1
<1>15. SameCells(r, 0, x, 0, p)
  <2>1. \A i \in 1 .. p : 0 + i = i
    BY <1>2
  <2>2. \A i \in 1 .. p : x[0 + i] = r[0 + i]
    BY <1>14, <2>1
  <2>3. 0 + p <= Len(x) /\ Len(x) \in Nat
    BY <1>2, <1>13
  <2> QED
    BY <2>2, <2>3 DEF SameCells
<1>16. CellsAt(x, p, w, 2)
  <2>1. ASSUME NEW i \in 1 .. 2 PROVE x[p + i] = <<w, i>>
    <3>1. p + i \in 1 .. p + 2
      BY <1>2
    <3>2. x[p + i] = y[p + i]
      BY <1>11, <1>12, <3>1
    <3>3. y[p + i] = s[i]
      BY <1>4, <1>9
    <3> QED
      BY <1>4, <3>2, <3>3
  <2>2. p + 2 <= Len(x)
    BY <1>2, <1>13
  <2> QED
    BY <2>1, <2>2 DEF CellsAt
<1>17. BbAt(x, p + 2, bb)
  <2>1. PICK q \in Nat : q = p + 2
    BY <1>2
  <2>2. \A i \in 1 .. w : x[q + i] = d[2 + i]
    BY <1>7, <1>11, <1>12, <2>1
  <2>3. q + w <= Len(x) /\ Len(x) \in Nat
    BY <1>2, <1>13, <2>1
  <2>4. SameCells(d, 2, x, q, w)
    BY <2>2, <2>3 DEF SameCells
  <2>5. 0 + BbWidth(bb) <= w /\ q = q + 0 /\ 2 = 2 + 0
    BY <1>1
  <2>6. BbAt(x, q, bb)
    BY <1>2, <2>4, <2>5, BbMoved DEF SmallBb
  <2> QED
    BY <2>1, <2>6
<1> QED
  BY <1>1, <1>2, <1>11, <1>13, <1>15, <1>16, <1>17 DEF SavedAt

LEMMA RecordedMore ==
    ASSUME NEW r, IsSequence(r), NEW b, NEW m \in Nat, \A k \in 1 .. m + 1 : SmallBb(b[k]),
           NEW ends, Recorded(ends, r, b, m),
           NEW d, IsSequence(d), Len(d) = HeaderWidth + BbWidth(b[m + 1]), BbAt(d, HeaderWidth, b[m + 1]),
           NEW x, x = Recording(r, d)
    PROVE  IsSequence(x) /\ \E more : Recorded(more, x, b, m + 1)
<1>1. PICK bb : bb = b[m + 1] /\ SmallBb(bb)
  OBVIOUS
<1>2. PICK p : p = Len(r)
  OBVIOUS
<1>3. IsSequence(x) /\ p \in Nat /\ SameCells(r, 0, x, 0, p) /\ SavedAt(x, p, Len(x), bb)
  BY <1>1, <1>2, RecordingIs
<1>4. PICK more : more = [k \in 0 .. m + 1 |-> IF k = m + 1 THEN Len(x) ELSE ends[k]]
  OBVIOUS
<1>5. more[m + 1] = Len(x) /\ \A k \in 0 .. m : more[k] = ends[k]
  BY <1>4
<1>6. more[0] = 0 /\ more[m] = p
  BY <1>2, <1>5 DEF Recorded
<1>7. ASSUME NEW k \in 1 .. m + 1 PROVE SavedAt(x, more[k - 1], more[k], b[k])
  <2>1. CASE k = m + 1
    <3>1. k - 1 = m
      BY <2>1
    <3> QED
      BY <1>1, <1>3, <1>5, <1>6, <2>1, <3>1
  <2>2. CASE k # m + 1
    <3>1. k \in 1 .. m /\ k - 1 \in 0 .. m /\ k \in 0 .. m
      BY <2>2
    <3>2. SavedAt(r, ends[k - 1], ends[k], b[k])
      BY <3>1 DEF Recorded
    <3>3. SavedAt(x, ends[k - 1], ends[k], b[k])
      BY <1>2, <1>3, <3>2, SavedKept
    <3> QED
      BY <1>5, <3>1, <3>3
  <2> QED
    BY <2>1, <2>2
<1>8. Recorded(more, x, b, m + 1)
  BY <1>5, <1>6, <1>7 DEF Recorded
<1> QED
  BY <1>3, <1>8

\* The next index in a ring is found and read.
EndOf(p, w) == p + HeaderWidth + w
ReadFrom(r, p, w) == GetBb(Arch(SubSeq(r, p + HeaderWidth + 1, p + HeaderWidth + w), 0))

SavedFound(r, p, w, q, bb) ==
    /\ w = ValueAt(r, p, HeaderWidth) /\ EndOf(p, w) = q
    /\ ReadFrom(r, p, w).ok = TRUE /\ ReadFrom(r, p, w).value = bb

LEMMA SavedRead ==
    ASSUME NEW r, IsSequence(r), NEW p, NEW q, NEW bb, SmallBb(bb), SavedAt(r, p, q, bb),
           NEW w, w = ValueAt(r, p, HeaderWidth)
    PROVE  SavedFound(r, p, w, q, bb)
<1>1. p \in Nat /\ q \in Nat /\ q = p + 2 + w /\ w \in Nat /\ w = BbWidth(bb)
  <2>1. BbWidth(bb) \in Nat
    BY BbWidthIs DEF SmallBb
  <2>2. PICK n \in Nat : n = 2 /\ n >= 1
    OBVIOUS
  <2>3. p \in Nat /\ q = p + 2 + BbWidth(bb) /\ CellsAt(r, p, BbWidth(bb), n)
    BY <2>2 DEF SavedAt
  <2>4. ValueAt(r, p, n) = BbWidth(bb)
    BY <2>2, <2>3, ValueIs
  <2>5. w = BbWidth(bb)
    BY <2>2, <2>4 DEF HeaderWidth
  <2> QED
    BY <2>1, <2>3, <2>5
<1>2. q <= Len(r)
  BY SavedFits
<1>3. PICK s \in Nat : s = p + 2
  BY <1>1
<1>4. s <= q /\ q - s = w
  BY <1>1, <1>3
<1>5. PICK d : d = SubSeq(r, s + 1, q)
  OBVIOUS
<1>6. IsSequence(d) /\ Len(d) = w
  BY <1>1, <1>2, <1>4, <1>5, CutIs
<1>7. \A i \in 1 .. w : d[i] = r[s + i]
  <2>1. q \in Nat /\ q <= Len(r) /\ s <= q
    BY <1>1, <1>2, <1>4
  <2>2. \A i \in 1 .. q - s : d[i] = r[s + i]
    BY <1>5, <2>1, CutIs
  <2> QED
    BY <1>4, <2>2
<1>8. SameCells(r, s, d, 0, w)
  <2>1. \A i \in 1 .. w : 0 + i = i
    BY <1>1
  <2>2. \A i \in 1 .. w : d[0 + i] = r[s + i]
    BY <1>7, <2>1
  <2>3. 0 + w <= Len(d) /\ Len(d) \in Nat
    BY <1>1, <1>6
  <2> QED
    BY <2>2, <2>3 DEF SameCells
<1>9. BbAt(d, 0, bb)
  <2>1. BbAt(r, s, bb)
    BY <1>3 DEF SavedAt
  <2>2. s = s + 0 /\ 0 = 0 + 0 /\ 0 + BbWidth(bb) <= w
    BY <1>1
  <2> QED
    BY <1>1, <1>8, <2>1, <2>2, BbMoved DEF SmallBb
<1>10. Readable(d, 0)
  <2>1. 3 * (2 + w) < WordMod
    BY <1>1 DEF SmallBb, HeaderWidth
  <2>2. w < WordMod
    BY <1>1, <2>1, ArchiveAssumption
  <2> QED
    BY <1>1, <1>6, <2>2 DEF Readable
<1>11. GetBb(Arch(d, 0)).ok = TRUE /\ GetBb(Arch(d, 0)).value = bb
  BY <1>9, <1>10, GetBbIs
<1>12. p + HeaderWidth + w = q /\ p + HeaderWidth + 1 = s + 1
  BY <1>1, <1>3 DEF HeaderWidth
<1> QED
  BY <1>5, <1>11, <1>12 DEF SavedFound, ReadFrom, EndOf

\* What holds of the sequence of the indices.
LEMMA IndicesSmall ==
    ASSUME NEW b \in Indices
    PROVE  IsSequence(b) /\ \A k \in 1 .. Len(b) : SmallBb(b[k])
  BY ArchiveAssumption, SequenceIs

Prefix(s, b) == IsSequence(s) /\ Len(s) <= Len(b) /\ \A i \in 1 .. Len(s) : s[i] = b[i]

LEMMA PrefixIs ==
    ASSUME NEW s, NEW b, IsSequence(b), Prefix(s, b)
    PROVE  s = SubSeq(b, 1, Len(s)) /\ (Len(s) = Len(b) => s = b)
<1>1. PICK n \in Nat : n = Len(s) /\ n <= Len(b) /\ IsSequence(s)
  BY SequenceIs DEF Prefix
<1>2. PICK m \in Nat : m = 0
  OBVIOUS
<1>3. PICK t : t = SubSeq(b, m + 1, n)
  OBVIOUS
<1>4. m <= n /\ n - m = n /\ m + 1 = 1
  BY <1>1, <1>2
<1>5. IsSequence(t) /\ Len(t) = n
  <2>1. m <= n
    BY <1>4
  <2>2. IsSequence(t) /\ Len(t) = n - m
    BY <1>1, <1>3, <2>1, CutIs
  <2> QED
    BY <1>4, <2>2
<1>6. \A i \in 1 .. n : t[i] = b[i]
  <2>1. m <= n
    BY <1>4
  <2>2. \A i \in 1 .. n - m : t[i] = b[m + i]
    BY <1>1, <1>3, <2>1, CutIs
  <2>3. \A i \in 1 .. n : i \in 1 .. n - m /\ m + i = i
    BY <1>2
  <2> QED
    BY <2>2, <2>3
<1>7. s = SubSeq(b, 1, n)
  <2>1. s = t
    BY <1>1, <1>5, <1>6, SameSequence DEF Prefix
  <2> QED
    BY <1>3, <1>4, <2>1
<1>8. ASSUME n = Len(b) PROVE s = b
  BY <1>1, <1>8, SameSequence DEF Prefix
<1> QED
  BY <1>1, <1>7, <1>8

LEMMA PrefixMore ==
    ASSUME NEW s, NEW b, IsSequence(b), Prefix(s, b), Len(s) < Len(b), NEW v, v = b[Len(s) + 1]
    PROVE  Prefix(Append(s, v), b) /\ Len(Append(s, v)) = Len(s) + 1
<1>1. PICK n \in Nat : n = Len(s) /\ IsSequence(s) /\ n < Len(b) /\ Len(b) \in Nat
  BY SequenceIs DEF Prefix
<1>2. PICK t : t = Append(s, v)
  OBVIOUS
<1>3. IsSequence(t) /\ Len(t) = n + 1 /\ t[n + 1] = v /\ \A i \in 1 .. n : t[i] = s[i]
  BY <1>1, <1>2, AppendedIs
<1>4. ASSUME NEW i \in 1 .. n + 1 PROVE t[i] = b[i]
  <2>1. CASE i = n + 1
    BY <1>1, <1>3, <2>1
  <2>2. CASE i # n + 1
    <3>1. i \in 1 .. n
      BY <2>2
    <3> QED
      BY <1>1, <1>3, <3>1 DEF Prefix
  <2> QED
    BY <2>1, <2>2
<1>5. n + 1 <= Len(b)
  BY <1>1
<1> QED
  BY <1>1, <1>2, <1>3, <1>4, <1>5 DEF Prefix

-----------------------------------------------------------------------------
(* The save and the load. *)

SaveInv ==
    phase = "save" =>
        /\ bbs \in Indices /\ IsSequence(ring) /\ out = EmptyArchive /\ loaded = <<>>
        /\ cur \in Nat /\ cur <= Len(bbs)
        /\ \E ends : Recorded(ends, ring, bbs, cur)

LoadInv ==
    phase = "load" =>
        /\ bbs \in Indices /\ IsSequence(ring) /\ Prefix(loaded, bbs)
        /\ \E ends : Recorded(ends, ring, bbs, Len(bbs)) /\ cur = ends[Len(loaded)]

\* An archive of an index begins with room for its size alone.
LEMMA BegunIs ==
    ASSUME NEW a, a = EmptyArchive
    PROVE  Arch(Resized(a.data, HeaderWidth), a.pos + HeaderWidth) = Arch(Resized(<<>>, HeaderWidth), HeaderWidth)
<1>1. a.data = <<>> /\ a.pos = 0
  BY DEF EmptyArchive, Arch
<1>2. a.pos + HeaderWidth = HeaderWidth
  BY <1>1 DEF HeaderWidth
<1> QED
  BY <1>1, <1>2

LEMMA SaveStep ==
    ASSUME SaveInv, SaveIndex
    PROVE  SaveInv' /\ LoadInv'
<1>1. /\ phase = "save" /\ phase' = "save" /\ bbs' = bbs /\ loaded' = loaded
      /\ cur' = cur + 1 /\ cur < Len(bbs)
  BY DEF SaveIndex
<1>2. /\ bbs \in Indices /\ IsSequence(ring) /\ out = EmptyArchive /\ loaded = <<>>
      /\ cur \in Nat /\ cur <= Len(bbs)
  BY <1>1 DEF SaveInv
<1>3. PICK ends : Recorded(ends, ring, bbs, cur)
  BY <1>1 DEF SaveInv
<1>4. PICK a : a = Arch(Resized(out.data, HeaderWidth), out.pos + HeaderWidth)
  OBVIOUS
<1>5. a = Arch(Resized(<<>>, HeaderWidth), HeaderWidth)
  BY <1>2, <1>4, BegunIs
<1>6. IsSequence(bbs) /\ \A k \in 1 .. Len(bbs) : SmallBb(bbs[k])
  BY <1>2, IndicesSmall
<1>7. PICK len \in Nat : len = Len(bbs)
  BY <1>6, SequenceIs
<1>8. \A k \in 1 .. cur + 1 : SmallBb(bbs[k])
  <2>1. \A k \in 1 .. cur + 1 : k \in 1 .. len
    BY <1>1, <1>2, <1>7
  <2> QED
    BY <1>6, <1>7, <2>1
<1>9. PICK bb : bb = bbs[cur + 1] /\ SmallBb(bb)
  BY <1>2, <1>8
<1>10. PICK d : /\ d = Out(a, BbItems(bb)).data /\ IsSequence(d)
                /\ Len(d) = HeaderWidth + BbWidth(bb) /\ BbAt(d, HeaderWidth, bb)
  BY <1>5, <1>9, BbOut
<1>11. ring' = Recording(ring, d) /\ out' = EmptyArchive
  BY <1>4, <1>9, <1>10 DEF SaveIndex, Recording, Cleared
<1>12. IsSequence(ring') /\ \E more : Recorded(more, ring', bbs, cur + 1)
  BY <1>2, <1>3, <1>8, <1>9, <1>10, <1>11, RecordedMore
<1>13. cur + 1 \in Nat /\ cur + 1 <= Len(bbs)
  BY <1>1, <1>2, <1>7
<1>14. SaveInv'
  BY <1>1, <1>2, <1>11, <1>12, <1>13 DEF SaveInv
<1>15. LoadInv'
  BY <1>1 DEF LoadInv
<1> QED
  BY <1>14, <1>15

LEMMA StartStep ==
    ASSUME SaveInv, StartLoad
    PROVE  SaveInv' /\ LoadInv'
<1>1. /\ phase = "save" /\ phase' = "load" /\ bbs' = bbs /\ loaded' = loaded
      /\ cur' = 0 /\ cur = Len(bbs) /\ ring' = ring
  BY DEF StartLoad
<1>2. /\ bbs \in Indices /\ IsSequence(ring) /\ loaded = <<>>
  BY <1>1 DEF SaveInv
<1>3. PICK ends : Recorded(ends, ring, bbs, cur)
  BY <1>1 DEF SaveInv
<1>4. IsSequence(<<>>) /\ Len(<<>>) = 0
  <2>1. <<>> \in Seq({})
    OBVIOUS
  <2> QED
    BY <2>1, SequenceIn
<1>5. Len(bbs) \in Nat
  BY <1>2, IndicesSmall, SequenceIs
<1>6. Prefix(loaded, bbs)
  BY <1>2, <1>4, <1>5 DEF Prefix
<1>7. ends[0] = 0
  BY <1>3 DEF Recorded
<1>8. Recorded(ends, ring, bbs, Len(bbs)) /\ cur' = ends[Len(loaded)]
  BY <1>1, <1>2, <1>3, <1>4, <1>7
<1>9. LoadInv'
  BY <1>1, <1>2, <1>6, <1>8 DEF LoadInv
<1> QED
  BY <1>1, <1>9 DEF SaveInv

\* Where load stands: before an index, or at the end.
LEMMA LoadAt ==
    ASSUME LoadInv, phase = "load"
    PROVE  \/ Len(loaded) = Len(bbs) /\ cur = Len(ring)
           \/ /\ Len(loaded) < Len(bbs) /\ cur < Len(ring)
              /\ SmallBb(bbs[Len(loaded) + 1])
              /\ \E q : SavedAt(ring, cur, q, bbs[Len(loaded) + 1])
<1>1. bbs \in Indices /\ IsSequence(ring) /\ Prefix(loaded, bbs)
  BY DEF LoadInv
<1>2. PICK ends : Recorded(ends, ring, bbs, Len(bbs)) /\ cur = ends[Len(loaded)]
  BY DEF LoadInv
<1>3. PICK n \in Nat, len \in Nat : n = Len(bbs) /\ len = Len(loaded) /\ len <= n
  BY <1>1, IndicesSmall, SequenceIs DEF Prefix
<1>4. CASE len = n
  BY <1>2, <1>3, <1>4 DEF Recorded
<1>5. CASE len # n
  <2>1. len + 1 \in 1 .. n /\ len + 1 \in Nat /\ (len + 1) - 1 = len
    BY <1>3, <1>5
  <2>2. PICK q : q = ends[len + 1]
    OBVIOUS
  <2>3. PICK bb : bb = bbs[len + 1]
    OBVIOUS
  <2>4. SavedAt(ring, ends[(len + 1) - 1], ends[len + 1], bbs[len + 1])
    BY <1>2, <1>3, <2>1 DEF Recorded
  <2>5. SavedAt(ring, cur, q, bb)
    BY <1>2, <1>3, <2>1, <2>2, <2>3, <2>4
  <2>6. SmallBb(bb)
    BY <1>1, <1>3, <2>1, <2>3, IndicesSmall
  <2>7. cur < Len(ring)
    <3>1. cur \in Nat /\ cur + 2 <= Len(ring)
      BY <2>5 DEF SavedAt, CellsAt
    <3>2. Len(ring) \in Nat
      BY <1>1, SequenceIs
    <3> QED
      BY <3>1, <3>2
  <2>8. len < n
    BY <1>3, <1>5
  <2> QED
    BY <1>3, <2>3, <2>5, <2>6, <2>7, <2>8
<1> QED
  BY <1>4, <1>5

LEMMA LoadStep ==
    ASSUME LoadInv, LoadIndex
    PROVE  SaveInv' /\ LoadInv' /\ phase' = "load"
<1>1. phase = "load" /\ cur < Len(ring) /\ UNCHANGED <<bbs, ring>>
  BY DEF LoadIndex
<1>2. bbs \in Indices /\ IsSequence(ring) /\ Prefix(loaded, bbs)
  BY <1>1 DEF LoadInv
<1>3. PICK ends : Recorded(ends, ring, bbs, Len(bbs)) /\ cur = ends[Len(loaded)]
  BY <1>1 DEF LoadInv
<1>4. PICK n \in Nat, len \in Nat : n = Len(bbs) /\ len = Len(loaded)
  BY <1>2, IndicesSmall, SequenceIs DEF Prefix
<1>5. len < n /\ SmallBb(bbs[len + 1])
  <2>1. Len(ring) \in Nat
    BY <1>2, SequenceIs
  <2>2. ~ cur = Len(ring)
    BY <1>1, <2>1
  <2> QED
    BY <1>1, <1>4, <2>2, LoadAt
<1>6. PICK bb, q : bb = bbs[len + 1] /\ q = ends[len + 1]
  OBVIOUS
<1>7. SavedAt(ring, cur, q, bb)
  <2>1. len + 1 \in 1 .. n /\ (len + 1) - 1 = len
    BY <1>5
  <2>2. SavedAt(ring, ends[(len + 1) - 1], ends[len + 1], bbs[len + 1])
    BY <1>3, <1>4, <2>1 DEF Recorded
  <2> QED
    BY <1>3, <1>4, <1>6, <2>1, <2>2
<1>8. PICK w : w = ValueAt(ring, cur, HeaderWidth)
  OBVIOUS
<1>9. PICK got : got = ReadFrom(ring, cur, w)
  OBVIOUS
<1>10. EndOf(cur, w) = q /\ got.ok = TRUE /\ got.value = bb
  <2>1. SmallBb(bb) /\ IsSequence(ring)
    BY <1>2, <1>5, <1>6
  <2>2. SavedFound(ring, cur, w, q, bb)
    BY <1>7, <1>8, <2>1, SavedRead
  <2> QED
    BY <1>9, <2>2 DEF SavedFound
<1>11. cur' = q /\ loaded' = Append(loaded, bb) /\ phase' = "load"
  BY <1>1, <1>8, <1>9, <1>10 DEF LoadIndex, ReadFrom, EndOf
<1>12. Prefix(loaded', bbs) /\ Len(loaded') = len + 1
  <2>1. IsSequence(bbs)
    BY <1>2, IndicesSmall
  <2>2. Len(loaded) < Len(bbs) /\ bb = bbs[Len(loaded) + 1]
    BY <1>4, <1>5, <1>6
  <2> QED
    BY <1>2, <1>4, <1>11, <2>1, <2>2, PrefixMore
<1>13. cur' = ends[Len(loaded')]
  BY <1>6, <1>11, <1>12
<1>14. LoadInv'
  BY <1>1, <1>2, <1>3, <1>12, <1>13 DEF LoadInv
<1> QED
  BY <1>11, <1>14 DEF SaveInv

LEMMA LoadSound ==
    ASSUME LoadInv, phase # "load failed"
    PROVE  IndicesComeBack
<1> SUFFICES ASSUME phase = "load"
             PROVE  /\ loaded = SubSeq(bbs, 1, Len(loaded))
                    /\ cur >= Len(ring) => cur = Len(ring) /\ loaded = bbs
  BY DEF IndicesComeBack
<1>1. bbs \in Indices /\ IsSequence(ring) /\ Prefix(loaded, bbs)
  BY DEF LoadInv
<1>2. loaded = SubSeq(bbs, 1, Len(loaded)) /\ (Len(loaded) = Len(bbs) => loaded = bbs)
  BY <1>1, IndicesSmall, PrefixIs
<1>3. ASSUME cur >= Len(ring) PROVE cur = Len(ring) /\ loaded = bbs
  <2>1. Len(ring) \in Nat
    BY <1>1, SequenceIs
  <2>2. cur \in Nat \/ cur = Len(ring)
    BY LoadAt DEF SavedAt
  <2>3. ~ cur < Len(ring)
    BY <1>3, <2>1, <2>2
  <2> QED
    BY <1>2, <2>3, LoadAt
<1> QED
  BY <1>2, <1>3

-----------------------------------------------------------------------------
(* The exchange: where each tree begins in what all receive. *)

LEMMA TotalIs ==
    ASSUME NEW n \in Nat, NEW s, DOMAIN s = 1 .. n, NEW at, Running("sum", at, 0, s, n)
    PROVE  Total(s) = at[n]
  BY TotalFold DEF Total

LEMMA DisplacementsAre ==
    ASSUME NEW s, IsSequence(s), NEW at, Running("sum", at, 0, s, Len(s)), NEW i \in 1 .. Len(s)
    PROVE  Displacements(s)[i] = at[i - 1]
<1>1. PICK n \in Nat : n = Len(s)
  BY SequenceIs
<1>2. PICK m \in Nat : m = i - 1 /\ m <= n
  BY <1>1
<1>3. PICK z \in Nat : z = 0
  OBVIOUS
<1>4. PICK t : t = SubSeq(s, z + 1, m)
  OBVIOUS
<1>5. IsSequence(t) /\ Len(t) = m
  <2>1. z <= m
    BY <1>3
  <2>2. IsSequence(t) /\ Len(t) = m - z
    BY <1>1, <1>2, <1>4, <2>1, CutIs
  <2> QED
    BY <1>3, <2>2
<1>6. \A k \in 1 .. m : t[k] = s[k]
  <2>1. z <= m
    BY <1>3
  <2>2. \A k \in 1 .. m - z : t[k] = s[z + k]
    BY <1>1, <1>2, <1>4, <2>1, CutIs
  <2>3. \A k \in 1 .. m : k \in 1 .. m - z /\ z + k = k
    BY <1>3
  <2> QED
    BY <2>2, <2>3
<1>7. Running("sum", at, 0, t, m)
  <2>1. \A k \in 1 .. m : k \in 1 .. n
    BY <1>2
  <2>2. \A k \in 1 .. m : at[k] = FoldStep("sum", at[k - 1], t[k])
    BY <1>1, <1>6, <2>1 DEF Running
  <2> QED
    BY <2>2 DEF Running
<1>8. DOMAIN t = 1 .. m
  BY <1>5, SequenceIs
<1>9. FoldLeft(LAMBDA x, y : x + y, 0, t) = at[m]
  BY <1>7, <1>8, TotalFold
<1>10. t = SubSeq(s, 1, i - 1)
  <2>1. z + 1 = 1
    BY <1>3
  <2> QED
    BY <1>2, <1>4, <2>1
<1>11. Displacements(s)[i] = FoldLeft(LAMBDA x, y : x + y, 0, SubSeq(s, 1, i - 1))
  BY DEF Displacements
<1> QED
  BY <1>2, <1>9, <1>10, <1>11

\* The sizes that all learn: zeros behind those of the trees.
WidthsOf(b, m) == [i \in 1 .. m |-> IF i \in 1 .. Len(b) THEN TreeWidth(b[i]) ELSE 0]

\* at[k] is where the k-th tree ends, of n trees and m sizes.
Climbs(at, n, k) ==
    /\ at[k] \in Nat /\ (k >= n => at[k] = at[n])
    /\ \A j \in 0 .. k : at[j] \in Nat /\ at[j] <= at[k]

LEMMA ClimbsOn ==
    ASSUME NEW n \in Nat, NEW m \in Nat, NEW s, \A i \in 1 .. m : s[i] \in Nat /\ (i > n => s[i] = 0),
           NEW at, Running("sum", at, 0, s, m), NEW k \in 0 .. m
    PROVE  Climbs(at, n, k)
<1> DEFINE Wrong == {i \in 0 .. m : ~ Climbs(at, n, i)}
<1> SUFFICES ASSUME Wrong # {} PROVE FALSE
  OBVIOUS
<1>1. Wrong \in SUBSET Nat /\ Wrong \subseteq 0 .. m
  OBVIOUS
<1>2. ASSUME NEW i \in Wrong PROVE ~ Climbs(at, n, i)
  OBVIOUS
<1>3. ASSUME NEW i \in 0 .. m, i \notin Wrong PROVE Climbs(at, n, i)
  BY <1>3
<1> HIDE DEF Wrong
<1>4. PICK i \in Wrong : \A j \in Wrong : i <= j
  BY <1>1, LeastNumber
<1>5. i \in 0 .. m /\ i \in Nat
  BY <1>1, <1>4
<1>6. CASE i = 0
  <2>1. at[0] = 0
    BY DEF Running
  <2>2. 0 >= n => n = 0
    OBVIOUS
  <2>3. 0 .. 0 = {0}
    OBVIOUS
  <2>4. Climbs(at, n, 0)
    BY <2>1, <2>2, <2>3 DEF Climbs
  <2> QED
    BY <1>2, <1>4, <1>6, <2>4
<1>7. CASE i # 0
  <2>1. i \in 1 .. m /\ i - 1 \in 0 .. m /\ ~ i <= i - 1
    BY <1>5, <1>7
  <2>2. Climbs(at, n, i - 1)
    BY <1>3, <1>4, <2>1
  <2>3. PICK w \in Nat : w = s[i] /\ (i > n => w = 0)
    BY <2>1
  <2>4. PICK p \in Nat : p = at[i - 1] /\ (i - 1 >= n => p = at[n])
    BY <2>2 DEF Climbs
  <2>5. at[i] = p + w
    BY <2>1, <2>3, <2>4 DEF Running, FoldStep
  <2>6. i >= n => at[i] = at[n]
    <3>1. CASE i = n
      BY <3>1
    <3>2. CASE i > n
      BY <1>5, <2>3, <2>4, <2>5, <3>2
    <3> QED
      BY <1>5, <3>1, <3>2
  <2>7. ASSUME NEW j \in 0 .. i PROVE at[j] \in Nat /\ at[j] <= at[i]
    <3>1. CASE j = i
      BY <2>5, <3>1
    <3>2. CASE j # i
      <4>1. j \in 0 .. i - 1
        BY <1>5, <3>2
      <4>2. at[j] \in Nat /\ at[j] <= p
        BY <2>2, <2>4, <4>1 DEF Climbs
      <4> QED
        BY <2>5, <4>2
    <3> QED
      BY <3>1, <3>2
  <2>8. at[i] \in Nat
    BY <2>5
  <2>9. Climbs(at, n, i)
    BY <2>6, <2>7, <2>8 DEF Climbs
  <2> QED
    BY <1>2, <1>4, <2>9
<1> QED
  BY <1>6, <1>7

\* What is known of the places of n trees of the sequence b, all told.
Placed(at, b, n, m) ==
    /\ at[0] = 0 /\ at[m] = at[n] /\ at[n] < WordMod
    /\ \A k \in 0 .. m : at[k] \in Nat
    /\ \A k \in 0 .. m : \A j \in 0 .. k : at[j] <= at[k]
    /\ \A k \in 1 .. n : at[k] = at[k - 1] + TreeWidth(b[k])

LEMMA WidthsIs ==
    ASSUME NEW b, IsSequence(b), \A k \in 1 .. Len(b) : SmallTree(b[k]),
           NEW n \in Nat, n = Len(b), NEW m \in Nat, NEW s, s = WidthsOf(b, m)
    PROVE  /\ IsSequence(s) /\ Len(s) = m /\ DOMAIN s = 1 .. m
           /\ \A i \in 1 .. m : s[i] \in Nat /\ (i > n => s[i] = 0) /\ (i <= n => s[i] = TreeWidth(b[i]))
<1>1. s = [i \in 1 .. m |-> IF i \in 1 .. n THEN TreeWidth(b[i]) ELSE 0]
  BY DEF WidthsOf
<1>2. s = [i \in 1 .. m |-> s[i]]
  BY <1>1
<1>3. IsSequence(s) /\ Len(s) = m
  BY <1>2, SequenceOf
<1>4. \A i \in 1 .. n : TreeWidth(b[i]) \in Nat
  BY TreeWidthIs DEF SmallTree
<1>5. ASSUME NEW i \in 1 .. m
      PROVE  s[i] \in Nat /\ (i > n => s[i] = 0) /\ (i <= n => s[i] = TreeWidth(b[i]))
  <2>1. CASE i <= n
    <3>1. i \in 1 .. n
      BY <2>1
    <3> QED
      BY <1>1, <1>4, <2>1, <3>1
  <2>2. CASE ~ i <= n
    <3>1. i \notin 1 .. n /\ i > n
      BY <2>2
    <3> QED
      BY <1>1, <2>2, <3>1
  <2> QED
    BY <2>1, <2>2
<1> QED
  BY <1>1, <1>3, <1>5

LEMMA TreesPlaced ==
    ASSUME NEW b \in Worlds, NEW n \in Nat, n = Len(b), NEW m \in Nat, n <= m,
           NEW s, s = WidthsOf(b, m), NEW at, Running("sum", at, 0, s, m)
    PROVE  Placed(at, b, n, m)
<1>1. IsSequence(b) /\ \A k \in 1 .. Len(b) : SmallTree(b[k])
  BY ArchiveAssumption, SequenceIs
<1>2. \A i \in 1 .. m : s[i] \in Nat /\ (i > n => s[i] = 0) /\ (i <= n => s[i] = TreeWidth(b[i]))
  BY <1>1, WidthsIs
<1>3. ASSUME NEW k \in 0 .. m PROVE Climbs(at, n, k)
  BY <1>2, <1>3, ClimbsOn
<1>4. at[0] = 0
  BY DEF Running
<1>5. at[m] = at[n]
  <2>1. m \in 0 .. m
    OBVIOUS
  <2> QED
    BY <1>3, <2>1 DEF Climbs
<1>6. at[n] < WordMod
  <2>1. PICK t : t = [i \in DOMAIN b |-> TreeWidth(b[i])]
    OBVIOUS
  <2>2. DOMAIN b = 1 .. n
    BY <1>1, SequenceIs
  <2>3. \A k \in 1 .. n : t[k] = s[k]
    <3>1. \A k \in 1 .. n : k \in 1 .. m /\ k <= n
      OBVIOUS
    <3> QED
      BY <1>2, <2>1, <2>2, <3>1
  <2>4. \A k \in 1 .. n : k \in 1 .. m
    OBVIOUS
  <2>5. Running("sum", at, 0, t, n)
    BY <2>3, <2>4 DEF Running
  <2>6. DOMAIN t = 1 .. n
    BY <2>1, <2>2
  <2>7. Total(t) = at[n]
    BY <2>5, <2>6, TotalIs
  <2>8. Total(t) < WordMod
    BY <2>1, ArchiveAssumption
  <2> QED
    BY <2>7, <2>8
<1>7. ASSUME NEW k \in 0 .. m PROVE at[k] \in Nat /\ \A j \in 0 .. k : at[j] <= at[k]
  BY <1>3 DEF Climbs
<1>8. ASSUME NEW k \in 1 .. n PROVE at[k] = at[k - 1] + TreeWidth(b[k])
  <2>1. k \in 1 .. m /\ k <= n
    OBVIOUS
  <2>2. at[k] = at[k - 1] + s[k]
    BY <2>1 DEF Running, FoldStep
  <2>3. s[k] = TreeWidth(b[k])
    BY <1>2, <2>1
  <2> QED
    BY <2>2, <2>3
<1> QED
  BY <1>4, <1>5, <1>6, <1>7, <1>8 DEF Placed

-----------------------------------------------------------------------------
(* What all receive. *)

Holds(at, s, i, p) == at[i] < p /\ p <= at[i] + s[i]

Sent(at, s, b, p) ==
    LET i == CHOOSE i \in 1 .. Len(s) : at[i] < p /\ p <= at[i] + s[i]
    IN  Serialised(b[i])[p - at[i]]

LEMMA SentBy ==
    ASSUME NEW b \in Worlds, NEW n \in Nat, n = Len(b), NEW m \in Nat, n <= m,
           NEW s, s = WidthsOf(b, m), NEW at, Running("sum", at, 0, s, m),
           NEW k \in 1 .. n, NEW j \in 1 .. TreeWidth(b[k]), NEW p, p = at[k - 1] + j
    PROVE  Sent(Displacements(s), s, b, p) = Serialised(b[k])[j]
<1>1. IsSequence(b) /\ \A i \in 1 .. Len(b) : SmallTree(b[i])
  BY ArchiveAssumption, SequenceIs
<1>2. IsSequence(s) /\ Len(s) = m
  BY <1>1, WidthsIs
<1>3. Placed(at, b, n, m)
  BY TreesPlaced
<1>4. PICK d : d = Displacements(s)
  OBVIOUS
<1>5. ASSUME NEW i \in 1 .. m PROVE d[i] = at[i - 1]
  BY <1>2, <1>4, <1>5, DisplacementsAre
<1>6. ASSUME NEW i \in 1 .. m PROVE d[i] + s[i] = at[i]
  <2>1. at[i] = at[i - 1] + s[i]
    BY DEF Running, FoldStep
  <2> QED
    BY <1>5, <2>1
<1>7. k \in 1 .. m /\ k \in 0 .. m /\ k - 1 \in 0 .. m
  OBVIOUS
<1>8. PICK q \in Nat, r \in Nat, w \in Nat : q = at[k - 1] /\ r = at[k] /\ w = TreeWidth(b[k]) /\ r = q + w
  <2>1. TreeWidth(b[k]) \in Nat
    BY <1>1, TreeWidthIs DEF SmallTree
  <2> QED
    BY <1>3, <1>7, <2>1 DEF Placed
<1>9. p = q + j /\ q < p /\ p <= r /\ p - q = j
  BY <1>8
<1>10. ASSUME NEW i \in 1 .. m PROVE Holds(d, s, i, p) <=> i = k
  <2>1. Holds(d, s, i, p) <=> at[i - 1] < p /\ p <= at[i]
    BY <1>5, <1>6 DEF Holds
  <2>2. i \in 0 .. m /\ i - 1 \in 0 .. m
    OBVIOUS
  <2>3. PICK x \in Nat, y \in Nat : x = at[i - 1] /\ y = at[i]
    BY <1>3, <2>2 DEF Placed
  <2>4. CASE i = k
    BY <1>8, <1>9, <2>1, <2>4
  <2>5. CASE i < k
    <3>1. i \in 0 .. k - 1
      BY <2>5
    <3>2. y <= q
      BY <1>3, <1>7, <1>8, <2>3, <3>1 DEF Placed
    <3> QED
      BY <1>9, <2>1, <2>3, <2>5, <3>2
  <2>6. CASE i > k
    <3>1. k \in 0 .. i - 1
      BY <2>6
    <3>2. r <= x
      BY <1>3, <1>8, <2>2, <2>3, <3>1 DEF Placed
    <3> QED
      BY <1>9, <2>1, <2>3, <2>6, <3>2
  <2> QED
    BY <2>4, <2>5, <2>6
<1>11. k = CHOOSE i \in 1 .. Len(s) : d[i] < p /\ p <= d[i] + s[i]
  <2>1. \A i \in 1 .. Len(s) : (d[i] < p /\ p <= d[i] + s[i]) <=> i = k
    BY <1>2, <1>10 DEF Holds
  <2>2. k \in 1 .. Len(s)
    BY <1>2, <1>7
  <2> QED
    BY <2>1, <2>2
<1>12. d[k] = q
  BY <1>5, <1>7, <1>8
<1> QED
  BY <1>4, <1>9, <1>11, <1>12 DEF Sent

IsGathered(d, s, b) == d = [p \in 1 .. Total(s) |-> Sent(Displacements(s), s, b, p)]

\* Each tree stands where the sizes say.
Received(d, at, b, n) ==
    /\ IsSequence(d) /\ Len(d) = at[n]
    /\ \A k \in 1 .. n : TreeAt(d, at[k - 1], b[k])

LEMMA ReceivedIs ==
    ASSUME NEW b \in Worlds, NEW n \in Nat, n = Len(b), NEW m \in Nat, n <= m,
           NEW s, s = WidthsOf(b, m), NEW at, Running("sum", at, 0, s, m),
           NEW d, IsGathered(d, s, b)
    PROVE  Received(d, at, b, n)
<1>1. IsSequence(b) /\ \A i \in 1 .. Len(b) : SmallTree(b[i])
  BY ArchiveAssumption, SequenceIs
<1>2. DOMAIN s = 1 .. m
  BY <1>1, WidthsIs
<1>3. Placed(at, b, n, m)
  BY TreesPlaced
<1>4. Total(s) = at[m]
  BY <1>2, TotalIs
<1>5. PICK len \in Nat : len = at[n] /\ len = Total(s)
  <2>1. n \in 0 .. m
    OBVIOUS
  <2> QED
    BY <1>3, <1>4, <2>1 DEF Placed
<1>6. d = [p \in 1 .. len |-> d[p]]
  BY <1>5 DEF IsGathered
<1>7. IsSequence(d) /\ Len(d) = len
  BY <1>6, SequenceOf
<1>8. ASSUME NEW k \in 1 .. n PROVE TreeAt(d, at[k - 1], b[k])
  <2>1. PICK tree : tree = b[k] /\ SmallTree(tree)
    BY <1>1
  <2>2. PICK w \in Nat : w = TreeWidth(tree)
    BY <2>1, TreeWidthIs DEF SmallTree
  <2>3. k \in 0 .. n /\ k - 1 \in 0 .. m /\ n \in 0 .. m /\ k \in 0 .. m
    OBVIOUS
  <2>4. PICK q \in Nat : q = at[k - 1]
    BY <1>3, <2>3 DEF Placed
  <2>5. q + w <= len
    <3>1. at[k] = q + w
      BY <1>3, <2>1, <2>2, <2>4 DEF Placed
    <3>2. at[k] <= at[n]
      BY <1>3, <2>3 DEF Placed
    <3> QED
      BY <1>5, <3>1, <3>2
  <2>6. PICK e : e = Serialised(tree)
    OBVIOUS
  <2>7. TreeAt(e, 0, tree)
    BY <2>1, <2>6, SerialisedIs
  <2>8. ASSUME NEW j \in 1 .. w PROVE d[q + j] = e[0 + j]
    <3>1. PICK p \in 1 .. len : p = q + j
      BY <2>5
    <3>2. d[p] = Sent(Displacements(s), s, b, p)
      <4>1. p \in 1 .. Total(s)
        BY <1>5
      <4> QED
        BY <4>1, Zenon DEF IsGathered
    <3>3. Sent(Displacements(s), s, b, p) = Serialised(b[k])[j]
      BY <2>1, <2>2, <2>4, <3>1, SentBy
    <3>4. 0 + j = j
      OBVIOUS
    <3> QED
      BY <2>1, <2>6, <3>1, <3>2, <3>3, <3>4
  <2>9. SameCells(e, 0, d, q, w)
    BY <1>7, <2>5, <2>8 DEF SameCells
  <2>10. PICK p \in Nat, r \in Nat, x \in Nat, y \in Nat : p = 0 /\ r = 0 /\ x = 0 /\ y = q
    OBVIOUS
  <2>11. TreeAt(d, q, tree)
    <3>1. IsSequence(tree)
      BY <2>1 DEF SmallTree
    <3>2. SameCells(e, p, d, q, w) /\ TreeAt(e, x, tree)
      BY <2>7, <2>9, <2>10
    <3>3. x = p + r /\ y = q + r /\ r + TreeWidth(tree) <= w
      BY <2>2, <2>10
    <3>4. TreeAt(d, y, tree)
      BY <3>1, <3>2, <3>3, TreeMoved
    <3> QED
      BY <2>10, <3>4
  <2> QED
    BY <2>1, <2>4, <2>11
<1> QED
  BY <1>5, <1>7, <1>8 DEF Received

-----------------------------------------------------------------------------
(* The inductive invariant, by phase. *)

ExchangeInv ==
    phase \in {"sizes", "trees", "merge"} =>
        /\ trees \in Worlds /\ world \in Nat /\ Len(trees) <= world
        /\ phase # "merge" => loaded = <<>> /\ cur = 0
        /\ phase # "sizes" => sizes = WidthsOf(trees, world)

\* The archive stands at the end of the last tree that was merged.
Merging(at) ==
    /\ Placed(at, trees, Len(trees), world) /\ Received(in.data, at, trees, Len(trees))
    /\ in = Arch(in.data, at[Len(loaded)]) /\ Prefix(loaded, trees) /\ cur = Len(loaded)

MergeInv == phase = "merge" => \E at : Merging(at)

ArchivePhases == phase \in {"save", "load", "sizes", "trees", "merge"}

ArchiveInv == ArchivePhases /\ SaveInv /\ LoadInv /\ ExchangeInv /\ MergeInv

LEMMA WorldsSmall ==
    ASSUME NEW b \in Worlds
    PROVE  IsSequence(b) /\ Len(b) \in Nat /\ DOMAIN b = 1 .. Len(b) /\ \A k \in 1 .. Len(b) : SmallTree(b[k])
  BY ArchiveAssumption, SequenceIs

LEMMA ArchiveInitial == ASSUME ArchiveInit PROVE ArchiveInv
<1>1. /\ ring = <<>> /\ cur = 0 /\ loaded = <<>> /\ out = EmptyArchive
  BY DEF ArchiveInit
<1>2. CASE phase = "save" /\ bbs \in Indices
  <2>1. IsSequence(<<>>) /\ Len(<<>>) = 0
    <3>1. <<>> \in Seq({})
      OBVIOUS
    <3> QED
      BY <3>1, SequenceIn
  <2>2. Len(bbs) \in Nat
    BY <1>2, IndicesSmall, SequenceIs
  <2>3. PICK ends : ends = [k \in {0} |-> 0]
    OBVIOUS
  <2>4. 1 .. 0 = {} /\ ends[0] = 0
    BY <2>3
  <2>5. Recorded(ends, ring, bbs, cur)
    BY <1>1, <2>1, <2>4 DEF Recorded
  <2>6. SaveInv
    BY <1>1, <1>2, <2>1, <2>2, <2>5 DEF SaveInv
  <2>7. LoadInv /\ ExchangeInv /\ MergeInv /\ ArchivePhases
    BY <1>2 DEF LoadInv, ExchangeInv, MergeInv, ArchivePhases
  <2> QED
    BY <2>6, <2>7 DEF ArchiveInv
<1>3. CASE phase = "sizes" /\ trees \in Worlds /\ world \in Len(trees) .. 2 * Len(trees) - 1
  <2>1. Len(trees) \in Nat
    BY <1>3, WorldsSmall
  <2>2. world \in Nat /\ Len(trees) <= world
    BY <1>3, <2>1
  <2>3. ExchangeInv
    BY <1>1, <1>3, <2>2 DEF ExchangeInv
  <2>4. SaveInv /\ LoadInv /\ MergeInv /\ ArchivePhases
    BY <1>3 DEF SaveInv, LoadInv, MergeInv, ArchivePhases
  <2> QED
    BY <2>3, <2>4 DEF ArchiveInv
<1> QED
  BY <1>2, <1>3 DEF ArchiveInit

LEMMA GatherSizesStep == ASSUME ArchiveInv, GatherSizes PROVE ArchiveInv'
<1>1. /\ phase = "sizes" /\ phase' = "trees" /\ UNCHANGED <<trees, world, loaded, cur>>
      /\ sizes' = AllGather([i \in DOMAIN trees |-> Len(Serialised(trees[i]))])
  BY DEF GatherSizes
<1>2. trees \in Worlds /\ world \in Nat /\ Len(trees) <= world /\ loaded = <<>> /\ cur = 0
  BY <1>1 DEF ArchiveInv, ExchangeInv
<1>3. DOMAIN trees = 1 .. Len(trees) /\ \A k \in 1 .. Len(trees) : SmallTree(trees[k])
  BY <1>2, WorldsSmall
<1>4. \A k \in 1 .. Len(trees) : Len(Serialised(trees[k])) = TreeWidth(trees[k])
  BY <1>3, SerialisedIs
<1>5. PICK s : s = [i \in DOMAIN trees |-> Len(Serialised(trees[i]))]
  OBVIOUS
<1>6. s = [i \in 1 .. Len(trees) |-> TreeWidth(trees[i])]
  BY <1>3, <1>4, <1>5
<1>7. \A i \in 1 .. world : (IF i \in DOMAIN s THEN s[i] ELSE 0)
                           = IF i \in 1 .. Len(trees) THEN TreeWidth(trees[i]) ELSE 0
  BY <1>6
<1>8. sizes' = WidthsOf(trees, world)
  BY <1>1, <1>5, <1>7 DEF AllGather, WidthsOf
<1>9. ExchangeInv'
  BY <1>1, <1>2, <1>8 DEF ExchangeInv
<1>10. (SaveInv /\ LoadInv /\ MergeInv /\ ArchivePhases)'
  BY <1>1 DEF SaveInv, LoadInv, MergeInv, ArchivePhases
<1> QED
  BY <1>9, <1>10 DEF ArchiveInv

LEMMA GatherTreesStep == ASSUME ArchiveInv, GatherTrees PROVE ArchiveInv'
<1>1. /\ phase = "trees" /\ phase' = "merge" /\ UNCHANGED <<trees, world, loaded, cur, sizes>>
      /\ in' = Arch(Gathered, 0)
  BY DEF GatherTrees
<1>2. /\ trees \in Worlds /\ world \in Nat /\ Len(trees) <= world /\ loaded = <<>> /\ cur = 0
      /\ sizes = WidthsOf(trees, world)
  BY <1>1 DEF ArchiveInv, ExchangeInv
<1>3. PICK n \in Nat : n = Len(trees)
  BY <1>2, WorldsSmall
<1>4. PICK at : Running("sum", at, 0, sizes, world)
  BY <1>2, RunExists
<1>5. Placed(at, trees, n, world)
  BY <1>2, <1>3, <1>4, TreesPlaced
<1>6. PICK d : d = Gathered
  OBVIOUS
<1>7. IsGathered(d, sizes, trees)
  BY <1>6 DEF IsGathered, Gathered, Sent
<1>8. Received(d, at, trees, n)
  BY <1>2, <1>3, <1>4, <1>7, ReceivedIs
<1>9. in' = Arch(d, 0) /\ in'.data = d
  BY <1>1, <1>6 DEF Arch
<1>10. Len(loaded) = 0 /\ Prefix(loaded, trees)
  <2>1. IsSequence(<<>>) /\ Len(<<>>) = 0
    <3>1. <<>> \in Seq({})
      OBVIOUS
    <3> QED
      BY <3>1, SequenceIn
  <2> QED
    BY <1>2, <1>3, <2>1 DEF Prefix
<1>11. at[0] = 0
  BY <1>5 DEF Placed
<1>12. Merging(at)'
  BY <1>1, <1>2, <1>3, <1>5, <1>8, <1>9, <1>10, <1>11 DEF Merging
<1>13. MergeInv'
  BY <1>12 DEF MergeInv
<1>14. (SaveInv /\ LoadInv /\ ExchangeInv /\ ArchivePhases)'
  BY <1>1, <1>2 DEF SaveInv, LoadInv, ExchangeInv, ArchivePhases
<1> QED
  BY <1>13, <1>14 DEF ArchiveInv

\* Where the merge stands: before a tree, or behind the last.
LEMMA MergeAt ==
    ASSUME NEW at, Merging(at), trees \in Worlds, world \in Nat, Len(trees) <= world
    PROVE  /\ Readable(in.data, at[Len(loaded)]) /\ Len(loaded) \in Nat /\ Len(trees) \in Nat
           /\ \/ /\ Len(loaded) = Len(trees) /\ Remaining(in) = 0 /\ in.pos = Len(in.data)
              \/ /\ Len(loaded) < Len(trees) /\ Remaining(in) # 0
                 /\ TreeAt(in.data, at[Len(loaded)], trees[Len(loaded) + 1])
<1>1. PICK n \in Nat : n = Len(trees) /\ \A k \in 1 .. n : SmallTree(trees[k])
  BY WorldsSmall
<1>2. /\ Placed(at, trees, n, world) /\ Received(in.data, at, trees, n)
      /\ in = Arch(in.data, at[Len(loaded)]) /\ Prefix(loaded, trees) /\ cur = Len(loaded)
  BY <1>1 DEF Merging
<1>3. PICK len \in Nat : len = Len(loaded) /\ len <= n
  BY <1>1, <1>2, SequenceIs DEF Prefix
<1>4. PICK size \in Nat : size = at[n] /\ size < WordMod
  <2>1. n \in 0 .. world
    BY <1>1
  <2> QED
    BY <1>2, <2>1 DEF Placed
<1>5. PICK p \in Nat : p = at[len] /\ p <= size
  <2>1. n \in 0 .. world /\ len \in 0 .. n /\ len \in 0 .. world
    BY <1>1, <1>3
  <2> QED
    BY <1>2, <1>4, <2>1 DEF Placed
<1>6. PICK d : d = in.data
  OBVIOUS
<1>7. IsSequence(d) /\ Len(d) = size
  BY <1>2, <1>4, <1>6 DEF Received
<1>8. Readable(d, p)
  BY <1>4, <1>5, <1>7 DEF Readable
<1>9. in.pos = p
  <2>1. in = [data |-> d, pos |-> p]
    BY <1>2, <1>3, <1>5, <1>6 DEF Arch
  <2> QED
    BY <2>1
<1>10. Remaining(in) = size - p
  BY <1>4, <1>5, <1>6, <1>7, <1>9, RemainingIs
<1>11. CASE len = n
  <2>1. p = size
    BY <1>4, <1>5, <1>11
  <2> QED
    BY <1>1, <1>3, <1>5, <1>6, <1>7, <1>8, <1>9, <1>10, <1>11, <2>1
<1>12. CASE len < n
  <2>1. len + 1 \in 1 .. n /\ (len + 1) - 1 = len
    BY <1>12
  <2>2. PICK tree : tree = trees[len + 1] /\ SmallTree(tree)
    BY <1>1, <2>1
  <2>3. TreeAt(d, at[(len + 1) - 1], trees[len + 1])
    BY <1>2, <1>6, <2>1 DEF Received
  <2>4. TreeAt(d, p, tree)
    BY <1>5, <2>1, <2>2, <2>3
  <2>5. TreeWidth(tree) \in Nat /\ TreeWidth(tree) > 0
    BY <2>2, TreeWidthIs DEF SmallTree
  <2>6. p + TreeWidth(tree) <= size
    BY <1>7, <2>4 DEF TreeAt
  <2>7. Remaining(in) # 0
    BY <1>10, <2>5, <2>6
  <2> QED
    BY <1>1, <1>3, <1>5, <1>6, <1>8, <1>12, <2>2, <2>4, <2>7
<1> QED
  BY <1>3, <1>11, <1>12

LEMMA MergeTreeStep == ASSUME ArchiveInv, MergeTree PROVE ArchiveInv'
<1>1. phase = "merge" /\ ~ Finished /\ UNCHANGED <<trees, world, sizes>> /\ cur' = cur + 1
  BY DEF MergeTree
<1>2. trees \in Worlds /\ world \in Nat /\ Len(trees) <= world /\ sizes = WidthsOf(trees, world)
  BY <1>1 DEF ArchiveInv, ExchangeInv
<1>3. PICK at : Merging(at)
  BY <1>1 DEF ArchiveInv, MergeInv
<1>4. PICK n \in Nat : n = Len(trees) /\ IsSequence(trees) /\ \A k \in 1 .. n : SmallTree(trees[k])
  BY <1>2, WorldsSmall
<1>5. PICK len \in Nat : len = Len(loaded)
  BY <1>2, <1>3, MergeAt
<1>6. PICK d, p : d = in.data /\ p = at[len]
  OBVIOUS
<1>7. len < n /\ Readable(d, p) /\ TreeAt(d, p, trees[len + 1])
  BY <1>1, <1>2, <1>3, <1>4, <1>5, <1>6, MergeAt DEF Finished
<1>8. /\ Placed(at, trees, n, world) /\ Received(d, at, trees, n)
      /\ in = Arch(d, p) /\ Prefix(loaded, trees) /\ cur = len
  BY <1>3, <1>4, <1>5, <1>6 DEF Merging
<1>9. len + 1 \in 1 .. n /\ (len + 1) - 1 = len
  BY <1>7
<1>10. PICK tree : tree = trees[len + 1] /\ SmallTree(tree)
  BY <1>4, <1>9
<1>11. PICK q : q = at[len + 1]
  OBVIOUS
<1>12. q = p + TreeWidth(tree)
  <2>1. at[len + 1] = at[(len + 1) - 1] + TreeWidth(trees[len + 1])
    BY <1>8, <1>9 DEF Placed
  <2> QED
    BY <1>6, <1>9, <1>10, <1>11, <2>1
<1>13. PICK got : got = GetTree(in)
  OBVIOUS
<1>14. Got(got, tree, d, q)
  <2>1. IsSequence(tree) /\ TreeAt(d, p, tree) /\ Readable(d, p)
    BY <1>7, <1>10 DEF SmallTree
  <2>2. Got(GetTree(Arch(d, p)), tree, d, q)
    BY <1>12, <2>1, GetTreeIs
  <2> QED
    BY <1>8, <1>13, <2>2
<1>15. got.ok = TRUE /\ got.value = tree /\ got.rest = Arch(d, q)
  BY <1>14 DEF Got
<1>16. in' = Arch(d, q) /\ loaded' = Append(loaded, tree) /\ phase' = "merge"
  BY <1>1, <1>13, <1>15 DEF MergeTree
<1>17. in'.data = d
  BY <1>16 DEF Arch
<1>18. Prefix(loaded', trees) /\ Len(loaded') = len + 1
  <2>1. Len(loaded) < Len(trees) /\ tree = trees[Len(loaded) + 1]
    BY <1>4, <1>5, <1>7, <1>10
  <2> QED
    BY <1>4, <1>5, <1>8, <1>16, <2>1, PrefixMore
<1>19. cur' = Len(loaded')
  BY <1>1, <1>8, <1>18
<1>20. in' = Arch(in'.data, at[Len(loaded')])
  BY <1>11, <1>16, <1>17, <1>18
<1>21. Merging(at)'
  BY <1>1, <1>4, <1>8, <1>17, <1>18, <1>19, <1>20 DEF Merging
<1>22. MergeInv'
  BY <1>21 DEF MergeInv
<1>23. (SaveInv /\ LoadInv /\ ExchangeInv /\ ArchivePhases)'
  BY <1>1, <1>2, <1>16 DEF SaveInv, LoadInv, ExchangeInv, ArchivePhases
<1> QED
  BY <1>22, <1>23 DEF ArchiveInv

LEMMA ArchiveStep == ASSUME ArchiveInv, [ArchiveNext]_archiveVars PROVE ArchiveInv'
<1>1. CASE SaveIndex
  <2>1. SaveInv' /\ LoadInv'
    BY <1>1, SaveStep DEF ArchiveInv
  <2>2. phase' = "save"
    BY <1>1 DEF SaveIndex
  <2> QED
    BY <2>1, <2>2 DEF ArchiveInv, ExchangeInv, MergeInv, ArchivePhases
<1>2. CASE StartLoad
  <2>1. SaveInv' /\ LoadInv'
    BY <1>2, StartStep DEF ArchiveInv
  <2>2. phase' = "load"
    BY <1>2 DEF StartLoad
  <2> QED
    BY <2>1, <2>2 DEF ArchiveInv, ExchangeInv, MergeInv, ArchivePhases
<1>3. CASE LoadIndex
  <2>1. SaveInv' /\ LoadInv' /\ phase' = "load"
    BY <1>3, LoadStep DEF ArchiveInv
  <2> QED
    BY <2>1 DEF ArchiveInv, ExchangeInv, MergeInv, ArchivePhases
<1>4. CASE GatherSizes
  BY <1>4, GatherSizesStep
<1>5. CASE GatherTrees
  BY <1>5, GatherTreesStep
<1>6. CASE MergeTree
  BY <1>6, MergeTreeStep
<1>7. CASE UNCHANGED archiveVars
  BY <1>7 DEF archiveVars, ArchiveInv, ArchivePhases, SaveInv, LoadInv, ExchangeInv, MergeInv, Merging
<1> QED
  BY <1>1, <1>2, <1>3, <1>4, <1>5, <1>6, <1>7 DEF ArchiveNext

LEMMA ArchiveSound == ASSUME ArchiveInv PROVE ArchivesComeBack
<1>1. phase # "load failed" /\ phase # "merge failed"
  BY DEF ArchiveInv, ArchivePhases
<1>2. IndicesComeBack
  BY <1>1, LoadSound DEF ArchiveInv
<1>3. ASSUME phase = "merge"
      PROVE  /\ loaded = SubSeq(trees, 1, Len(loaded))
             /\ Finished => loaded = trees /\ in.pos = Len(in.data)
  <2>1. trees \in Worlds /\ world \in Nat /\ Len(trees) <= world /\ sizes = WidthsOf(trees, world)
    BY <1>3 DEF ArchiveInv, ExchangeInv
  <2>2. PICK at : Merging(at)
    BY <1>3 DEF ArchiveInv, MergeInv
  <2>3. IsSequence(trees) /\ Prefix(loaded, trees) /\ cur = Len(loaded)
    BY <2>1, <2>2, WorldsSmall DEF Merging
  <2>4. loaded = SubSeq(trees, 1, Len(loaded)) /\ (Len(loaded) = Len(trees) => loaded = trees)
    BY <2>3, PrefixIs
  <2>5. Len(sizes) = world
    BY <2>1, WorldsSmall, WidthsIs
  <2>6. ASSUME Finished PROVE Len(loaded) = Len(trees) /\ in.pos = Len(in.data)
    <3>1. cur = world \/ Remaining(in) = 0
      BY <2>5, <2>6 DEF Finished
    <3>2. ~ Len(loaded) < Len(trees) \/ Remaining(in) = 0
      BY <2>1, <2>2, <2>3, <3>1, MergeAt
    <3> QED
      BY <2>1, <2>2, <3>2, MergeAt
  <2> QED
    BY <2>4, <2>6
<1> QED
  BY <1>1, <1>2, <1>3 DEF ArchivesComeBack, TreesComeInOrder

\* However many indices are saved to a ring one behind the other, load finds
\* each of them and reads it as it was (bb.hpp:357-370, 382-397); and the trees
\* that ranks exchange come out whole and in the order of the ranks (130-151).
THEOREM ArchivesAlwaysComeBack == ArchiveSpec => []ArchivesComeBack
<1>1. ArchiveInit => ArchiveInv
  BY ArchiveInitial
<1>2. ArchiveInv /\ [ArchiveNext]_archiveVars => ArchiveInv'
  BY ArchiveStep
<1>3. ArchiveInv => ArchivesComeBack
  BY ArchiveSound
<1> QED
  BY <1>1, <1>2, <1>3, PTL DEF ArchiveSpec

-----------------------------------------------------------------------------
(* Running statistics and clocks.  Of each rational a fraction that it is   *)
(* equal to is known, so that what a summary tells comes down to sums of   *)
(* integers: over n samples with the sum S and the sum of squares Q, the   *)
(* mean is S over n and the squared distances are n * Q - S * S over n.    *)


Rationals == Int \X (Nat \ {0})

\* a is p over q.
Is(a, p, q) == a \in Rationals /\ a[1] * q = p * a[2]

\* What it is made of, and arithmetic that the solver is told of by name.
LEMMA Pair ==
    ASSUME NEW a \in Rationals
    PROVE  a[1] \in Int /\ a[2] \in Nat /\ a[2] # 0 /\ a = <<a[1], a[2]>>
  BY DEF Rationals

LEMMA IsPair == ASSUME NEW p \in Int, NEW q \in Nat \ {0} PROVE Is(<<p, q>>, p, q)
  BY DEF Is, Rationals

LEMMA Positive ==
    ASSUME NEW x \in Nat, NEW y \in Nat, x # 0, y # 0
    PROVE  x * y \in Nat /\ x * y # 0
  OBVIOUS

LEMMA Cancel ==
    ASSUME NEW x \in Int, NEW y \in Int, NEW d \in Int, d # 0, x * d = y * d
    PROVE  x = y
  OBVIOUS

LEMMA CancelLess ==
    ASSUME NEW x \in Int, NEW y \in Int, NEW d \in Nat, d # 0, x * d <= y * d
    PROVE  x <= y
  OBVIOUS

\* The same number by another fraction.
LEMMA IsAlso ==
    ASSUME NEW a, NEW p \in Int, NEW q \in Nat \ {0}, Is(a, p, q),
           NEW r \in Int, NEW s \in Nat \ {0}, p * s = r * q
    PROVE  Is(a, r, s)
<1>1. a \in Rationals /\ a[1] * q = p * a[2]
  BY DEF Is
<1>2. PICK b \in Int, c \in Int : b = a[1] /\ c = a[2] /\ c # 0
  BY <1>1, Pair
<1>3. b * q = p * c
  BY <1>1, <1>2
<1>4. (b * s) * q = (r * c) * q
  <2>1. (b * s) * q = (b * q) * s
    OBVIOUS
  <2>2. (p * c) * s = (p * s) * c
    OBVIOUS
  <2>3. (r * q) * c = (r * c) * q
    OBVIOUS
  <2> QED
    BY <1>3, <2>1, <2>2, <2>3
<1>5. b * s \in Int /\ r * c \in Int
  OBVIOUS
<1>6. b * s = r * c
  BY <1>4, <1>5, Cancel
<1> QED
  BY <1>1, <1>2, <1>6 DEF Is

\* Two that are the same fraction are equal.
LEMMA SameNumber ==
    ASSUME NEW a, NEW b, NEW p \in Int, NEW q \in Nat \ {0}, Is(a, p, q), Is(b, p, q)
    PROVE  Equal(a, b)
<1>1. a \in Rationals /\ a[1] * q = p * a[2] /\ b \in Rationals /\ b[1] * q = p * b[2]
  BY DEF Is
<1>2. PICK c \in Int, d \in Int : c = a[1] /\ d = a[2] /\ d # 0
  BY <1>1, Pair
<1>3. PICK e \in Int, f \in Int : e = b[1] /\ f = b[2] /\ f # 0
  BY <1>1, Pair
<1>4. c * q = p * d /\ e * q = p * f
  BY <1>1, <1>2, <1>3
<1>5. (c * f) * q = (e * d) * q
  <2>1. (c * f) * q = (c * q) * f
    OBVIOUS
  <2>2. (p * d) * f = (p * f) * d
    OBVIOUS
  <2>3. (e * q) * d = (e * d) * q
    OBVIOUS
  <2> QED
    BY <1>4, <2>1, <2>2, <2>3
<1>6. c * f = e * d
  <2>1. c * f \in Int /\ e * d \in Int /\ q \in Int /\ q # 0
    BY <1>2, <1>3
  <2> QED
    BY <1>5, <2>1, Cancel
<1> QED
  BY <1>2, <1>3, <1>6 DEF Equal

\* The operations on fractions.
LEMMA PlusIs ==
    ASSUME NEW a, NEW b, NEW p \in Int, NEW q \in Nat \ {0}, Is(a, p, q),
           NEW r \in Int, NEW s \in Nat \ {0}, Is(b, r, s)
    PROVE  Is(Plus(a, b), p * s + r * q, q * s)
<1>1. a \in Rationals /\ a[1] * q = p * a[2] /\ b \in Rationals /\ b[1] * s = r * b[2]
  BY DEF Is
<1>2. PICK c \in Int, d \in Nat : c = a[1] /\ d = a[2] /\ d # 0
  BY <1>1, Pair
<1>3. PICK e \in Int, f \in Nat : e = b[1] /\ f = b[2] /\ f # 0
  BY <1>1, Pair
<1>4. c * q = p * d /\ e * s = r * f
  BY <1>1, <1>2, <1>3
<1>5. (c * f + e * d) * (q * s) = (p * s + r * q) * (d * f)
  <2>1. (c * f + e * d) * (q * s) = (c * q) * (f * s) + (e * s) * (d * q)
    OBVIOUS
  <2>2. (p * d) * (f * s) + (r * f) * (d * q) = (p * s + r * q) * (d * f)
    OBVIOUS
  <2> QED
    BY <1>4, <2>1, <2>2
<1>6. Plus(a, b) = <<c * f + e * d, d * f>>
  BY <1>2, <1>3 DEF Plus
<1>7. d * f \in Nat /\ d * f # 0
  BY <1>2, <1>3, Positive
<1>8. c * f + e * d \in Int
  BY <1>2, <1>3
<1> QED
  BY <1>5, <1>6, <1>7, <1>8 DEF Is, Rationals

LEMMA MinusIs ==
    ASSUME NEW a, NEW b, NEW p \in Int, NEW q \in Nat \ {0}, Is(a, p, q),
           NEW r \in Int, NEW s \in Nat \ {0}, Is(b, r, s)
    PROVE  Is(Minus(a, b), p * s - r * q, q * s)
<1>1. a \in Rationals /\ a[1] * q = p * a[2] /\ b \in Rationals /\ b[1] * s = r * b[2]
  BY DEF Is
<1>2. PICK c \in Int, d \in Nat : c = a[1] /\ d = a[2] /\ d # 0
  BY <1>1, Pair
<1>3. PICK e \in Int, f \in Nat : e = b[1] /\ f = b[2] /\ f # 0
  BY <1>1, Pair
<1>4. c * q = p * d /\ e * s = r * f
  BY <1>1, <1>2, <1>3
<1>5. (c * f - e * d) * (q * s) = (p * s - r * q) * (d * f)
  <2>1. (c * f - e * d) * (q * s) = (c * q) * (f * s) - (e * s) * (d * q)
    OBVIOUS
  <2>2. (p * d) * (f * s) - (r * f) * (d * q) = (p * s - r * q) * (d * f)
    OBVIOUS
  <2> QED
    BY <1>4, <2>1, <2>2
<1>6. Minus(a, b) = <<c * f - e * d, d * f>>
  BY <1>2, <1>3 DEF Minus
<1>7. d * f \in Nat /\ d * f # 0
  BY <1>2, <1>3, Positive
<1>8. c * f - e * d \in Int
  BY <1>2, <1>3
<1> QED
  BY <1>5, <1>6, <1>7, <1>8 DEF Is, Rationals

LEMMA TimesIs ==
    ASSUME NEW a, NEW b, NEW p \in Int, NEW q \in Nat \ {0}, Is(a, p, q),
           NEW r \in Int, NEW s \in Nat \ {0}, Is(b, r, s)
    PROVE  Is(Times(a, b), p * r, q * s)
<1>1. a \in Rationals /\ a[1] * q = p * a[2] /\ b \in Rationals /\ b[1] * s = r * b[2]
  BY DEF Is
<1>2. PICK c \in Int, d \in Nat : c = a[1] /\ d = a[2] /\ d # 0
  BY <1>1, Pair
<1>3. PICK e \in Int, f \in Nat : e = b[1] /\ f = b[2] /\ f # 0
  BY <1>1, Pair
<1>4. c * q = p * d /\ e * s = r * f
  BY <1>1, <1>2, <1>3
<1>5. (c * e) * (q * s) = (p * r) * (d * f)
  <2>1. (c * e) * (q * s) = (c * q) * (e * s)
    OBVIOUS
  <2>2. (p * d) * (r * f) = (p * r) * (d * f)
    OBVIOUS
  <2> QED
    BY <1>4, <2>1, <2>2
<1>6. Times(a, b) = <<c * e, d * f>>
  BY <1>2, <1>3 DEF Times
<1>7. d * f \in Nat /\ d * f # 0
  BY <1>2, <1>3, Positive
<1>8. c * e \in Int
  BY <1>2, <1>3
<1> QED
  BY <1>5, <1>6, <1>7, <1>8 DEF Is, Rationals

LEMMA DividedByIs ==
    ASSUME NEW a, NEW p \in Int, NEW q \in Nat \ {0}, Is(a, p, q), NEW n \in Nat \ {0}
    PROVE  Is(DividedBy(a, n), p, q * n)
<1>1. a \in Rationals /\ a[1] * q = p * a[2]
  BY DEF Is
<1>2. PICK c \in Int, d \in Nat : c = a[1] /\ d = a[2] /\ d # 0
  BY <1>1, Pair
<1>3. c * q = p * d
  BY <1>1, <1>2
<1>4. c * (q * n) = p * (d * n)
  <2>1. c * (q * n) = (c * q) * n
    OBVIOUS
  <2>2. p * (d * n) = (p * d) * n
    OBVIOUS
  <2> QED
    BY <1>3, <2>1, <2>2
<1>5. DividedBy(a, n) = <<c, d * n>>
  BY <1>2 DEF DividedBy
<1>6. d * n \in Nat /\ d * n # 0
  BY <1>2, Positive
<1> QED
  BY <1>2, <1>4, <1>5, <1>6 DEF Is, Rationals

\* Lowest terms: there is a largest divisor, for 1 is one.
LEMMA LargestDivisor ==
    ASSUME NEW a \in Rationals
    PROVE  \E d \in 1 .. a[2] : Divides(d, a) /\ \A e \in d + 1 .. a[2] : ~ Divides(e, a)
<1>1. PICK c \in Int, n \in Nat : c = a[1] /\ n = a[2] /\ n # 0
  BY Pair
<1> DEFINE Rest == {k \in Nat : n - k \in 1 .. n /\ Divides(n - k, a)}
<1>2. Rest \in SUBSET Nat
  OBVIOUS
<1>3. n - 1 \in Rest
  <2>1. c % 1 = 0 /\ n % 1 = 0
    OBVIOUS
  <2>2. n - 1 \in Nat /\ n - (n - 1) = 1
    BY <1>1
  <2> QED
    BY <1>1, <2>1, <2>2 DEF Divides
<1>4. PICK k \in Rest : \A m \in Rest : k <= m
  <2> HIDE DEF Rest
  <2> QED
    BY <1>2, <1>3, LeastNumber
<1>5. k \in Nat /\ n - k \in 1 .. n /\ Divides(n - k, a)
  BY <1>4
<1>6. ASSUME NEW e \in (n - k) + 1 .. n PROVE ~ Divides(e, a)
  <2>1. n - e \in Nat /\ n - (n - e) = e /\ e \in 1 .. n /\ ~ k <= n - e
    BY <1>1, <1>5
  <2>2. n - e \notin Rest
    <3> HIDE DEF Rest
    <3> QED
      BY <1>4, <2>1
  <2> QED
    BY <2>1, <2>2
<1> QED
  BY <1>1, <1>5, <1>6

\* What is divided is the same number.
LEMMA Quotient ==
    ASSUME NEW x \in Int, NEW d \in Nat, d # 0, x % d = 0
    PROVE  x \div d \in Int /\ x = d * (x \div d)
  OBVIOUS

LEMMA ReducedIs ==
    ASSUME NEW a, NEW p \in Int, NEW q \in Nat \ {0}, Is(a, p, q)
    PROVE  Is(Reduced(a), p, q)
<1>1. a \in Rationals /\ a[1] * q = p * a[2]
  BY DEF Is
<1>2. PICK c \in Int, n \in Nat : c = a[1] /\ n = a[2] /\ n # 0
  BY <1>1, Pair
<1>3. PICK d : d = CHOOSE b \in 1 .. a[2] : Divides(b, a) /\ \A e \in b + 1 .. a[2] : ~Divides(e, a)
  OBVIOUS
<1>4. d \in 1 .. a[2] /\ Divides(d, a)
  BY <1>1, <1>3, LargestDivisor
<1>5. Reduced(a) = <<a[1] \div d, a[2] \div d>>
  BY <1>3 DEF Reduced
<1>6. d \in Nat /\ d # 0 /\ c % d = 0 /\ n % d = 0
  BY <1>2, <1>4 DEF Divides
<1>7. PICK m \in Nat, e \in Int, f \in Int : m = d /\ e = c \div d /\ f = n \div d
  BY <1>6, Quotient
<1>8. c = m * e /\ n = m * f /\ m # 0
  <2>1. c \in Int /\ n \in Int
    OBVIOUS
  <2> QED
    BY <1>6, <1>7, <2>1, Quotient
<1>9. f \in Nat /\ f # 0
  BY <1>2, <1>8
<1>10. (e * q) * m = (p * f) * m
  <2>1. c * q = p * n
    BY <1>1, <1>2
  <2>2. (m * e) * q = (e * q) * m
    OBVIOUS
  <2>3. p * (m * f) = (p * f) * m
    OBVIOUS
  <2> QED
    BY <1>8, <2>1, <2>2, <2>3
<1>11. e * q = p * f
  <2>1. e * q \in Int /\ p * f \in Int /\ m \in Int
    OBVIOUS
  <2> QED
    BY <1>8, <1>10, <2>1, Cancel
<1>12. Reduced(a) = <<e, f>>
  BY <1>2, <1>5, <1>7
<1> QED
  BY <1>7, <1>9, <1>11, <1>12 DEF Is, Rationals

\* Which is less does not depend on the fractions.
LEMMA LessIs ==
    ASSUME NEW a, NEW b, NEW p \in Int, NEW q \in Nat \ {0}, Is(a, p, q),
           NEW r \in Int, NEW s \in Nat \ {0}, Is(b, r, s), ~ a[1] * b[2] < b[1] * a[2]
    PROVE  r * q <= p * s
<1>1. a \in Rationals /\ a[1] * q = p * a[2] /\ b \in Rationals /\ b[1] * s = r * b[2]
  BY DEF Is
<1>2. PICK c \in Int, d \in Nat : c = a[1] /\ d = a[2] /\ d # 0
  BY <1>1, Pair
<1>3. PICK e \in Int, f \in Nat : e = b[1] /\ f = b[2] /\ f # 0
  BY <1>1, Pair
<1>4. c * q = p * d /\ e * s = r * f /\ e * d <= c * f
  BY <1>1, <1>2, <1>3
<1>5. PICK h \in Nat, g \in Nat : h = q * s /\ h # 0 /\ g = d * f /\ g # 0
  BY <1>2, <1>3, Positive
<1>6. (e * d) * h <= (c * f) * h
  <2>1. PICK x \in Int, y \in Int : x = e * d /\ y = c * f
    OBVIOUS
  <2>2. x <= y
    BY <1>4, <2>1
  <2>3. x * h <= y * h
    BY <2>2
  <2> QED
    BY <2>1, <2>3
<1>7. (e * d) * h = (r * q) * g
  <2>1. (e * d) * (q * s) = (e * s) * (d * q)
    OBVIOUS
  <2>2. (r * f) * (d * q) = (r * q) * (d * f)
    OBVIOUS
  <2> QED
    BY <1>4, <1>5, <2>1, <2>2
<1>8. (c * f) * h = (p * s) * g
  <2>1. (c * f) * (q * s) = (c * q) * (f * s)
    OBVIOUS
  <2>2. (p * d) * (f * s) = (p * s) * (d * f)
    OBVIOUS
  <2> QED
    BY <1>4, <1>5, <2>1, <2>2
<1>9. PICK x \in Int, y \in Int : x = r * q /\ y = p * s
  OBVIOUS
<1>10. x * g <= y * g
  BY <1>6, <1>7, <1>8, <1>9
<1>11. x <= y
  BY <1>5, <1>10
<1> QED
  BY <1>9, <1>11

-----------------------------------------------------------------------------
(* Sums of integers, by their partial sums. *)

\* By induction, every place is in S.
LEMMA Reaches ==
    ASSUME NEW n \in Nat, NEW S, 0 \in S, \A k \in 1 .. n : k - 1 \in S => k \in S
    PROVE  \A k \in 0 .. n : k \in S
<1> DEFINE Missed == {k \in 0 .. n : k \notin S}
<1> SUFFICES ASSUME Missed # {} PROVE FALSE
  OBVIOUS
<1>1. Missed \in SUBSET Nat /\ Missed \subseteq 0 .. n
  OBVIOUS
<1>2. \A k \in Missed : k \notin S
  OBVIOUS
<1>3. \A k \in 0 .. n : k \notin Missed => k \in S
  OBVIOUS
<1> HIDE DEF Missed
<1>4. PICK k \in Missed : \A m \in Missed : k <= m
  BY <1>1, LeastNumber
<1>5. k \in 1 .. n /\ k - 1 \in 0 .. n /\ ~ k <= k - 1
  BY <1>1, <1>2, <1>4
<1> QED
  BY <1>2, <1>3, <1>4, <1>5

\* The partial sums of n items.
Sums(run, items, n) ==
    run \in [0 .. n -> Int] /\ run[0] = 0 /\ \A k \in 1 .. n : run[k] = run[k - 1] + items[k]

LEMMA SumsOf ==
    ASSUME NEW n \in Nat, NEW items \in [1 .. n -> Int]
    PROVE  \E run : Sums(run, items, n)
<1>1. PICK r : Running("sum", r, 0, items, n)
  BY RunExists
<1>2. r[0] = 0 /\ \A k \in 1 .. n : r[k] = r[k - 1] + items[k]
  BY <1>1 DEF Running, FoldStep
<1> DEFINE S == {k \in 0 .. n : r[k] \in Int}
<1>3. 0 \in S
  BY <1>2
<1>4. ASSUME NEW k \in 1 .. n, k - 1 \in S PROVE k \in S
  <2>1. k \in 0 .. n /\ r[k - 1] \in Int /\ items[k] \in Int
    BY <1>4
  <2> QED
    BY <1>2, <2>1
<1>5. \A k \in 0 .. n : k \in S
  <2> HIDE DEF S
  <2> QED
    BY <1>3, <1>4, Reaches
<1>6. PICK run : run = [k \in 0 .. n |-> r[k]]
  OBVIOUS
<1>7. run \in [0 .. n -> Int]
  BY <1>5, <1>6
<1>8. run[0] = 0
  BY <1>2, <1>6
<1>9. ASSUME NEW k \in 1 .. n PROVE run[k] = run[k - 1] + items[k]
  <2>1. k \in 0 .. n /\ k - 1 \in 0 .. n
    OBVIOUS
  <2> QED
    BY <1>2, <1>6, <2>1
<1> QED
  BY <1>7, <1>8, <1>9 DEF Sums

\* IntegerSum is the last of them.
LEMMA IntegerSumIs ==
    ASSUME NEW n \in Nat, NEW items, DOMAIN items = 1 .. n, NEW run, Sums(run, items, n)
    PROVE  IntegerSum(items) = run[n]
<1>1. Running("sum", run, 0, items, n)
  BY DEF Sums, Running, FoldStep
<1> QED
  BY <1>1, TotalFold DEF IntegerSum

LEMMA SumsLast ==
    ASSUME NEW n \in Nat, NEW items, NEW run, Sums(run, items, n)
    PROVE  run[n] \in Int /\ run[0] = 0
  BY DEF Sums

\* A sum of what is put together from other items, of each as much.
Mixed(p, P, n, a, u, U, b, v, V, c, w, W) ==
    /\ n \in Nat /\ a \in Int /\ b \in Int /\ c \in Int
    /\ u \in [1 .. n -> Int] /\ v \in [1 .. n -> Int] /\ w \in [1 .. n -> Int]
    /\ \A i \in 1 .. n : p[i] = a * u[i] + b * v[i] + c * w[i]
    /\ Sums(P, p, n) /\ Sums(U, u, n) /\ Sums(V, v, n) /\ Sums(W, w, n)

LEMMA MixedSums ==
    ASSUME NEW p, NEW P, NEW n, NEW a, NEW u, NEW U, NEW b, NEW v, NEW V, NEW c, NEW w, NEW W,
           Mixed(p, P, n, a, u, U, b, v, V, c, w, W)
    PROVE  P[n] = a * U[n] + b * V[n] + c * W[n]
<1>0. /\ n \in Nat /\ a \in Int /\ b \in Int /\ c \in Int
      /\ u \in [1 .. n -> Int] /\ v \in [1 .. n -> Int] /\ w \in [1 .. n -> Int]
      /\ \A i \in 1 .. n : p[i] = a * u[i] + b * v[i] + c * w[i]
      /\ Sums(P, p, n) /\ Sums(U, u, n) /\ Sums(V, v, n) /\ Sums(W, w, n)
  BY DEF Mixed
<1> DEFINE S == {k \in 0 .. n : P[k] = a * U[k] + b * V[k] + c * W[k]}
<1>1. 0 \in S
  <2>1. P[0] = 0 /\ U[0] = 0 /\ V[0] = 0 /\ W[0] = 0
    BY <1>0 DEF Sums
  <2> QED
    BY <1>0, <2>1
<1>2. ASSUME NEW k \in 1 .. n, k - 1 \in S PROVE k \in S
  <2>1. P[k] = P[k - 1] + p[k] /\ U[k] = U[k - 1] + u[k] /\ V[k] = V[k - 1] + v[k] /\ W[k] = W[k - 1] + w[k]
    BY <1>0 DEF Sums
  <2>2. P[k - 1] = a * U[k - 1] + b * V[k - 1] + c * W[k - 1] /\ k \in 0 .. n
    BY <1>0, <1>2
  <2>3. p[k] = a * u[k] + b * v[k] + c * w[k]
    BY <1>0
  <2>4. k - 1 \in 0 .. n
    BY <1>0
  <2>5. PICK x \in Int, y \in Int, z \in Int : x = U[k - 1] /\ y = V[k - 1] /\ z = W[k - 1]
    BY <1>0, <2>4 DEF Sums
  <2>6. PICK d \in Int, e \in Int, f \in Int : d = u[k] /\ e = v[k] /\ f = w[k]
    BY <1>0
  <2>7. PICK g \in Int, h \in Int, i \in Int : g = a /\ h = b /\ i = c
    BY <1>0
  <2>9. (g * x + h * y + i * z) + (g * d + h * e + i * f) = g * (x + d) + h * (y + e) + i * (z + f)
    OBVIOUS
  <2>8. P[k] = a * U[k] + b * V[k] + c * W[k]
    BY <2>1, <2>2, <2>3, <2>5, <2>6, <2>7, <2>9
  <2> QED
    BY <2>2, <2>8
<1>3. \A k \in 0 .. n : k \in S
  <2> HIDE DEF S
  <2> QED
    BY <1>0, <1>1, <1>2, Reaches
<1> QED
  BY <1>0, <1>3

\* Smaller items have the smaller sum.
LEMMA LessSums ==
    ASSUME NEW n \in Nat, NEW p \in [1 .. n -> Int], NEW u \in [1 .. n -> Int], \A i \in 1 .. n : p[i] <= u[i],
           NEW P, NEW U, Sums(P, p, n), Sums(U, u, n)
    PROVE  P[n] <= U[n]
<1> DEFINE S == {k \in 0 .. n : P[k] <= U[k]}
<1>1. 0 \in S
  BY DEF Sums
<1>2. ASSUME NEW k \in 1 .. n, k - 1 \in S PROVE k \in S
  <2>1. P[k] = P[k - 1] + p[k] /\ U[k] = U[k - 1] + u[k]
    BY DEF Sums
  <2>2. P[k - 1] <= U[k - 1] /\ k \in 0 .. n
    BY <1>2
  <2>3. k - 1 \in 0 .. n
    OBVIOUS
  <2>4. P[k - 1] \in Int /\ U[k - 1] \in Int
    BY <2>3 DEF Sums
  <2>5. p[k] \in Int /\ u[k] \in Int /\ p[k] <= u[k]
    OBVIOUS
  <2> QED
    BY <2>1, <2>2, <2>4, <2>5
<1>3. \A k \in 0 .. n : k \in S
  <2> HIDE DEF S
  <2> QED
    BY <1>1, <1>2, Reaches
<1> QED
  BY <1>3

\* Nothing negative: no item is more than the sum.
LEMMA PartOfSum ==
    ASSUME NEW n \in Nat, NEW p \in [1 .. n -> Int], \A i \in 1 .. n : 0 <= p[i], NEW P, Sums(P, p, n), NEW j \in 1 .. n
    PROVE  p[j] <= P[n]
<1> DEFINE S == {k \in 0 .. n : 0 <= P[k] /\ (j <= k => p[j] <= P[k])}
<1>1. 0 \in S
  BY DEF Sums
<1>2. ASSUME NEW k \in 1 .. n, k - 1 \in S PROVE k \in S
  <2>1. P[k] = P[k - 1] + p[k]
    BY DEF Sums
  <2>2. 0 <= P[k - 1] /\ (j <= k - 1 => p[j] <= P[k - 1]) /\ k \in 0 .. n
    BY <1>2
  <2>3. k - 1 \in 0 .. n
    OBVIOUS
  <2>4. P[k - 1] \in Int
    BY <2>3 DEF Sums
  <2>5. p[k] \in Int /\ 0 <= p[k] /\ p[j] \in Int
    OBVIOUS
  <2>6. 0 <= P[k]
    BY <2>1, <2>2, <2>4, <2>5
  <2>7. ASSUME j <= k PROVE p[j] <= P[k]
    <3>1. CASE j = k
      BY <2>1, <2>2, <2>4, <2>5, <3>1
    <3>2. CASE j # k
      <4>1. j <= k - 1
        BY <2>7, <3>2
      <4> QED
        BY <2>1, <2>2, <2>4, <2>5, <4>1
    <3> QED
      BY <3>1, <3>2
  <2> QED
    BY <2>2, <2>6, <2>7
<1>3. \A k \in 0 .. n : k \in S
  <2> HIDE DEF S
  <2> QED
    BY <1>1, <1>2, Reaches
<1>4. n \in S
  <2> HIDE DEF S
  <2> QED
    BY <1>3
<1> QED
  BY <1>4

\* The items of two sequences, one after the other.
Follows(w, W, l, u, U, n, v, V, m) ==
    /\ n \in Nat /\ m \in Nat /\ l \in Nat /\ l = n + m
    /\ u \in [1 .. n -> Int] /\ v \in [1 .. m -> Int] /\ w \in [1 .. l -> Int]
    /\ \A i \in 1 .. n : w[i] = u[i]
    /\ \A i \in 1 .. m : w[n + i] = v[i]
    /\ Sums(U, u, n) /\ Sums(V, v, m) /\ Sums(W, w, l)

LEMMA JoinedSums ==
    ASSUME NEW w, NEW W, NEW l, NEW u, NEW U, NEW n, NEW v, NEW V, NEW m, Follows(w, W, l, u, U, n, v, V, m)
    PROVE  W[l] = U[n] + V[m]
<1>0. n \in Nat /\ m \in Nat /\ l \in Nat /\ l = n + m
  BY DEF Follows
<1>8. u \in [1 .. n -> Int] /\ v \in [1 .. m -> Int] /\ w \in [1 .. l -> Int]
  BY DEF Follows
<1>9. (\A i \in 1 .. n : w[i] = u[i]) /\ \A i \in 1 .. m : w[n + i] = v[i]
  BY DEF Follows
<1>10. Sums(U, u, n) /\ Sums(V, v, m) /\ Sums(W, w, l)
  BY DEF Follows
<1> DEFINE S == {k \in 0 .. n : W[k] = U[k]}
<1> DEFINE T == {k \in 0 .. m : W[n + k] = U[n] + V[k]}
<1>1. 0 \in S
  BY <1>0, <1>10 DEF Sums
<1>2. ASSUME NEW k \in 1 .. n, k - 1 \in S PROVE k \in S
  <2>1. k \in 1 .. l
    BY <1>0
  <2>2. W[k] = W[k - 1] + w[k] /\ U[k] = U[k - 1] + u[k]
    BY <1>10, <2>1 DEF Sums
  <2> QED
    BY <1>0, <1>2, <1>9, <2>2
<1>3. \A k \in 0 .. n : k \in S
  <2> HIDE DEF S
  <2> QED
    BY <1>0, <1>1, <1>2, Reaches
<1>4. W[n] = U[n] /\ U[n] \in Int
  BY <1>0, <1>3, <1>10 DEF Sums
<1>5. 0 \in T
  BY <1>0, <1>4, <1>10 DEF Sums
<1>6. ASSUME NEW k \in 1 .. m, k - 1 \in T PROVE k \in T
  <2>1. PICK j \in 1 .. l : j = n + k
    BY <1>0
  <2>2. W[j] = W[j - 1] + w[j] /\ V[k] = V[k - 1] + v[k]
    BY <1>10 DEF Sums
  <2>3. j - 1 = n + (k - 1) /\ k - 1 \in 0 .. m
    BY <1>0, <2>1
  <2>4. W[j - 1] = U[n] + V[k - 1] /\ V[k - 1] \in Int /\ v[k] \in Int /\ w[j] = v[k]
    BY <1>0, <1>6, <1>8, <1>9, <1>10, <2>1, <2>3 DEF Sums
  <2> QED
    BY <1>0, <1>4, <2>1, <2>2, <2>4
<1>7. \A k \in 0 .. m : k \in T
  <2> HIDE DEF T
  <2> QED
    BY <1>0, <1>5, <1>6, Reaches
<1> QED
  BY <1>0, <1>7

\* A sum of rationals with one denominator.
LEMMA RationalSumIs ==
    ASSUME NEW n \in Nat, NEW items, DOMAIN items = 1 .. n, NEW p \in [1 .. n -> Int], NEW q \in Nat \ {0},
           \A i \in 1 .. n : Is(items[i], p[i], q), NEW P, Sums(P, p, n)
    PROVE  Is(RationalSum(items), P[n], q)
<1>1. PICK r : Running("plus", r, Rational(0), items, n)
  BY RunExists
<1>2. r[0] = Rational(0) /\ \A k \in 1 .. n : r[k] = Reduced(Plus(r[k - 1], items[k]))
  BY <1>1 DEF Running, FoldStep
<1> DEFINE S == {k \in 0 .. n : Is(r[k], P[k], q)}
<1>3. 0 \in S
  <2>1. Is(Rational(0), 0, 1)
    <3>1. Is(<<0, 1>>, 0, 1)
      BY IsPair
    <3> QED
      BY <3>1 DEF Rational
  <2>2. Is(Rational(0), 0, q)
    BY <2>1, IsAlso
  <2> QED
    BY <1>2, <2>2 DEF Sums
<1>4. ASSUME NEW k \in 1 .. n, k - 1 \in S PROVE k \in S
  <2>1. k - 1 \in 0 .. n /\ k \in 0 .. n /\ Is(r[k - 1], P[k - 1], q)
    BY <1>4
  <2>2. PICK x \in Int, y \in Int : x = P[k - 1] /\ y = p[k]
    BY <2>1 DEF Sums
  <2>3. P[k] = x + y
    BY <2>2 DEF Sums
  <2>4. Is(r[k - 1], x, q) /\ Is(items[k], y, q)
    BY <2>1, <2>2
  <2>5. q * q \in Nat \ {0}
    OBVIOUS
  <2>6. Is(Plus(r[k - 1], items[k]), x * q + y * q, q * q)
    BY <2>4, PlusIs
  <2>7. (x * q + y * q) * q = (x + y) * (q * q)
    OBVIOUS
  <2>8. Is(Plus(r[k - 1], items[k]), x + y, q)
    BY <2>5, <2>6, <2>7, IsAlso
  <2>9. Is(Reduced(Plus(r[k - 1], items[k])), x + y, q)
    BY <2>8, ReducedIs
  <2> QED
    BY <1>2, <2>1, <2>3, <2>9
<1>5. \A k \in 0 .. n : k \in S
  <2> HIDE DEF S
  <2> QED
    BY <1>3, <1>4, Reaches
<1>6. RationalSum(items) = r[n]
  BY <1>1, PlusFold DEF RationalSum
<1> QED
  BY <1>5, <1>6

-----------------------------------------------------------------------------
(* What a summary is to tell *)

Squares(xs) == [i \in 1 .. Len(xs) |-> xs[i] * xs[i]]

\* S is the sum of xs and Q that of their squares.
Moments(xs, S, Q) ==
    /\ xs \in Seq(Int)
    /\ \E U, V : Sums(U, xs, Len(xs)) /\ Sums(V, Squares(xs), Len(xs)) /\ S = U[Len(xs)] /\ Q = V[Len(xs)]

\* Summary w tells the mean and the squared distances of n samples with these sums.
Tells(w, n, S, Q) ==
    /\ w.n = n
    /\ n = 0 => Is(w.mean, 0, 1) /\ Is(w.m2, 0, 1)
    /\ n # 0 => Is(w.mean, S, n) /\ Is(w.m2, n * Q - S * S, n)

LEMMA SquaresAre ==
    ASSUME NEW xs \in Seq(Int)
    PROVE  /\ xs \in [1 .. Len(xs) -> Int] /\ DOMAIN xs = 1 .. Len(xs) /\ Len(xs) \in Nat
           /\ Squares(xs) \in [1 .. Len(xs) -> Int] /\ DOMAIN Squares(xs) = 1 .. Len(xs)
  BY DEF Squares

\* Sequences have them: the empty one, one item, two put together and one made longer.
LEMMA MomentsOf ==
    ASSUME NEW xs \in Seq(Int)
    PROVE  \E S \in Int, Q \in Int : Moments(xs, S, Q)
<1>1. PICK n \in Nat : n = Len(xs)
  OBVIOUS
<1>2. xs \in [1 .. n -> Int] /\ Squares(xs) \in [1 .. n -> Int]
  BY <1>1, SquaresAre
<1>3. PICK U : Sums(U, xs, n)
  BY <1>2, SumsOf
<1>4. PICK V : Sums(V, Squares(xs), n)
  BY <1>2, SumsOf
<1>5. U[n] \in Int /\ V[n] \in Int
  BY <1>3, <1>4, SumsLast
<1>6. Moments(xs, U[n], V[n])
  BY <1>1, <1>3, <1>4 DEF Moments
<1> QED
  BY <1>5, <1>6

LEMMA MomentsAre ==
    ASSUME NEW xs, NEW S, NEW Q, Moments(xs, S, Q)
    PROVE  xs \in Seq(Int) /\ S \in Int /\ Q \in Int /\ S = IntegerSum(xs)
<1>1. xs \in Seq(Int)
  BY DEF Moments
<1>2. PICK n \in Nat : n = Len(xs)
  BY <1>1
<1>3. PICK U, V : Sums(U, xs, n) /\ Sums(V, Squares(xs), n) /\ S = U[n] /\ Q = V[n]
  BY <1>2 DEF Moments
<1>4. S \in Int /\ Q \in Int
  BY <1>3, SumsLast
<1>5. IntegerSum(xs) = U[n]
  <2>1. DOMAIN xs = 1 .. n
    BY <1>1, <1>2
  <2> QED
    BY <1>3, <2>1, IntegerSumIs
<1> QED
  BY <1>1, <1>3, <1>4, <1>5

LEMMA NoMoments == Moments(<<>>, 0, 0)
<1>1. <<>> \in Seq(Int) /\ Len(<<>>) = 0
  OBVIOUS
<1>2. PICK U : Sums(U, <<>>, 0)
  BY <1>1, SquaresAre, SumsOf
<1>3. PICK V : Sums(V, Squares(<<>>), 0)
  BY <1>1, SquaresAre, SumsOf
<1>4. U[0] = 0 /\ V[0] = 0
  BY <1>2, <1>3, SumsLast
<1> QED
  BY <1>1, <1>2, <1>3, <1>4 DEF Moments

LEMMA OneMoment == ASSUME NEW x \in Int PROVE Moments(<<x>>, x, x * x)
<1>1. <<x>> \in Seq(Int) /\ Len(<<x>>) = 1 /\ <<x>>[1] = x /\ 1 \in 1 .. 1 /\ 1 \in Nat
  OBVIOUS
<1>2. PICK U : Sums(U, <<x>>, 1)
  <2>1. <<x>> \in [1 .. 1 -> Int]
    BY <1>1, SquaresAre
  <2> QED
    BY <1>1, <2>1, SumsOf
<1>3. PICK V : Sums(V, Squares(<<x>>), 1)
  <2>1. Squares(<<x>>) \in [1 .. 1 -> Int]
    BY <1>1, SquaresAre
  <2> QED
    BY <1>1, <2>1, SumsOf
<1>4. U[1] = U[0] + x /\ U[0] = 0
  BY <1>1, <1>2 DEF Sums
<1>5. V[1] = V[0] + x * x /\ V[0] = 0
  <2>1. Squares(<<x>>)[1] = x * x
    BY <1>1 DEF Squares
  <2> QED
    BY <1>1, <1>3, <2>1 DEF Sums
<1>6. x * x \in Int
  OBVIOUS
<1>7. U[1] = x /\ V[1] = x * x
  BY <1>4, <1>5, <1>6
<1> QED
  BY <1>1, <1>2, <1>3, <1>7 DEF Moments

LEMMA JoinedMoments ==
    ASSUME NEW xs, NEW S, NEW Q, Moments(xs, S, Q), NEW ys, NEW T, NEW R, Moments(ys, T, R)
    PROVE  Moments(xs \o ys, S + T, Q + R)
<1>1. xs \in Seq(Int) /\ ys \in Seq(Int)
  BY DEF Moments
<1>2. PICK n \in Nat, m \in Nat : n = Len(xs) /\ m = Len(ys)
  BY <1>1
<1>3. PICK U, V : Sums(U, xs, n) /\ Sums(V, Squares(xs), n) /\ S = U[n] /\ Q = V[n]
  BY <1>2 DEF Moments
<1>4. PICK X, Y : Sums(X, ys, m) /\ Sums(Y, Squares(ys), m) /\ T = X[m] /\ R = Y[m]
  BY <1>2 DEF Moments
<1>5. PICK zs : zs = xs \o ys
  OBVIOUS
<1>20. PICK l \in Nat : l = n + m
  OBVIOUS
<1>6. /\ zs \in Seq(Int) /\ Len(zs) = l
      /\ \A i \in 1 .. n : zs[i] = xs[i]
      /\ \A i \in 1 .. m : zs[n + i] = ys[i]
  BY <1>1, <1>2, <1>5, <1>20
<1>7. /\ \A i \in 1 .. n : Squares(zs)[i] = Squares(xs)[i]
      /\ \A i \in 1 .. m : Squares(zs)[n + i] = Squares(ys)[i]
  <2>1. ASSUME NEW i \in 1 .. n PROVE Squares(zs)[i] = Squares(xs)[i]
    <3>1. i \in 1 .. l /\ zs[i] = xs[i]
      BY <1>20, <1>6
    <3> QED
      BY <1>2, <1>6, <3>1 DEF Squares
  <2>2. ASSUME NEW i \in 1 .. m PROVE Squares(zs)[n + i] = Squares(ys)[i]
    <3>1. n + i \in 1 .. l /\ zs[n + i] = ys[i]
      BY <1>20, <1>6
    <3> QED
      BY <1>2, <1>6, <3>1 DEF Squares
  <2> QED
    BY <2>1, <2>2
<1>8. /\ xs \in [1 .. n -> Int] /\ Squares(xs) \in [1 .. n -> Int]
      /\ ys \in [1 .. m -> Int] /\ Squares(ys) \in [1 .. m -> Int]
      /\ zs \in [1 .. l -> Int] /\ Squares(zs) \in [1 .. l -> Int]
  BY <1>1, <1>2, <1>6, SquaresAre
<1>9. PICK W : Sums(W, zs, l)
  BY <1>8, SumsOf
<1>10. PICK Z : Sums(Z, Squares(zs), l)
  BY <1>8, SumsOf
<1>11. W[l] = U[n] + X[m]
  <2>1. Follows(zs, W, l, xs, U, n, ys, X, m)
    BY <1>3, <1>4, <1>6, <1>8, <1>9, <1>20 DEF Follows
  <2> QED
    BY <2>1, JoinedSums
<1>12. Z[l] = V[n] + Y[m]
  <2>1. Follows(Squares(zs), Z, l, Squares(xs), V, n, Squares(ys), Y, m)
    BY <1>3, <1>4, <1>7, <1>8, <1>10, <1>20 DEF Follows
  <2> QED
    BY <2>1, JoinedSums
<1> QED
  BY <1>3, <1>4, <1>5, <1>6, <1>9, <1>10, <1>11, <1>12 DEF Moments

LEMMA AppendedMoments ==
    ASSUME NEW xs, NEW S, NEW Q, Moments(xs, S, Q), NEW x \in Int
    PROVE  Moments(Append(xs, x), S + x, Q + x * x)
<1>1. xs \in Seq(Int)
  BY DEF Moments
<1>2. Append(xs, x) = xs \o <<x>>
  BY <1>1
<1> QED
  BY <1>2, OneMoment, JoinedMoments

\* The squares of the distances from the mean, over the square of the length.
Distances(xs, S, n) == [i \in 1 .. n |-> (xs[i] * n - S) * (xs[i] * n - S)]

LEMMA DistancesAre ==
    ASSUME NEW xs, NEW S, NEW Q, Moments(xs, S, Q)
    PROVE  /\ Distances(xs, S, Len(xs)) \in [1 .. Len(xs) -> Int]
           /\ \E P : Sums(P, Distances(xs, S, Len(xs)), Len(xs)) /\ P[Len(xs)] = Len(xs) * (Len(xs) * Q - S * S)
<1>20. xs \in Seq(Int)
  BY DEF Moments
<1>21. PICK n \in Nat : n = Len(xs)
  BY <1>20
<1>22. PICK p : p = Distances(xs, S, n)
  OBVIOUS
<1>1. xs \in Seq(Int) /\ S \in Int /\ Q \in Int
  BY MomentsAre
<1>2. PICK U, V : Sums(U, xs, n) /\ Sums(V, Squares(xs), n) /\ S = U[n] /\ Q = V[n]
  BY <1>21 DEF Moments
<1>3. xs \in [1 .. n -> Int] /\ Squares(xs) \in [1 .. n -> Int]
  BY <1>1, <1>21, SquaresAre
<1>4. p \in [1 .. n -> Int]
  <2>1. \A i \in 1 .. n : (xs[i] * n - S) * (xs[i] * n - S) \in Int
    BY <1>1, <1>3
  <2> QED
    BY <1>22, <2>1 DEF Distances
<1>5. PICK P : Sums(P, p, n)
  BY <1>4, SumsOf
<1>6. PICK ones : ones = [i \in 1 .. n |-> 1]
  OBVIOUS
<1>7. PICK W : W = [k \in 0 .. n |-> k]
  OBVIOUS
<1>8. Sums(W, ones, n)
  <2>1. W \in [0 .. n -> Int] /\ W[0] = 0
    BY <1>7
  <2>2. ASSUME NEW k \in 1 .. n PROVE W[k] = W[k - 1] + ones[k]
    BY <1>6, <1>7
  <2> QED
    BY <2>1, <2>2 DEF Sums
<1>9. PICK a \in Int, b \in Int, c \in Int : a = n * n /\ b = -2 * (n * S) /\ c = S * S
  BY <1>1
<1>10. Mixed(p, P, n, a, Squares(xs), V, b, xs, U, c, ones, W)
  <2>1. ASSUME NEW i \in 1 .. n PROVE p[i] = a * Squares(xs)[i] + b * xs[i] + c * ones[i]
    <3>1. PICK x \in Int : x = xs[i]
      BY <1>3
    <3>2. Squares(xs)[i] = x * x
      BY <1>21, <3>1 DEF Squares
    <3>3. ones[i] = 1
      BY <1>6
    <3>4. p[i] = (x * n - S) * (x * n - S)
      BY <1>22, <3>1 DEF Distances
    <3>5. PICK s \in Int : s = S
      BY <1>1
    <3>6. (x * n - s) * (x * n - s) = (n * n) * (x * x) + (-2 * (n * s)) * x + (s * s) * 1
      OBVIOUS
    <3> QED
      BY <1>9, <3>1, <3>2, <3>3, <3>4, <3>5, <3>6
  <2>2. Sums(P, p, n) /\ Sums(U, xs, n) /\ Sums(V, Squares(xs), n) /\ Sums(W, ones, n)
    BY <1>2, <1>5, <1>8
  <2>3. ones \in [1 .. n -> Int]
    BY <1>6
  <2>4. a \in Int /\ b \in Int /\ c \in Int /\ n \in Nat
    BY <1>9, <1>21
  <2> QED
    BY <1>3, <2>1, <2>2, <2>3, <2>4 DEF Mixed
<1>11. P[n] = a * V[n] + b * U[n] + c * W[n]
  BY <1>10, MixedSums
<1>12. P[n] = n * (n * Q - S * S)
  <2>1. PICK s \in Int, q \in Int : s = S /\ q = Q
    BY <1>1
  <2>2. W[n] = n
    BY <1>7
  <2>3. (n * n) * q + (-2 * (n * s)) * s + (s * s) * n = n * (n * q - s * s)
    OBVIOUS
  <2> QED
    BY <1>2, <1>9, <1>11, <2>1, <2>2, <2>3
<1> QED
  BY <1>4, <1>5, <1>12, <1>21, <1>22

LEMMA EmptyTells == ASSUME NEW S, NEW Q PROVE Tells(EmptySummary, 0, S, Q)
<1>1. Is(Rational(0), 0, 1)
  BY IsPair DEF Rational
<1> QED
  BY <1>1 DEF Tells, EmptySummary

LEMMA RationalIs == ASSUME NEW x \in Int PROVE Is(Rational(x), x, 1)
  BY IsPair DEF Rational

\* The new mean and the new squared distances, of a summary with samples.
LEMMA MeanMoves ==
    ASSUME NEW mean, NEW S \in Int, NEW n \in Nat \ {0}, Is(mean, S, n), NEW x \in Int, NEW k, k = n + 1
    PROVE  /\ Is(Minus(Rational(x), mean), x * n - S, n)
           /\ Is(Reduced(Plus(mean, DividedBy(Minus(Rational(x), mean), k))), S + x, k)
<1>1. k \in Nat \ {0}
  OBVIOUS
<1>2. PICK delta : delta = Minus(Rational(x), mean)
  OBVIOUS
<1>3. PICK p \in Int : p = x * n - S
  OBVIOUS
<1>4. Is(delta, p, n)
  <2>1. PICK o \in Nat \ {0} : o = 1
    OBVIOUS
  <2>2. Is(Rational(x), x, o)
    BY <2>1, RationalIs
  <2>3. Is(delta, x * n - S * o, o * n)
    BY <1>2, <2>1, <2>2, MinusIs
  <2>4. x * n - S * o = p /\ o * n = n
    BY <1>3, <2>1
  <2> QED
    BY <2>3, <2>4
<1>5. Is(DividedBy(delta, k), p, n * k)
  BY <1>1, <1>4, DividedByIs
<1>6. PICK m \in Nat \ {0} : m = n * k
  BY <1>1, Positive
<1>7. Is(Plus(mean, DividedBy(delta, k)), S * m + p * n, n * m)
  <2>1. Is(DividedBy(delta, k), p, m)
    BY <1>5, <1>6
  <2> QED
    BY <2>1, PlusIs
<1>8. PICK l \in Nat \ {0} : l = n * m
  BY Positive
<1>9. (S * m + p * n) * k = (S + x) * l
  <2>1. PICK j \in Int : j = k /\ j = n + 1
    BY <1>1
  <2>2. (S * (n * j) + (x * n - S) * n) * j = (S + x) * (n * (n * j))
    <3>1. (S * (n * (n + 1)) + (x * n - S) * n) * (n + 1) = (S + x) * (n * (n * (n + 1)))
      OBVIOUS
    <3> QED
      BY <2>1, <3>1
  <2> QED
    BY <1>3, <1>6, <1>8, <2>1, <2>2
<1>10. Is(Plus(mean, DividedBy(delta, k)), S + x, k)
  <2>1. PICK r \in Int, s \in Int : r = S * m + p * n /\ s = S + x
    OBVIOUS
  <2>2. Is(Plus(mean, DividedBy(delta, k)), r, l) /\ r * k = s * l
    BY <1>7, <1>8, <1>9, <2>1
  <2>3. Is(Plus(mean, DividedBy(delta, k)), s, k)
    BY <1>1, <2>2, IsAlso
  <2> QED
    BY <2>1, <2>3
<1>11. Is(Reduced(Plus(mean, DividedBy(delta, k))), S + x, k)
  BY <1>1, <1>10, ReducedIs
<1> QED
  BY <1>2, <1>3, <1>4, <1>11

\* The identity that the recurrence for m2_ rests on.
LEMMA DistancesGrow ==
    ASSUME NEW n \in Int, NEW S \in Int, NEW Q \in Int, NEW x \in Int, NEW k \in Int, k = n + 1
    PROVE  (n * Q - S * S) * k + (x * n - S) * (x * n - S) = n * (k * (Q + x * x) - (S + x) * (S + x))
<1>1. (n * Q - S * S) * (n + 1) + (x * n - S) * (x * n - S) = n * ((n + 1) * (Q + x * x) - (S + x) * (S + x))
  OBVIOUS
<1> QED
  BY <1>1

LEMMA SquaresMove ==
    ASSUME NEW delta, NEW mean, NEW m2, NEW S \in Int, NEW Q \in Int, NEW n \in Nat \ {0}, NEW x \in Int,
           NEW k \in Nat \ {0}, k = n + 1, Is(delta, x * n - S, n), Is(mean, S + x, k), Is(m2, n * Q - S * S, n)
    PROVE  Is(Reduced(Plus(m2, Times(delta, Minus(Rational(x), mean)))), k * (Q + x * x) - (S + x) * (S + x), k)
<1>1. PICK p \in Int, t \in Int, v \in Int : p = x * n - S /\ t = S + x /\ v = n * Q - S * S
  OBVIOUS
<1>2. Is(Minus(Rational(x), mean), p, k)
  <2>1. PICK o \in Nat \ {0} : o = 1
    OBVIOUS
  <2>2. Is(Rational(x), x, o) /\ Is(mean, t, k)
    BY <1>1, <2>1, RationalIs
  <2>3. Is(Minus(Rational(x), mean), x * k - t * o, o * k)
    BY <2>2, MinusIs
  <2>4. x * k - t * o = p /\ o * k = k
    <3>1. x * (n + 1) - (S + x) * 1 = x * n - S
      OBVIOUS
    <3> QED
      BY <1>1, <2>1, <3>1
  <2> QED
    BY <2>3, <2>4
<1>3. Is(Times(delta, Minus(Rational(x), mean)), p * p, n * k)
  <2>1. Is(delta, p, n)
    BY <1>1
  <2> QED
    BY <1>2, <2>1, TimesIs
<1>4. PICK m \in Nat \ {0} : m = n * k
  BY Positive
<1>5. PICK l \in Nat \ {0} : l = n * m
  BY Positive
<1>6. PICK q \in Int : q = p * p
  OBVIOUS
<1>7. Is(Plus(m2, Times(delta, Minus(Rational(x), mean))), v * m + q * n, l)
  <2>1. Is(m2, v, n) /\ Is(Times(delta, Minus(Rational(x), mean)), q, m)
    BY <1>1, <1>3, <1>4, <1>6
  <2>2. Is(Plus(m2, Times(delta, Minus(Rational(x), mean))), v * m + q * n, n * m)
    BY <2>1, PlusIs
  <2> QED
    BY <1>5, <2>2
<1>8. PICK r \in Int : r = k * (Q + x * x) - (S + x) * (S + x)
  OBVIOUS
<1>9. (v * m + q * n) * k = r * l
  <2>1. v * k + q = n * r
    BY <1>1, <1>6, <1>8, DistancesGrow
  <2>2. (v * (n * k) + q * n) * k = (v * k + q) * (n * k)
    OBVIOUS
  <2>3. (n * r) * (n * k) = r * (n * (n * k))
    OBVIOUS
  <2> QED
    BY <1>4, <1>5, <2>1, <2>2, <2>3
<1>10. PICK s \in Int : s = v * m + q * n
  OBVIOUS
<1>11. Is(Plus(m2, Times(delta, Minus(Rational(x), mean))), s, l) /\ s * k = r * l
  BY <1>7, <1>9, <1>10
<1>12. Is(Plus(m2, Times(delta, Minus(Rational(x), mean))), r, k)
  BY <1>11, IsAlso
<1> QED
  BY <1>8, <1>12, ReducedIs

\* welford::add, of the first sample and of any.
LEMMA FirstAdded ==
    ASSUME NEW w, w.n = 0, Is(w.mean, 0, 1), Is(w.m2, 0, 1), NEW x \in Int
    PROVE  Is(Added(w, x).mean, x, 1) /\ Is(Added(w, x).m2, 0, 1) /\ Added(w, x).n = 1
<1>1. PICK o \in Nat \ {0}, z \in Int : o = 1 /\ z = 0
  OBVIOUS
<1>2. PICK delta : delta = Minus(Rational(x), w.mean)
  OBVIOUS
<1>3. Is(delta, x, o)
  <2>1. Is(Rational(x), x, o) /\ Is(w.mean, z, o)
    BY <1>1, RationalIs
  <2>2. Is(delta, x * o - z * o, o * o)
    BY <1>2, <2>1, MinusIs
  <2>3. x * o - z * o = x /\ o * o = o
    BY <1>1
  <2> QED
    BY <2>2, <2>3
<1>4. PICK mean : mean = Reduced(Plus(w.mean, DividedBy(delta, o)))
  OBVIOUS
<1>5. Is(mean, x, o)
  <2>1. Is(DividedBy(delta, o), x, o * o)
    BY <1>3, DividedByIs
  <2>2. o * o = o
    BY <1>1
  <2>3. Is(DividedBy(delta, o), x, o) /\ Is(w.mean, z, o)
    BY <1>1, <2>1, <2>2
  <2>4. Is(Plus(w.mean, DividedBy(delta, o)), z * o + x * o, o * o)
    BY <2>3, PlusIs
  <2>5. z * o + x * o = x
    BY <1>1
  <2>6. Is(Plus(w.mean, DividedBy(delta, o)), x, o)
    BY <2>2, <2>4, <2>5
  <2> QED
    BY <1>4, <2>6, ReducedIs
<1>6. PICK m2 : m2 = Reduced(Plus(w.m2, Times(delta, Minus(Rational(x), mean))))
  OBVIOUS
<1>7. Is(m2, z, o)
  <2>1. Is(Rational(x), x, o)
    BY <1>1, RationalIs
  <2>2. Is(Minus(Rational(x), mean), x * o - x * o, o * o)
    BY <1>5, <2>1, MinusIs
  <2>3. x * o - x * o = z /\ o * o = o /\ x * z = z /\ z * o + z * o = z
    BY <1>1
  <2>4. Is(Minus(Rational(x), mean), z, o)
    BY <2>2, <2>3
  <2>5. Is(Times(delta, Minus(Rational(x), mean)), x * z, o * o)
    BY <1>3, <2>4, TimesIs
  <2>6. Is(Times(delta, Minus(Rational(x), mean)), z, o) /\ Is(w.m2, z, o)
    BY <1>1, <2>3, <2>5
  <2>7. Is(Plus(w.m2, Times(delta, Minus(Rational(x), mean))), z * o + z * o, o * o)
    BY <2>6, PlusIs
  <2>8. Is(Plus(w.m2, Times(delta, Minus(Rational(x), mean))), z, o)
    BY <2>3, <2>7
  <2> QED
    BY <1>6, <2>8, ReducedIs
<1>8. w.n + 1 = o
  BY <1>1
<1>9. Added(w, x) = [n |-> o, mean |-> mean, m2 |-> m2]
  BY <1>2, <1>4, <1>6, <1>8 DEF Added
<1> QED
  BY <1>1, <1>5, <1>7, <1>9

LEMMA AddedTells ==
    ASSUME NEW w, NEW n \in Nat, NEW S \in Int, NEW Q \in Int, Tells(w, n, S, Q), n = 0 => S = 0 /\ Q = 0, NEW x \in Int
    PROVE  Tells(Added(w, x), n + 1, S + x, Q + x * x)
<1>1. w.n = n
  BY DEF Tells
<1>2. CASE n = 0
  <2>1. Is(w.mean, 0, 1) /\ Is(w.m2, 0, 1)
    BY <1>2 DEF Tells
  <2>2. Is(Added(w, x).mean, x, 1) /\ Is(Added(w, x).m2, 0, 1) /\ Added(w, x).n = 1
    BY <1>1, <1>2, <2>1, FirstAdded
  <2>3. S + x = x /\ 1 * (Q + x * x) - (S + x) * (S + x) = 0 /\ n + 1 = 1
    BY <1>2
  <2> QED
    BY <2>2, <2>3 DEF Tells
<1>3. CASE n # 0
  <2>1. Is(w.mean, S, n) /\ Is(w.m2, n * Q - S * S, n)
    BY <1>3 DEF Tells
  <2>2. PICK k \in Nat \ {0} : k = n + 1
    OBVIOUS
  <2>3. PICK delta, mean : delta = Minus(Rational(x), w.mean) /\ mean = Reduced(Plus(w.mean, DividedBy(delta, k)))
    OBVIOUS
  <2>4. n \in Nat \ {0}
    BY <1>3
  <2>5. Is(delta, x * n - S, n) /\ Is(mean, S + x, k)
    BY <2>1, <2>2, <2>3, <2>4, MeanMoves
  <2>6. PICK m2 : m2 = Reduced(Plus(w.m2, Times(delta, Minus(Rational(x), mean))))
    OBVIOUS
  <2>7. Is(m2, k * (Q + x * x) - (S + x) * (S + x), k)
    BY <2>1, <2>2, <2>4, <2>5, <2>6, SquaresMove
  <2>8. Added(w, x) = [n |-> k, mean |-> mean, m2 |-> m2]
    BY <1>1, <2>2, <2>3, <2>6 DEF Added
  <2> QED
    BY <2>2, <2>5, <2>7, <2>8 DEF Tells
<1> QED
  BY <1>2, <1>3

\* What tells the sums is described by their definitions.
LEMMA TellsDescribes ==
    ASSUME NEW xs, NEW S, NEW Q, Moments(xs, S, Q), NEW w, Tells(w, Len(xs), S, Q)
    PROVE  Describes(w, xs)
<1>1. xs \in Seq(Int) /\ S \in Int /\ Q \in Int /\ S = IntegerSum(xs)
  BY MomentsAre
<1>2. PICK n \in Nat : n = Len(xs)
  BY <1>1
<1>3. w.n = n
  BY <1>2 DEF Tells
<1>4. CASE n = 0
  BY <1>2, <1>3, <1>4 DEF Describes
<1>5. CASE n # 0
  <2>1. Is(w.mean, S, n) /\ Is(w.m2, n * Q - S * S, n)
    BY <1>2, <1>5 DEF Tells
  <2>2. PICK mean : mean = <<IntegerSum(xs), Len(xs)>>
    OBVIOUS
  <2>3. mean = <<S, n>> /\ n \in Nat \ {0}
    BY <1>1, <1>2, <1>5, <2>2
  <2>4. Is(mean, S, n)
    BY <1>1, <2>3, IsPair
  <2>5. Equal(w.mean, mean)
    BY <1>1, <2>1, <2>3, <2>4, SameNumber
  <2>6. PICK p : p = Distances(xs, S, n)
    OBVIOUS
  <2>7. p \in [1 .. n -> Int] /\ \E P : Sums(P, p, n) /\ P[n] = n * (n * Q - S * S)
    BY <1>2, <2>6, DistancesAre
  <2>8. PICK P : Sums(P, p, n) /\ P[n] = n * (n * Q - S * S)
    BY <2>7
  <2>9. PICK q \in Nat \ {0} : q = n * n
    BY <1>5, Positive
  <2>10. PICK items : items = [i \in 1 .. Len(xs) |-> Times(Minus(Rational(xs[i]), mean), Minus(Rational(xs[i]), mean))]
    OBVIOUS
  <2>11. DOMAIN items = 1 .. n
    BY <1>2, <2>10
  <2>12. ASSUME NEW i \in 1 .. n PROVE Is(items[i], p[i], q)
    <3>1. PICK x \in Int : x = xs[i]
      BY <1>1, <1>2
    <3>2. PICK o \in Nat \ {0} : o = 1
      OBVIOUS
    <3>11. PICK d : d = Minus(Rational(x), mean)
      OBVIOUS
    <3>3. Is(Rational(x), x, o)
      BY <3>2, RationalIs
    <3>4. Is(d, x * n - S * o, o * n)
      BY <1>1, <2>3, <2>4, <3>2, <3>3, <3>11, MinusIs
    <3>5. PICK y \in Int : y = x * n - S
      BY <1>1
    <3>6. x * n - S * o = y /\ o * n = n
      BY <1>1, <3>2, <3>5
    <3>7. Is(d, y, n)
      BY <3>4, <3>6
    <3>8. Is(Times(d, d), y * y, n * n)
      BY <2>3, <3>7, TimesIs
    <3>9. p[i] = y * y
      BY <2>6, <3>1, <3>5 DEF Distances
    <3>10. items[i] = Times(d, d)
      BY <1>2, <2>10, <3>1, <3>11
    <3> QED
      BY <2>9, <3>8, <3>9, <3>10
  <2>13. Is(RationalSum(items), P[n], q)
    BY <2>7, <2>8, <2>11, <2>12, RationalSumIs
  <2>14. Is(RationalSum(items), n * Q - S * S, n)
    <3>1. PICK v \in Int, u \in Int : v = n * Q - S * S /\ u = n * v
      BY <1>1
    <3>2. Is(RationalSum(items), u, q) /\ u * n = v * q
      <4>1. (n * v) * n = v * (n * n)
        OBVIOUS
      <4> QED
        BY <2>8, <2>9, <2>13, <3>1, <4>1
    <3> QED
      BY <2>3, <3>1, <3>2, IsAlso
  <2>15. Equal(w.m2, RationalSum(items))
    <3>1. PICK v \in Int : v = n * Q - S * S
      BY <1>1
    <3> QED
      BY <2>1, <2>3, <2>14, <3>1, SameNumber
  <2> QED
    BY <1>2, <1>3, <2>2, <2>5, <2>10, <2>15 DEF Describes
<1> QED
  BY <1>4, <1>5

-----------------------------------------------------------------------------
(* Summaries combined *)

\* One summary, as a part of S over n.
Share(q, s, l, S, n) == q * (n * n) - 2 * (n * S) * s + (S * S) * l

\* A summary about its own mean, moved to the mean of all.
LEMMA ShareIdentity ==
    ASSUME NEW q \in Int, NEW s \in Int, NEW l \in Int, NEW S \in Int, NEW n \in Int
    PROVE  (l * q - s * s) * (n * n) + (s * n - S * l) * (s * n - S * l) = l * Share(q, s, l, S, n)
<1>1. (l * q - s * s) * (n * n) + (s * n - S * l) * (s * n - S * l)
         = l * (q * (n * n) - 2 * (n * S) * s + (S * S) * l)
  OBVIOUS
<1> QED
  BY <1>1 DEF Share

LEMMA ShareIs ==
    ASSUME NEW w, NEW l \in Nat \ {0}, NEW s \in Int, NEW q \in Int, Tells(w, l, s, q),
           NEW mean, NEW S \in Int, NEW n \in Nat \ {0}, Is(mean, S, n), NEW d, d = Minus(w.mean, mean)
    PROVE  /\ Share(q, s, l, S, n) \in Int
           /\ Is(Plus(w.m2, Times(Rational(w.n), Times(d, d))), Share(q, s, l, S, n), n * n)
<1>1. w.n = l /\ Is(w.mean, s, l) /\ Is(w.m2, l * q - s * s, l)
  BY DEF Tells
<1>2. PICK e \in Int, b \in Nat \ {0} : e = s * n - S * l /\ b = l * n
  BY Positive
<1>3. Is(d, e, b)
  <2>1. Is(Minus(w.mean, mean), s * n - S * l, l * n)
    BY <1>1, MinusIs
  <2> QED
    BY <1>2, <2>1
<1>4. PICK f \in Int, c \in Nat \ {0} : f = e * e /\ c = b * b
  BY Positive
<1>5. Is(Times(d, d), f, c)
  BY <1>3, <1>4, TimesIs
<1>6. PICK g \in Int : g = l * f
  OBVIOUS
<1>7. Is(Times(Rational(w.n), Times(d, d)), g, c)
  <2>1. PICK o \in Nat \ {0} : o = 1
    OBVIOUS
  <2>2. Is(Rational(w.n), l, o)
    BY <1>1, <2>1, RationalIs
  <2>3. Is(Times(Rational(w.n), Times(d, d)), l * f, o * c)
    BY <1>5, <2>2, TimesIs
  <2>4. o * c = c
    BY <2>1
  <2> QED
    BY <1>6, <2>3, <2>4
<1>8. PICK v \in Int, h \in Nat \ {0} : v = l * q - s * s /\ h = l * c
  BY Positive
<1>9. Is(Plus(w.m2, Times(Rational(w.n), Times(d, d))), v * c + g * l, h)
  <2>1. Is(w.m2, v, l)
    BY <1>1, <1>8
  <2>2. Is(Plus(w.m2, Times(Rational(w.n), Times(d, d))), v * c + g * l, l * c)
    BY <1>7, <2>1, PlusIs
  <2> QED
    BY <1>8, <2>2
<1>10. PICK r \in Int : r = Share(q, s, l, S, n)
  BY DEF Share
<1>11. PICK m \in Nat \ {0} : m = n * n
  BY Positive
<1>12. (v * c + g * l) * m = r * h
  <2>1. v * (n * n) + f = l * r
    BY <1>2, <1>4, <1>8, <1>10, ShareIdentity
  <2>2. (v * ((l * n) * (l * n)) + (l * f) * l) * (n * n) = (v * (n * n) + f) * ((l * l) * (n * n))
    OBVIOUS
  <2>3. (l * r) * ((l * l) * (n * n)) = r * (l * ((l * n) * (l * n)))
    OBVIOUS
  <2> QED
    BY <1>2, <1>4, <1>6, <1>8, <1>11, <2>1, <2>2, <2>3
<1>13. Is(Plus(w.m2, Times(Rational(w.n), Times(d, d))), r, m)
  <2>1. PICK t \in Int : t = v * c + g * l
    OBVIOUS
  <2>2. Is(Plus(w.m2, Times(Rational(w.n), Times(d, d))), t, h) /\ t * m = r * h
    BY <1>9, <1>12, <2>1
  <2> QED
    BY <2>2, IsAlso
<1> QED
  BY <1>10, <1>11, <1>13

\* welford::from_range, of summaries that all have samples.
LEMMA FromRangeTells ==
    ASSUME NEW m \in Nat \ {0}, NEW ws, DOMAIN ws = 1 .. m, Len(ws) = m,
           NEW l \in [1 .. m -> Nat \ {0}], NEW s \in [1 .. m -> Int], NEW q \in [1 .. m -> Int],
           \A i \in 1 .. m : Tells(ws[i], l[i], s[i], q[i]),
           NEW L, NEW S, NEW Q, Sums(L, l, m), Sums(S, s, m), Sums(Q, q, m)
    PROVE  L[m] \in Nat \ {0} /\ Tells(FromRange(ws), L[m], S[m], Q[m])
<1>1. l \in [1 .. m -> Int]
  OBVIOUS
<1>2. PICK N \in Nat \ {0}, T \in Int, R \in Int : N = L[m] /\ T = S[m] /\ R = Q[m]
  <2>1. L[m] \in Int /\ S[m] \in Int /\ Q[m] \in Int
    BY SumsLast
  <2>2. l[1] <= L[m]
    <3>1. 1 \in 1 .. m /\ \A i \in 1 .. m : 0 <= l[i]
      OBVIOUS
    <3> QED
      BY <1>1, <3>1, PartOfSum
  <2>3. l[1] \in Nat /\ l[1] # 0
    OBVIOUS
  <2>4. L[m] \in Nat \ {0}
    BY <2>1, <2>2, <2>3
  <2> QED
    BY <2>1, <2>4
<1>3. \A i \in 1 .. m : ws[i].n = l[i] /\ Is(ws[i].mean, s[i], l[i])
  BY DEF Tells
<1>4. PICK counts : counts = [i \in 1 .. Len(ws) |-> ws[i].n]
  OBVIOUS
<1>5. IntegerSum(counts) = N
  <2>1. DOMAIN counts = 1 .. m /\ \A i \in 1 .. m : counts[i] = l[i]
    BY <1>3, <1>4
  <2>2. Sums(L, counts, m)
    BY <2>1 DEF Sums
  <2> QED
    BY <1>2, <2>1, <2>2, IntegerSumIs
<1>6. PICK means : means = [i \in 1 .. Len(ws) |-> Times(ws[i].mean, Rational(ws[i].n))]
  OBVIOUS
<1>7. PICK o \in Nat \ {0} : o = 1
  OBVIOUS
<1>8. Is(RationalSum(means), T, o)
  <2>1. ASSUME NEW i \in 1 .. m PROVE Is(means[i], s[i], o)
    <3>1. PICK j \in Nat \ {0}, t \in Int : j = l[i] /\ t = s[i]
      OBVIOUS
    <3>2. Is(ws[i].mean, t, j) /\ Is(Rational(ws[i].n), j, o)
      BY <1>3, <1>7, <3>1, RationalIs
    <3>3. Is(Times(ws[i].mean, Rational(ws[i].n)), t * j, j * o)
      BY <3>2, TimesIs
    <3>4. PICK x \in Int, y \in Nat \ {0} : x = t * j /\ y = j * o
      BY Positive
    <3>5. x * o = t * y
      BY <1>7, <3>4
    <3>6. Is(Times(ws[i].mean, Rational(ws[i].n)), t, o)
      BY <3>3, <3>4, <3>5, IsAlso
    <3> QED
      BY <1>6, <3>1, <3>6
  <2>2. DOMAIN means = 1 .. m
    BY <1>6
  <2> QED
    BY <1>2, <2>1, <2>2, RationalSumIs
<1>9. PICK mean : mean = Reduced(DividedBy(RationalSum(means), N))
  OBVIOUS
<1>10. Is(mean, T, N)
  <2>1. Is(DividedBy(RationalSum(means), N), T, o * N)
    BY <1>8, DividedByIs
  <2>2. o * N = N
    BY <1>7
  <2> QED
    BY <1>9, <2>1, <2>2, ReducedIs
<1>11. PICK parts : parts = [i \in 1 .. Len(ws) |->
                               Plus(ws[i].m2, Times(Rational(ws[i].n), Times(Minus(ws[i].mean, mean), Minus(ws[i].mean, mean))))]
  OBVIOUS
<1>12. PICK p : p = [i \in 1 .. m |-> Share(q[i], s[i], l[i], T, N)]
  OBVIOUS
<1>13. PICK M \in Nat \ {0} : M = N * N
  BY Positive
<1>14. ASSUME NEW i \in 1 .. m PROVE p[i] \in Int /\ Is(parts[i], p[i], M)
  <2>1. PICK j \in Nat \ {0}, t \in Int, u \in Int : j = l[i] /\ t = s[i] /\ u = q[i]
    OBVIOUS
  <2>2. PICK d : d = Minus(ws[i].mean, mean)
    OBVIOUS
  <2>3. Tells(ws[i], j, t, u)
    BY <2>1
  <2>4. /\ Share(u, t, j, T, N) \in Int
        /\ Is(Plus(ws[i].m2, Times(Rational(ws[i].n), Times(d, d))), Share(u, t, j, T, N), N * N)
    BY <1>10, <2>2, <2>3, ShareIs
  <2>5. p[i] = Share(u, t, j, T, N)
    BY <1>12, <2>1
  <2>6. parts[i] = Plus(ws[i].m2, Times(Rational(ws[i].n), Times(d, d)))
    BY <1>11, <2>2
  <2> QED
    BY <1>13, <2>4, <2>5, <2>6
<1>15. p \in [1 .. m -> Int]
  BY <1>12, <1>14
<1>16. PICK P : Sums(P, p, m)
  BY <1>15, SumsOf
<1>17. Is(RationalSum(parts), P[m], M)
  <2>1. DOMAIN parts = 1 .. m
    BY <1>11
  <2> QED
    BY <1>14, <1>15, <1>16, <2>1, RationalSumIs
<1>18. P[m] = N * (N * R - T * T)
  <2>1. PICK a \in Int, b \in Int, c \in Int : a = N * N /\ b = -2 * (N * T) /\ c = T * T
    OBVIOUS
  <2>2. ASSUME NEW i \in 1 .. m PROVE p[i] = a * q[i] + b * s[i] + c * l[i]
    <3>1. PICK j \in Int, t \in Int, u \in Int : j = l[i] /\ t = s[i] /\ u = q[i]
      BY <1>1
    <3>2. p[i] = u * (N * N) - 2 * (N * T) * t + (T * T) * j
      BY <1>12, <3>1 DEF Share
    <3>3. u * (N * N) - 2 * (N * T) * t + (T * T) * j = (N * N) * u + (-2 * (N * T)) * t + (T * T) * j
      OBVIOUS
    <3> QED
      BY <2>1, <3>1, <3>2, <3>3
  <2>3. Mixed(p, P, m, a, q, Q, b, s, S, c, l, L)
    BY <1>1, <1>16, <2>1, <2>2 DEF Mixed
  <2>4. P[m] = a * Q[m] + b * S[m] + c * L[m]
    BY <2>3, MixedSums
  <2>5. (N * N) * R + (-2 * (N * T)) * T + (T * T) * N = N * (N * R - T * T)
    OBVIOUS
  <2> QED
    BY <1>2, <2>1, <2>4, <2>5
<1>19. Is(RationalSum(parts), N * R - T * T, N)
  <2>1. PICK v \in Int, u \in Int : v = N * R - T * T /\ u = N * v
    OBVIOUS
  <2>2. (N * v) * N = v * (N * N)
    OBVIOUS
  <2>3. Is(RationalSum(parts), u, M) /\ u * N = v * M
    BY <1>13, <1>17, <1>18, <2>1, <2>2
  <2>4. Is(RationalSum(parts), v, N)
    BY <2>3, IsAlso
  <2> QED
    BY <2>1, <2>4
<1>20. FromRange(ws) = [n |-> N, mean |-> mean, m2 |-> RationalSum(parts)]
  BY <1>4, <1>5, <1>6, <1>9, <1>11 DEF FromRange
<1> QED
  BY <1>2, <1>10, <1>19, <1>20 DEF Tells

\* A summary tells what its samples were.
Told(w, xs) == \E S, Q : Moments(xs, S, Q) /\ Tells(w, Len(xs), S, Q)

\* The inductive invariant of the collectors.
WelfordInv ==
    /\ summaries = [c \in 1 .. Collectors |-> summaries[c]]
    /\ samples \in [1 .. Collectors -> Seq(Int)]
    /\ \A c \in 1 .. Collectors : Told(summaries[c], samples[c])

\* The parts with samples, and only they are put together.
Full == {part \in {Collected[c] : c \in 1 .. Collectors} : part.xs # <<>>}

LEMMA BusyFull == Busy \in Seq(Full)
<1>1. Collectors \in Nat
  BY WelfordAssumption
<1>2. DOMAIN Collected = 1 .. Collectors
  BY DEF Collected
<1>3. PICK r : Running("busy", r, <<>>, Collected, Collectors)
  BY <1>1, RunExists
<1>4. r[0] = <<>> /\ \A k \in 1 .. Collectors :
                        r[k] = IF Collected[k].xs = <<>> THEN r[k - 1] ELSE Append(r[k - 1], Collected[k])
  BY <1>3 DEF Running, FoldStep
<1> DEFINE S == {k \in 0 .. Collectors : r[k] \in Seq(Full)}
<1>5. 0 \in S
  <2>1. <<>> \in Seq(Full) /\ 0 \in 0 .. Collectors
    BY <1>1
  <2> QED
    BY <1>4, <2>1
<1>6. ASSUME NEW k \in 1 .. Collectors, k - 1 \in S PROVE k \in S
  <2>1. r[k - 1] \in Seq(Full) /\ k \in 0 .. Collectors
    BY <1>1, <1>6
  <2>2. CASE Collected[k].xs = <<>>
    BY <1>4, <2>1, <2>2
  <2>3. CASE Collected[k].xs # <<>>
    <3>1. Collected[k] \in Full
      BY <2>3 DEF Full
    <3>2. Append(r[k - 1], Collected[k]) \in Seq(Full)
      BY <2>1, <3>1
    <3> QED
      BY <1>4, <2>1, <2>3, <3>2
  <2> QED
    BY <2>2, <2>3
<1>7. \A k \in 0 .. Collectors : k \in S
  <2> HIDE DEF S
  <2> QED
    BY <1>1, <1>5, <1>6, Reaches
<1>8. r[Collectors] \in Seq(Full)
  BY <1>1, <1>7
<1>9. Busy = r[Collectors]
  BY <1>1, <1>2, <1>3, BusyFold DEF Busy
<1> QED
  BY <1>8, <1>9

LEMMA FullTold ==
    ASSUME WelfordInv, NEW part \in Full
    PROVE  part.xs \in Seq(Int) /\ part.xs # <<>> /\ Told(part.summary, part.xs)
<1>1. PICK c \in 1 .. Collectors : part = Collected[c] /\ part.xs # <<>>
  BY DEF Full
<1>2. part.summary = summaries[c] /\ part.xs = samples[c]
  BY <1>1 DEF Collected
<1> QED
  BY <1>1, <1>2 DEF WelfordInv

\* The samples of all parts together.
\* The parts with their lengths and sums, and the partial sums of these.
Divided(parts, m, l, s, q, L, S, Q) ==
    /\ m \in Nat /\ DOMAIN parts = 1 .. m
    /\ \A i \in 1 .. m : Moments(parts[i].xs, s[i], q[i]) /\ Len(parts[i].xs) = l[i]
    /\ Sums(L, l, m) /\ Sums(S, s, m) /\ Sums(Q, q, m)

LEMMA AllOfIs ==
    ASSUME NEW parts, NEW m, NEW l, NEW s, NEW q, NEW L, NEW S, NEW Q, Divided(parts, m, l, s, q, L, S, Q)
    PROVE  Moments(AllOf(parts), S[m], Q[m]) /\ Len(AllOf(parts)) = L[m]
<1>0. /\ m \in Nat /\ DOMAIN parts = 1 .. m
      /\ \A i \in 1 .. m : Moments(parts[i].xs, s[i], q[i]) /\ Len(parts[i].xs) = l[i]
      /\ Sums(L, l, m) /\ Sums(S, s, m) /\ Sums(Q, q, m)
  BY DEF Divided
<1>1. PICK r : Running("join", r, <<>>, parts, m)
  BY <1>0, RunExists
<1>2. r[0] = <<>> /\ \A k \in 1 .. m : r[k] = r[k - 1] \o parts[k].xs
  BY <1>1 DEF Running, FoldStep
<1> DEFINE D == {k \in 0 .. m : Moments(r[k], S[k], Q[k]) /\ Len(r[k]) = L[k]}
<1>3. 0 \in D
  <2>1. S[0] = 0 /\ Q[0] = 0 /\ L[0] = 0
    BY <1>0, SumsLast
  <2> QED
    BY <1>0, <1>2, <2>1, NoMoments
<1>4. ASSUME NEW k \in 1 .. m, k - 1 \in D PROVE k \in D
  <2>1. k \in 0 .. m /\ Moments(r[k - 1], S[k - 1], Q[k - 1]) /\ Len(r[k - 1]) = L[k - 1]
    BY <1>0, <1>4
  <2>2. Moments(parts[k].xs, s[k], q[k]) /\ Len(parts[k].xs) = l[k]
    BY <1>0
  <2>3. Moments(r[k - 1] \o parts[k].xs, S[k - 1] + s[k], Q[k - 1] + q[k])
    BY <2>1, <2>2, JoinedMoments
  <2>4. S[k] = S[k - 1] + s[k] /\ Q[k] = Q[k - 1] + q[k] /\ L[k] = L[k - 1] + l[k]
    BY <1>0 DEF Sums
  <2>5. Len(r[k - 1] \o parts[k].xs) = L[k - 1] + l[k]
    <3>1. r[k - 1] \in Seq(Int) /\ parts[k].xs \in Seq(Int)
      BY <2>1, <2>2, MomentsAre
    <3>2. Len(r[k - 1] \o parts[k].xs) = Len(r[k - 1]) + Len(parts[k].xs)
      BY <3>1
    <3> QED
      BY <2>1, <2>2, <3>2
  <2>6. r[k] = r[k - 1] \o parts[k].xs
    BY <1>2
  <2> QED
    BY <2>1, <2>3, <2>4, <2>5, <2>6
<1>5. \A k \in 0 .. m : k \in D
  <2> HIDE DEF D
  <2> QED
    BY <1>0, <1>3, <1>4, Reaches
<1>6. AllOf(parts) = r[m]
  BY <1>0, <1>1, JoinFold DEF AllOf
<1> QED
  BY <1>0, <1>5, <1>6

\* The combined summary tells the sums of all samples.
LEMMA CombinedTold ==
    ASSUME WelfordInv, Busy # <<>>
    PROVE  Told(FromRange([i \in 1 .. Len(Busy) |-> Busy[i].summary]), AllOf(Busy))
<1>1. PICK b : b = Busy
  OBVIOUS
<1>2. b \in Seq(Full) /\ b # <<>>
  BY <1>1, BusyFull
<1>3. PICK m \in Nat \ {0} : m = Len(b)
  BY <1>2
<1>4. DOMAIN b = 1 .. m
  BY <1>2, <1>3
<1>5. \A i \in 1 .. m : b[i].xs \in Seq(Int) /\ b[i].xs # <<>> /\ Told(b[i].summary, b[i].xs)
  BY <1>2, <1>3, FullTold
<1>6. PICK s : s = [i \in 1 .. m |-> CHOOSE S \in Int : \E Q \in Int : Moments(b[i].xs, S, Q) /\ Tells(b[i].summary, Len(b[i].xs), S, Q)]
  OBVIOUS
<1>7. PICK q : q = [i \in 1 .. m |-> CHOOSE Q \in Int : Moments(b[i].xs, s[i], Q) /\ Tells(b[i].summary, Len(b[i].xs), s[i], Q)]
  OBVIOUS
<1>8. ASSUME NEW i \in 1 .. m
      PROVE  s[i] \in Int /\ q[i] \in Int /\ Moments(b[i].xs, s[i], q[i]) /\ Tells(b[i].summary, Len(b[i].xs), s[i], q[i])
  <2>1. PICK S, Q : Moments(b[i].xs, S, Q) /\ Tells(b[i].summary, Len(b[i].xs), S, Q)
    BY <1>5 DEF Told
  <2>2. S \in Int /\ Q \in Int
    BY <2>1, MomentsAre
  <2>3. \E T \in Int : \E R \in Int : Moments(b[i].xs, T, R) /\ Tells(b[i].summary, Len(b[i].xs), T, R)
    BY <2>1, <2>2
  <2>4. s[i] \in Int /\ \E R \in Int : Moments(b[i].xs, s[i], R) /\ Tells(b[i].summary, Len(b[i].xs), s[i], R)
    BY <1>6, <2>3
  <2> QED
    BY <1>7, <2>4
<1>9. PICK l : l = [i \in 1 .. m |-> Len(b[i].xs)]
  OBVIOUS
<1>10. ASSUME NEW i \in 1 .. m PROVE l[i] \in Nat \ {0} /\ l[i] = Len(b[i].xs)
  <2>1. b[i].xs \in Seq(Int) /\ b[i].xs # <<>>
    BY <1>5
  <2>2. Len(b[i].xs) \in Nat \ {0}
    BY <2>1
  <2> QED
    BY <1>9, <2>2
<1>11. /\ s \in [1 .. m -> Int] /\ q \in [1 .. m -> Int]
       /\ l \in [1 .. m -> Nat \ {0}] /\ l \in [1 .. m -> Int]
  <2>1. s \in [1 .. m -> Int]
    BY <1>6, <1>8
  <2>2. q \in [1 .. m -> Int]
    BY <1>7, <1>8
  <2>3. l \in [1 .. m -> Nat \ {0}]
    BY <1>9, <1>10
  <2> QED
    BY <2>1, <2>2, <2>3
<1>12. PICK L : Sums(L, l, m)
  BY <1>11, SumsOf
<1>13. PICK S : Sums(S, s, m)
  BY <1>11, SumsOf
<1>14. PICK Q : Sums(Q, q, m)
  BY <1>11, SumsOf
<1>15. Moments(AllOf(b), S[m], Q[m]) /\ Len(AllOf(b)) = L[m]
  <2>1. \A i \in 1 .. m : Moments(b[i].xs, s[i], q[i]) /\ Len(b[i].xs) = l[i]
    BY <1>8, <1>10
  <2>2. Divided(b, m, l, s, q, L, S, Q)
    BY <1>4, <1>12, <1>13, <1>14, <2>1 DEF Divided
  <2> QED
    BY <2>2, AllOfIs
<1>16. PICK ws : ws = [i \in 1 .. Len(b) |-> b[i].summary]
  OBVIOUS
<1>17. Tells(FromRange(ws), L[m], S[m], Q[m])
  <2>1. DOMAIN ws = 1 .. m /\ Len(ws) = m
    BY <1>3, <1>16
  <2>2. \A i \in 1 .. m : Tells(ws[i], l[i], s[i], q[i])
    BY <1>3, <1>8, <1>10, <1>16
  <2> QED
    BY <1>11, <1>12, <1>13, <1>14, <2>1, <2>2, FromRangeTells
<1> QED
  BY <1>1, <1>15, <1>16, <1>17 DEF Told

\* So SummariesExact follows.
LEMMA ToldDescribes == ASSUME NEW w, NEW xs, Told(w, xs) PROVE Describes(w, xs)
  BY TellsDescribes DEF Told

LEMMA WelfordInvExact == ASSUME WelfordInv PROVE SummariesExact
<1>1. ASSUME NEW c \in 1 .. Collectors PROVE Describes(summaries[c], samples[c])
  BY ToldDescribes DEF WelfordInv
<1>2. ASSUME Busy # <<>> PROVE Describes(FromRange([i \in 1 .. Len(Busy) |-> Busy[i].summary]), AllOf(Busy))
  BY <1>2, CombinedTold, ToldDescribes
<1> QED
  BY <1>1, <1>2 DEF SummariesExact

LEMMA NothingTold == Told(EmptySummary, <<>>)
<1>1. Moments(<<>>, 0, 0) /\ Tells(EmptySummary, 0, 0, 0) /\ Len(<<>>) = 0
  BY NoMoments, EmptyTells
<1> QED
  BY <1>1 DEF Told

LEMMA MoreTold ==
    ASSUME NEW w, NEW xs, Told(w, xs), NEW x \in Int
    PROVE  Append(xs, x) \in Seq(Int) /\ Told(Added(w, x), Append(xs, x))
<1>1. PICK S, Q : Moments(xs, S, Q) /\ Tells(w, Len(xs), S, Q)
  BY DEF Told
<1>2. xs \in Seq(Int) /\ S \in Int /\ Q \in Int
  BY <1>1, MomentsAre
<1>3. PICK n \in Nat : n = Len(xs)
  BY <1>2
<1>4. n = 0 => S = 0 /\ Q = 0
  <2>1. PICK U, V : Sums(U, xs, n) /\ Sums(V, Squares(xs), n) /\ S = U[n] /\ Q = V[n]
    BY <1>1, <1>3 DEF Moments
  <2>2. U[0] = 0 /\ V[0] = 0
    BY <2>1, SumsLast
  <2> QED
    BY <2>1, <2>2
<1>5. Moments(Append(xs, x), S + x, Q + x * x)
  BY <1>1, AppendedMoments
<1>6. Tells(Added(w, x), n + 1, S + x, Q + x * x)
  <2>1. Tells(w, n, S, Q)
    BY <1>1, <1>3
  <2> QED
    BY <1>2, <1>4, <2>1, AddedTells
<1>7. Append(xs, x) \in Seq(Int) /\ Len(Append(xs, x)) = n + 1
  BY <1>2, <1>3
<1> QED
  BY <1>5, <1>6, <1>7 DEF Told

\* The steps of the collectors.
LEMMA InitWelfordInv == WelfordInit => WelfordInv
<1> SUFFICES ASSUME WelfordInit PROVE WelfordInv
  OBVIOUS
<1>1. summaries = [c \in 1 .. Collectors |-> summaries[c]]
  BY DEF WelfordInit
<1>2. samples \in [1 .. Collectors -> Seq(Int)]
  <2>1. <<>> \in Seq(Int)
    OBVIOUS
  <2> QED
    BY <2>1 DEF WelfordInit
<1>3. ASSUME NEW c \in 1 .. Collectors PROVE Told(summaries[c], samples[c])
  <2>1. summaries[c] = EmptySummary /\ samples[c] = <<>>
    BY DEF WelfordInit
  <2> QED
    BY <2>1, NothingTold
<1> QED
  BY <1>1, <1>2, <1>3 DEF WelfordInv

LEMMA SummaryChanges ==
    ASSUME WelfordInv, NEW c \in 1 .. Collectors, NEW w, NEW xs \in Seq(Int), Told(w, xs),
           summaries' = [summaries EXCEPT ![c] = w], samples' = [samples EXCEPT ![c] = xs]
    PROVE  WelfordInv'
<1>1. summaries' = [a \in 1 .. Collectors |-> summaries'[a]]
  <2>1. DOMAIN summaries = 1 .. Collectors
    BY DEF WelfordInv
  <2> QED
    BY <2>1
<1>2. samples' \in [1 .. Collectors -> Seq(Int)]
  BY DEF WelfordInv
<1>3. ASSUME NEW a \in 1 .. Collectors PROVE Told(summaries'[a], samples'[a])
  <2>1. CASE a = c
    <3>1. summaries'[a] = w /\ samples'[a] = xs
      BY <2>1 DEF WelfordInv
    <3> QED
      BY <3>1
  <2>2. CASE a # c
    <3>1. summaries'[a] = summaries[a] /\ samples'[a] = samples[a]
      BY <2>2 DEF WelfordInv
    <3> QED
      BY <3>1 DEF WelfordInv
  <2> QED
    BY <2>1, <2>2
<1> QED
  BY <1>1, <1>2, <1>3 DEF WelfordInv

LEMMA StepWelfordInv == WelfordInv /\ [WelfordNext]_welfordVars => WelfordInv'
<1> SUFFICES ASSUME WelfordInv, [WelfordNext]_welfordVars PROVE WelfordInv'
  OBVIOUS
<1>1. CASE UNCHANGED welfordVars
  BY <1>1 DEF WelfordInv, welfordVars
<1>2. ASSUME NEW c \in 1 .. Collectors, ClearSummary(c) PROVE WelfordInv'
  <2>1. <<>> \in Seq(Int)
    OBVIOUS
  <2> QED
    BY <1>2, <2>1, NothingTold, SummaryChanges DEF ClearSummary
<1>3. ASSUME NEW c \in 1 .. Collectors, NEW x \in Samples, AddSample(c, x) PROVE WelfordInv'
  <2>1. x \in Int
    BY WelfordAssumption
  <2>2. PICK w, xs : w = Added(summaries[c], x) /\ xs = Append(samples[c], x)
    OBVIOUS
  <2>3. xs \in Seq(Int) /\ Told(w, xs)
    <3>1. Told(summaries[c], samples[c])
      BY DEF WelfordInv
    <3> QED
      BY <2>1, <2>2, <3>1, MoreTold
  <2>4. summaries' = [summaries EXCEPT ![c] = w] /\ samples' = [samples EXCEPT ![c] = xs]
    BY <1>3, <2>2 DEF AddSample
  <2> QED
    BY <2>3, <2>4, SummaryChanges
<1> QED
  BY <1>1, <1>2, <1>3 DEF WelfordNext

-----------------------------------------------------------------------------
(* The calibration and the stopwatch. *)

\* Every sample is at least as far from the mean as the deviation: then all are the mean.
LEMMA NoneNear ==
    ASSUME NEW n \in Nat, n >= 2, NEW xs, Len(xs) = n, NEW S, NEW Q, Moments(xs, S, Q), NEW w, Tells(w, n, S, Q),
           \A i \in 1 .. n : LET d == Minus(Rational(xs[i]), w.mean)
                                 square == Times(d, d)
                                 variance == DividedBy(w.m2, n - 1)
                             IN  ~ square[1] * variance[2] < variance[1] * square[2],
           NEW j \in 1 .. n, NEW k \in 1 .. n
    PROVE  xs[j] = xs[k]
<1>1. xs \in Seq(Int) /\ S \in Int /\ Q \in Int
  BY MomentsAre
<1>2. PICK V \in Int : V = n * Q - S * S
  BY <1>1
<1>3. Is(w.mean, S, n) /\ Is(w.m2, V, n) /\ n \in Nat \ {0}
  BY <1>2 DEF Tells
<1>4. PICK p : p = Distances(xs, S, n)
  OBVIOUS
<1>5. p \in [1 .. n -> Int] /\ \E P : Sums(P, p, n) /\ P[n] = n * V
  BY <1>2, <1>4, DistancesAre
<1>6. PICK P : Sums(P, p, n) /\ P[n] = n * V
  BY <1>5
<1>7. ASSUME NEW i \in 1 .. n PROVE V * n <= p[i] * (n - 1)
  <2>1. PICK d, square, variance : d = Minus(Rational(xs[i]), w.mean) /\ square = Times(d, d) /\ variance = DividedBy(w.m2, n - 1)
    <3>1. PICK d : d = Minus(Rational(xs[i]), w.mean)
      OBVIOUS
    <3> QED
      BY <3>1
  <2>2. ~ square[1] * variance[2] < variance[1] * square[2]
    BY <2>1
  <2>3. PICK x \in Int, o \in Nat \ {0}, y \in Int : x = xs[i] /\ o = 1 /\ y = x * n - S
    BY <1>1
  <2>4. Is(d, y, n)
    <3>1. Is(Rational(x), x, o)
      BY <2>3, RationalIs
    <3>2. Is(d, x * n - S * o, o * n)
      BY <1>1, <1>3, <2>1, <2>3, <3>1, MinusIs
    <3>3. x * n - S * o = y /\ o * n = n
      BY <1>1, <2>3
    <3> QED
      BY <3>2, <3>3
  <2>14. PICK k1 \in Nat \ {0} : k1 = n - 1
    OBVIOUS
  <2>15. n * n \in Nat \ {0} /\ n * k1 \in Nat \ {0}
    BY <1>3, Positive
  <2>5. PICK e \in Int, m \in Nat \ {0}, h \in Nat \ {0} : e = y * y /\ m = n * n /\ h = n * k1
    BY <2>15
  <2>6. Is(square, e, m)
    BY <1>3, <2>1, <2>4, <2>5, TimesIs
  <2>7. Is(variance, V, h)
    BY <1>3, <2>1, <2>5, <2>14, DividedByIs
  <2>8. V * m <= e * h
    BY <2>2, <2>6, <2>7, LessIs
  <2>9. PICK a \in Int, b \in Int : a = V * n /\ b = e * k1
    OBVIOUS
  <2>10. V * (n * n) = a * n /\ e * (n * k1) = b * n
    <3>1. V * (n * n) = (V * n) * n
      OBVIOUS
    <3>2. e * (n * k1) = (e * k1) * n
      OBVIOUS
    <3> QED
      BY <2>9, <3>1, <3>2
  <2>11. a * n <= b * n
    BY <2>5, <2>8, <2>10
  <2>12. a <= b
    BY <1>3, <2>9, <2>11, CancelLess
  <2>13. p[i] = e
    BY <1>4, <2>3, <2>5 DEF Distances
  <2> QED
    BY <2>9, <2>12, <2>13, <2>14
<1>8. PICK z \in Int, t \in Int : z = V * n /\ t = n - 1
  OBVIOUS
<1>9. PICK f, g, F, G : f = [i \in 1 .. n |-> t * p[i]] /\ g = [i \in 1 .. n |-> z]
                        /\ F = [i \in 0 .. n |-> t * P[i]] /\ G = [i \in 0 .. n |-> i * z]
  OBVIOUS
<1>10. Sums(F, f, n)
  <2>1. \A i \in 0 .. n : P[i] \in Int
    BY <1>6 DEF Sums
  <2>2. F \in [0 .. n -> Int]
    BY <1>9, <2>1
  <2>3. F[0] = 0
    <3>1. P[0] = 0 /\ 0 \in 0 .. n
      BY <1>6 DEF Sums
    <3> QED
      BY <1>9, <3>1
  <2>4. ASSUME NEW i \in 1 .. n PROVE F[i] = F[i - 1] + f[i]
    <3>1. i \in 0 .. n /\ i - 1 \in 0 .. n
      OBVIOUS
    <3>2. PICK a \in Int, b \in Int : a = P[i - 1] /\ b = p[i]
      BY <1>5, <2>1, <3>1
    <3>3. P[i] = a + b
      BY <1>6, <3>2 DEF Sums
    <3>4. t * (a + b) = t * a + t * b
      OBVIOUS
    <3> QED
      BY <1>9, <3>1, <3>2, <3>3, <3>4
  <2> QED
    BY <2>2, <2>3, <2>4 DEF Sums
<1>11. Sums(G, g, n)
  <2>1. G \in [0 .. n -> Int] /\ G[0] = 0
    BY <1>9
  <2>2. ASSUME NEW i \in 1 .. n PROVE G[i] = G[i - 1] + g[i]
    <3>1. i \in 0 .. n /\ i - 1 \in 0 .. n
      OBVIOUS
    <3>2. i * z = (i - 1) * z + z
      OBVIOUS
    <3> QED
      BY <1>9, <3>1, <3>2
  <2> QED
    BY <2>1, <2>2 DEF Sums
<1>12. G[n] <= F[n]
  <2>1. f \in [1 .. n -> Int] /\ g \in [1 .. n -> Int]
    BY <1>5, <1>9
  <2>2. ASSUME NEW i \in 1 .. n PROVE g[i] <= f[i]
    <3>1. PICK a \in Int : a = p[i]
      BY <1>5
    <3>2. z <= a * t
      BY <1>7, <1>8, <3>1
    <3>3. a * t = t * a
      OBVIOUS
    <3> QED
      BY <1>9, <3>1, <3>2, <3>3
  <2> QED
    BY <1>10, <1>11, <2>1, <2>2, LessSums
<1>13. n * V <= 0
  <2>1. n * z <= t * (n * V)
    <3>1. n \in 0 .. n
      OBVIOUS
    <3> QED
      BY <1>6, <1>9, <1>12, <3>1
  <2>2. PICK u \in Int : u = n * V
    OBVIOUS
  <2>3. n * (V * n) = n * (n * V)
    OBVIOUS
  <2>4. n * u <= (n - 1) * u
    BY <1>8, <2>1, <2>2, <2>3
  <2>5. (n - 1) * u = n * u - u
    OBVIOUS
  <2>6. PICK v \in Int : v = n * u
    OBVIOUS
  <2>7. v <= v - u
    BY <2>4, <2>5, <2>6
  <2> QED
    BY <2>2, <2>7
<1>14. ASSUME NEW i \in 1 .. n PROVE xs[i] * n = S /\ xs[i] \in Int
  <2>1. \A a \in 1 .. n : 0 <= p[a]
    <3>1. ASSUME NEW a \in 1 .. n PROVE 0 <= p[a]
      <4>1. PICK y \in Int : y = xs[a] * n - S
        BY <1>1
      <4>2. 0 <= y * y
        OBVIOUS
      <4> QED
        BY <1>4, <4>1, <4>2 DEF Distances
    <3> QED
      BY <3>1
  <2>2. p[i] <= n * V
    BY <1>5, <1>6, <2>1, PartOfSum
  <2>3. PICK y \in Int : y = xs[i] * n - S
    BY <1>1
  <2>4. p[i] = y * y
    BY <1>4, <2>3 DEF Distances
  <2>5. y * y <= 0
    <3>1. PICK u \in Int, a \in Int : u = n * V /\ a = y * y
      OBVIOUS
    <3> QED
      BY <1>13, <2>2, <2>4, <3>1
  <2>6. y = 0
    BY <2>5
  <2>7. PICK x \in Int : x = xs[i]
    BY <1>1
  <2>8. PICK u \in Int : u = x * n
    OBVIOUS
  <2> QED
    BY <1>1, <2>3, <2>6, <2>7, <2>8
<1>15. PICK a \in Int, b \in Int : a = xs[j] /\ b = xs[k]
  BY <1>14
<1>16. a * n = b * n
  BY <1>14, <1>15
<1>17. a = b
  BY <1>3, <1>16, Cancel
<1> QED
  BY <1>15, <1>17

\* The samples of the calibration, and where its result is.
Sampled == {measured[i] : i \in 1 .. Len(measured)}

CyclesBetween == \A c \in cycles : \E low, high \in Sampled : low <= c /\ c <= high

\* The inductive invariants: the mask is kept in original while a calibration
\* runs, and the summary of the loop tells its samples.
ClocksInv ==
    /\ calibrating \in {"no", "failed"} => mask = allowed /\ original = {}
    /\ calibrating = "measuring" => original = allowed
    /\ measured \in Seq(CyclesPerMs) /\ Told(running, measured)
    /\ calibrating = "trapped" => Cardinality(Sampled) = 1
    /\ calibrating \in {"no", "failed"} /\ Len(measured) = Measurements => CyclesBetween

WatchInv ==
    /\ now \in Int /\ watch \in [start : Int, lastLap : Int] /\ laps \in Seq(Int)
    /\ Rounded(IntegerSum(laps), watch.lastLap - watch.start, Len(laps))

\* The sums of WithoutOutliers, by name.
Nearby == [i \in 1 .. Len(measured) |-> IF NearMean(measured[i]) THEN 1 ELSE 0]
NearSum == [i \in 1 .. Len(measured) |-> IF NearMean(measured[i]) THEN measured[i] ELSE 0]

LEMMA OutliersAre ==
    WithoutOutliers = IF IntegerSum(Nearby) = 0 THEN {} ELSE {IntegerSum(NearSum) \div IntegerSum(Nearby)}
  BY Zenon DEF WithoutOutliers, Nearby, NearSum

LEMMA MeasuredAre ==
    ASSUME ClocksInv
    PROVE  /\ measured \in Seq(Int) /\ Len(measured) \in Nat
           /\ \A i \in 1 .. Len(measured) : measured[i] \in CyclesPerMs /\ measured[i] \in Int
<1>1. measured \in Seq(CyclesPerMs) /\ CyclesPerMs \subseteq Int
  BY ClocksAssumption DEF ClocksInv
<1>2. measured \in Seq(Int)
  BY MomentsAre DEF ClocksInv, Told
<1>3. Len(measured) \in Nat
  BY <1>1
<1>4. ASSUME NEW i \in 1 .. Len(measured) PROVE measured[i] \in CyclesPerMs
  BY <1>1
<1> QED
  BY <1>1, <1>2, <1>3, <1>4

\* The count of samples near the mean, and their sum.
NearBy(n, u, v, U, V) ==
    /\ n \in Nat
    /\ n = Len(measured) /\ u \in [1 .. n -> Int] /\ v \in [1 .. n -> Int]
    /\ \A i \in 1 .. n : /\ u[i] = IF NearMean(measured[i]) THEN 1 ELSE 0
                         /\ v[i] = IF NearMean(measured[i]) THEN measured[i] ELSE 0
    /\ Sums(U, u, n) /\ U[n] = IntegerSum(Nearby)
    /\ Sums(V, v, n) /\ V[n] = IntegerSum(NearSum)

LEMMA NearCounted ==
    ASSUME ClocksInv
    PROVE  \E n, u, v, U, V : NearBy(n, u, v, U, V)
<1>1. PICK n \in Nat : n = Len(measured)
  BY MeasuredAre
<1>2. PICK u, v : u = Nearby /\ v = NearSum
  <2>1. PICK u : u = Nearby
    OBVIOUS
  <2> QED
    BY <2>1
<1>3. u \in [1 .. n -> Int] /\ v \in [1 .. n -> Int]
  <2>1. \A i \in 1 .. n : measured[i] \in Int
    BY <1>1, MeasuredAre
  <2> QED
    BY <1>1, <1>2, <2>1 DEF Nearby, NearSum
<1>4. \A i \in 1 .. n : /\ u[i] = IF NearMean(measured[i]) THEN 1 ELSE 0
                        /\ v[i] = IF NearMean(measured[i]) THEN measured[i] ELSE 0
  BY <1>1, <1>2 DEF Nearby, NearSum
<1>5. PICK U : Sums(U, u, n)
  BY <1>3, SumsOf
<1>6. PICK V : Sums(V, v, n)
  BY <1>3, SumsOf
<1>7. U[n] = IntegerSum(Nearby)
  <2>1. DOMAIN u = 1 .. n
    BY <1>3
  <2> QED
    BY <1>2, <1>5, <2>1, IntegerSumIs
<1>8. V[n] = IntegerSum(NearSum)
  <2>1. DOMAIN v = 1 .. n
    BY <1>3
  <2> QED
    BY <1>2, <1>6, <2>1, IntegerSumIs
<1>9. NearBy(n, u, v, U, V)
  BY <1>1, <1>3, <1>4, <1>5, <1>6, <1>7, <1>8 DEF NearBy
<1> QED
  BY <1>9

\* A division by zero tells that all samples were the same.
LEMMA TrapsAlone ==
    ASSUME ClocksInv, Len(measured) = Measurements, WithoutOutliers = {}
    PROVE  Cardinality(Sampled) = 1
<1>1. IntegerSum(Nearby) = 0
  BY OutliersAre
<1>0. PICK m, u, v, U, V : NearBy(m, u, v, U, V)
  BY NearCounted
<1>n. PICK n \in Nat : n = m
  BY <1>0, <1>n DEF NearBy
<1>2. /\ n \in Nat
      /\ n = Len(measured) /\ u \in [1 .. n -> Int] /\ v \in [1 .. n -> Int]
      /\ \A i \in 1 .. n : /\ u[i] = IF NearMean(measured[i]) THEN 1 ELSE 0
                           /\ v[i] = IF NearMean(measured[i]) THEN measured[i] ELSE 0
      /\ Sums(U, u, n) /\ U[n] = IntegerSum(Nearby)
      /\ Sums(V, v, n) /\ V[n] = IntegerSum(NearSum)
  BY <1>0, <1>n DEF NearBy
<1>3. n = Len(measured) /\ n = Measurements /\ n >= 2 /\ n \in Nat
  BY <1>2, ClocksAssumption
<1>4. ASSUME NEW i \in 1 .. n PROVE ~ NearMean(measured[i])
  <2>1. \A a \in 1 .. n : 0 <= u[a]
    BY <1>2
  <2>2. u \in [1 .. n -> Int] /\ Sums(U, u, n) /\ U[n] = 0
    BY <1>1, <1>2
  <2>3. u[i] <= U[n]
    BY <1>3, <2>1, <2>2, PartOfSum
  <2>4. u[i] = IF NearMean(measured[i]) THEN 1 ELSE 0
    BY <1>2
  <2> QED
    BY <2>2, <2>3, <2>4
<1>5. PICK S, Q : Moments(measured, S, Q) /\ Tells(running, Len(measured), S, Q)
  BY DEF ClocksInv, Told
<1>6. ASSUME NEW i \in 1 .. n
      PROVE  LET d == Minus(Rational(measured[i]), running.mean)
                 square == Times(d, d)
                 variance == DividedBy(running.m2, n - 1)
             IN  ~ square[1] * variance[2] < variance[1] * square[2]
  BY <1>3, <1>4 DEF NearMean
<1>7. ASSUME NEW j \in 1 .. n, NEW k \in 1 .. n PROVE measured[j] = measured[k]
  <2>1. Tells(running, n, S, Q) /\ Moments(measured, S, Q) /\ Len(measured) = n
    BY <1>3, <1>5
  <2> QED
    BY <1>3, <1>6, <2>1, NoneNear
<1>8. Sampled = {measured[1]}
  <2>1. 1 \in 1 .. n
    BY <1>3
  <2>2. \A i \in 1 .. n : measured[i] = measured[1]
    BY <1>7, <2>1
  <2> QED
    BY <1>3, <2>1, <2>2 DEF Sampled
<1> QED
  BY <1>8, FS_Singleton

\* An average that is rounded down is between two of the samples.
LEMMA Floor ==
    ASSUME NEW a \in Int, NEW b \in Nat, b # 0
    PROVE  a \div b \in Int /\ (a \div b) * b <= a /\ a < (a \div b + 1) * b
  OBVIOUS

LEMMA AverageBetween ==
    ASSUME ClocksInv, NEW c \in WithoutOutliers
    PROVE  \E low, high \in Sampled : low <= c /\ c <= high
<1>0. PICK m, u, v, U, V : NearBy(m, u, v, U, V)
  BY NearCounted
<1>n. PICK n \in Nat : n = m
  BY <1>0 DEF NearBy
<1>1. /\ n \in Nat
      /\ n = Len(measured) /\ u \in [1 .. n -> Int] /\ v \in [1 .. n -> Int]
      /\ \A i \in 1 .. n : /\ u[i] = IF NearMean(measured[i]) THEN 1 ELSE 0
                           /\ v[i] = IF NearMean(measured[i]) THEN measured[i] ELSE 0
      /\ Sums(U, u, n) /\ U[n] = IntegerSum(Nearby)
      /\ Sums(V, v, n) /\ V[n] = IntegerSum(NearSum)
  BY <1>0, <1>n DEF NearBy
<1>2. U[n] # 0 /\ c = V[n] \div U[n]
  BY <1>1, OutliersAre
<1>3. PICK count \in Nat, sum \in Int : count = U[n] /\ sum = V[n] /\ count # 0
  <2>1. Sums(U, u, n) /\ Sums(V, v, n) /\ u \in [1 .. n -> Int]
    BY <1>1
  <2>2. U[n] \in Int /\ V[n] \in Int
    BY <2>1, SumsLast
  <2>3. 0 <= U[n]
    <3>1. PICK z, Z : z = [i \in 1 .. n |-> 0] /\ Z = [i \in 0 .. n |-> 0]
      <4>1. PICK z : z = [i \in 1 .. n |-> 0]
        OBVIOUS
      <4> QED
        BY <4>1
    <3>2. Sums(Z, z, n) /\ z \in [1 .. n -> Int]
      BY <3>1 DEF Sums
    <3>3. \A i \in 1 .. n : z[i] <= u[i]
      BY <1>1, <3>1
    <3>4. Z[n] <= U[n]
      BY <2>1, <3>2, <3>3, LessSums
    <3> QED
      BY <3>1, <3>4
  <2> QED
    BY <1>2, <2>2, <2>3
<1>4. c \in Int /\ c * count <= sum /\ sum < (c + 1) * count
  BY <1>2, <1>3, Floor
<1>5. \A i \in 1 .. n : measured[i] \in Sampled /\ measured[i] \in Int
  BY <1>1, MeasuredAre DEF Sampled
<1>6. ASSUME NEW k \in Int
      PROVE  \E w, W : /\ Sums(W, w, n) /\ w \in [1 .. n -> Int] /\ \A i \in 1 .. n : w[i] = k * u[i]
                       /\ W[n] = k * count
  <2>1. PICK w : w = [i \in 1 .. n |-> k * u[i]]
    OBVIOUS
  <2>2. \A i \in 1 .. n : w[i] = k * u[i] /\ u[i] \in Int
    BY <1>1, <2>1
  <2>3. w \in [1 .. n -> Int]
    BY <2>1, <2>2
  <2>4. PICK W : Sums(W, w, n)
    BY <2>3, SumsOf
  <2>5. PICK z \in Int : z = 0
    OBVIOUS
  <2>6. Mixed(w, W, n, k, u, U, z, u, U, z, u, U)
    <3>1. ASSUME NEW i \in 1 .. n PROVE w[i] = k * u[i] + z * u[i] + z * u[i]
      <4>1. PICK a \in Int : a = u[i]
        BY <2>2
      <4>2. k * a = k * a + z * a + z * a
        BY <2>5
      <4> QED
        BY <2>2, <4>1, <4>2
    <3> QED
      BY <1>1, <2>4, <3>1 DEF Mixed
  <2>7. W[n] = k * U[n] + z * U[n] + z * U[n]
    BY <2>6, MixedSums
  <2>8. k * count + z * count + z * count = k * count
    BY <2>5
  <2>9. W[n] = k * count
    BY <1>3, <2>7, <2>8
  <2> QED
    BY <2>2, <2>3, <2>4, <2>9
<1>7. \E i \in 1 .. n : measured[i] <= c
  <2> SUFFICES ASSUME \A i \in 1 .. n : ~ measured[i] <= c PROVE FALSE
    OBVIOUS
  <2>1. PICK k \in Int : k = c + 1
    BY <1>4
  <2>2. PICK w, W : /\ Sums(W, w, n) /\ w \in [1 .. n -> Int] /\ \A i \in 1 .. n : w[i] = k * u[i]
                    /\ W[n] = k * count
    BY <1>6
  <2>3. ASSUME NEW i \in 1 .. n PROVE w[i] <= v[i]
    <3>1. k <= measured[i] /\ measured[i] \in Int
      BY <1>4, <1>5, <2>1
    <3>2. w[i] = k * u[i]
      BY <2>2
    <3>3. CASE NearMean(measured[i])
      <4>1. u[i] = 1 /\ v[i] = measured[i]
        BY <1>1, <3>3
      <4> QED
        BY <3>1, <3>2, <4>1
    <3>4. CASE ~ NearMean(measured[i])
      <4>1. u[i] = 0 /\ v[i] = 0
        BY <1>1, <3>4
      <4> QED
        BY <3>2, <4>1
    <3> QED
      BY <3>3, <3>4
  <2>4. W[n] <= V[n]
    BY <1>1, <2>2, <2>3, LessSums
  <2>5. PICK a \in Int : a = k * count
    OBVIOUS
  <2> QED
    BY <1>3, <1>4, <2>1, <2>2, <2>4, <2>5
<1>8. \E i \in 1 .. n : c <= measured[i]
  <2> SUFFICES ASSUME \A i \in 1 .. n : ~ c <= measured[i] PROVE FALSE
    OBVIOUS
  <2>1. PICK k \in Int : k = c - 1
    BY <1>4
  <2>2. PICK w, W : /\ Sums(W, w, n) /\ w \in [1 .. n -> Int] /\ \A i \in 1 .. n : w[i] = k * u[i]
                    /\ W[n] = k * count
    BY <1>6
  <2>3. ASSUME NEW i \in 1 .. n PROVE v[i] <= w[i]
    <3>1. measured[i] <= k /\ measured[i] \in Int
      BY <1>4, <1>5, <2>1
    <3>2. w[i] = k * u[i]
      BY <2>2
    <3>3. CASE NearMean(measured[i])
      <4>1. u[i] = 1 /\ v[i] = measured[i]
        BY <1>1, <3>3
      <4> QED
        BY <3>1, <3>2, <4>1
    <3>4. CASE ~ NearMean(measured[i])
      <4>1. u[i] = 0 /\ v[i] = 0
        BY <1>1, <3>4
      <4> QED
        BY <3>2, <4>1
    <3> QED
      BY <3>3, <3>4
  <2>4. V[n] <= W[n]
    BY <1>1, <2>2, <2>3, LessSums
  <2>5. PICK a \in Int, b \in Int : a = k * count /\ b = c * count
    BY <1>4
  <2>6. b = a + count
    BY <1>4, <2>1, <2>5
  <2>7. b <= sum
    BY <1>4, <2>5
  <2>8. sum <= a
    BY <1>3, <2>2, <2>4, <2>5
  <2> QED
    BY <1>3, <2>6, <2>7, <2>8
<1> QED
  BY <1>5, <1>7, <1>8

\* The steps of the calibration and of the stopwatch.
LEMMA SampledStays == ASSUME measured' = measured PROVE Sampled' = Sampled
  BY DEF Sampled

LEMMA ClocksInvStays ==
    ASSUME ClocksInv, UNCHANGED tscVars
    PROVE  ClocksInv'
  BY SampledStays DEF ClocksInv, tscVars, CyclesBetween

LEMMA NoRounding == Rounded(0, 0, 0) /\ \A d \in Int : d - d = 0
<1>1. TicksPerUnit \in Nat \ {0}
  BY ClocksAssumption
<1> QED
  BY <1>1 DEF Rounded

\* One cast rounds by less than a unit.
LEMMA CastRounds ==
    ASSUME NEW d \in Int
    PROVE  duration_cast(d) \in Int /\ Rounded(duration_cast(d), d, 1)
<1>1. PICK t \in Nat : t = TicksPerUnit /\ t # 0
  BY ClocksAssumption
<1>2. CASE d < 0
  <2>1. PICK q \in Int : q = (-d) \div t /\ q * t <= -d /\ -d < (q + 1) * t
    BY <1>1, <1>2, Floor
  <2>2. duration_cast(d) = -q
    BY <1>1, <1>2, <2>1 DEF duration_cast
  <2>3. (q + 1) * t = q * t + t /\ (-q) * t = -(q * t) /\ q * t \in Int /\ 1 * (t - 1) = t - 1
    BY <1>1, <2>1
  <2>4. -(t - 1) <= (-q) * t - d /\ (-q) * t - d <= t - 1
    BY <1>1, <2>1, <2>3
  <2> QED
    BY <1>1, <2>1, <2>2, <2>3, <2>4 DEF Rounded
<1>3. CASE ~ d < 0
  <2>1. PICK q \in Int : q = d \div t /\ q * t <= d /\ d < (q + 1) * t
    BY <1>1, <1>3, Floor
  <2>2. duration_cast(d) = q
    BY <1>1, <1>3, <2>1 DEF duration_cast
  <2>3. (q + 1) * t = q * t + t /\ q * t \in Int /\ 1 * (t - 1) = t - 1
    BY <1>1, <2>1
  <2>4. -(t - 1) <= q * t - d /\ q * t - d <= t - 1
    BY <1>1, <2>1, <2>3
  <2> QED
    BY <1>1, <2>1, <2>2, <2>3, <2>4 DEF Rounded
<1> QED
  BY <1>2, <1>3

\* Roundings add up.
LEMMA RoundingsAdd ==
    ASSUME NEW a \in Int, NEW d \in Int, NEW n \in Nat, Rounded(a, d, n),
           NEW b \in Int, NEW e \in Int, NEW m \in Nat, Rounded(b, e, m)
    PROVE  Rounded(a + b, d + e, n + m) /\ Rounded(b - a, e - d, n + m)
<1>1. PICK t \in Nat : t = TicksPerUnit /\ t # 0
  BY ClocksAssumption
<1>2. PICK x \in Int, y \in Int, u \in Int, v \in Int :
          x = a * t /\ y = b * t /\ u = n * (t - 1) /\ v = m * (t - 1)
  BY <1>1
<1>3. (a + b) * t = x + y /\ (b - a) * t = y - x /\ (n + m) * (t - 1) = u + v
  BY <1>1, <1>2
<1>4. -u <= x - d /\ x - d <= u /\ -v <= y - e /\ y - e <= v
  BY <1>1, <1>2 DEF Rounded
<1>5. /\ -(u + v) <= (x + y) - (d + e) /\ (x + y) - (d + e) <= u + v
      /\ -(u + v) <= (y - x) - (e - d) /\ (y - x) - (e - d) <= u + v
  BY <1>2, <1>4
<1> QED
  BY <1>1, <1>3, <1>5 DEF Rounded

LEMMA InitClocksInv == ClocksInit => ClocksInv /\ WatchInv
<1> SUFFICES ASSUME ClocksInit PROVE ClocksInv /\ WatchInv
  OBVIOUS
<1>1. ClocksInv
  <2>1. calibrating = "no" /\ mask = allowed /\ original = {} /\ measured = <<>> /\ running = EmptySummary /\ cycles = {}
    BY DEF ClocksInit
  <2>2. Told(running, measured)
    BY <2>1, NothingTold
  <2>3. <<>> \in Seq(CyclesPerMs)
    OBVIOUS
  <2> QED
    BY <2>1, <2>2, <2>3 DEF ClocksInv, CyclesBetween
<1>2. WatchInv
  <2>1. now = 0 /\ watch = [start |-> 0, lastLap |-> 0] /\ laps = <<>>
    BY DEF ClocksInit
  <2>2. IntegerSum(<<>>) = 0 /\ <<>> \in Seq(Int) /\ Len(<<>>) = 0
    BY NoMoments, MomentsAre
  <2>3. Rounded(0, 0 - 0, 0)
    BY NoRounding
  <2> QED
    BY <2>1, <2>2, <2>3 DEF WatchInv
<1> QED
  BY <1>1, <1>2

LEMMA StartCalibrationStep == ASSUME ClocksInv, StartCalibration PROVE ClocksInv'
<1>1. calibrating = "no" /\ measured' = <<>> /\ running' = EmptySummary /\ allowed' = allowed /\ cycles' = cycles
  BY DEF StartCalibration
<1>2. \/ original' = mask /\ calibrating' = "measuring"
      \/ calibrating' = "failed" /\ mask' = mask /\ original' = original
  BY DEF StartCalibration
<1>3. mask = allowed /\ original = {}
  BY <1>1 DEF ClocksInv
<1>4. Told(running', measured') /\ measured' \in Seq(CyclesPerMs) /\ Len(measured') = 0 /\ Measurements # 0
  BY <1>1, NothingTold, ClocksAssumption
<1> QED
  BY <1>1, <1>2, <1>3, <1>4 DEF ClocksInv

LEMMA MeasureStep == ASSUME ClocksInv, Measure PROVE ClocksInv'
<1>1. PICK cpm \in CyclesPerMs : measured' = Append(measured, cpm) /\ running' = Added(running, cpm)
  BY DEF Measure
<1>2. calibrating = "measuring" /\ allowed' = allowed /\ mask' = mask /\ original' = original
      /\ calibrating' = calibrating /\ cycles' = cycles
  BY DEF Measure
<1>3. measured \in Seq(CyclesPerMs) /\ Told(running, measured) /\ original = allowed
  BY <1>2 DEF ClocksInv
<1>4. cpm \in Int
  BY ClocksAssumption
<1>5. measured' \in Seq(CyclesPerMs)
  BY <1>1, <1>3
<1>6. Told(running', measured')
  BY <1>1, <1>3, <1>4, MoreTold
<1> QED
  BY <1>2, <1>3, <1>5, <1>6 DEF ClocksInv

LEMMA FinishCalibrationStep == ASSUME ClocksInv, FinishCalibration PROVE ClocksInv'
<1>1. calibrating = "measuring" /\ Len(measured) = Measurements
      /\ allowed' = allowed /\ measured' = measured /\ running' = running
  BY DEF FinishCalibration
<1>2. original = allowed /\ measured \in Seq(CyclesPerMs) /\ Told(running, measured)
  BY <1>1 DEF ClocksInv
<1>3. Sampled' = Sampled
  BY <1>1, SampledStays
<1>4. CASE WithoutOutliers = {}
  <2>1. calibrating' = "trapped"
    BY <1>4 DEF FinishCalibration
  <2>2. Cardinality(Sampled) = 1
    BY <1>1, <1>4, TrapsAlone
  <2> QED
    BY <1>1, <1>2, <1>3, <2>1, <2>2 DEF ClocksInv
<1>5. CASE WithoutOutliers # {}
  <2>1. calibrating' = "no" /\ cycles' = WithoutOutliers /\ mask' = original /\ original' = {}
    BY <1>5 DEF FinishCalibration, RestoredMask
  <2>2. CyclesBetween'
    BY <1>3, <2>1, AverageBetween DEF CyclesBetween
  <2> QED
    BY <1>1, <1>2, <2>1, <2>2 DEF ClocksInv
<1> QED
  BY <1>4, <1>5

LEMMA GiveUpStep == ASSUME ClocksInv, GiveUp PROVE ClocksInv'
<1>1. /\ calibrating = "failed" /\ calibrating' = "no"
      /\ UNCHANGED <<allowed, mask, original, measured, running, cycles>>
  BY DEF GiveUp
<1>2. Sampled' = Sampled
  BY <1>1, SampledStays
<1> QED
  BY <1>1, <1>2 DEF ClocksInv, CyclesBetween

LEMMA StopwatchStep == ASSUME WatchInv, StopwatchNext PROVE WatchInv'
<1>1. /\ now \in Int /\ watch \in [start : Int, lastLap : Int] /\ laps \in Seq(Int)
      /\ Rounded(IntegerSum(laps), watch.lastLap - watch.start, Len(laps))
  BY DEF WatchInv
<1>2. CASE Tick
  <2>1. now' \in Int /\ watch' = watch /\ laps' = laps
    BY <1>2, ClocksAssumption DEF Tick
  <2> QED
    BY <1>1, <2>1 DEF WatchInv
<1>3. CASE ResetWatch
  <2>1. watch' = [start |-> now, lastLap |-> now] /\ laps' = <<>> /\ now' = now
    BY <1>3 DEF ResetWatch
  <2>2. IntegerSum(<<>>) = 0 /\ <<>> \in Seq(Int) /\ Len(<<>>) = 0
    BY NoMoments, MomentsAre
  <2>3. Rounded(0, now - now, 0)
    BY <1>1, NoRounding
  <2> QED
    BY <1>1, <2>1, <2>2, <2>3 DEF WatchInv
<1>4. CASE LapTime
  <2>1. /\ laps' = Append(laps, duration_cast(now - watch.lastLap)) /\ now' = now
        /\ watch' = [watch EXCEPT !.lastLap = now]
    BY <1>4 DEF LapTime
  <2>2. PICK e \in Int : e = now - watch.lastLap
    BY <1>1
  <2>3. PICK d \in Int : d = duration_cast(e) /\ Rounded(d, e, 1)
    BY <2>2, CastRounds
  <2>4. PICK S \in Int, Q \in Int : Moments(laps, S, Q)
    BY <1>1, MomentsOf
  <2>5. Moments(Append(laps, d), S + d, Q + d * d)
    BY <2>3, <2>4, AppendedMoments
  <2>6. S = IntegerSum(laps) /\ Append(laps, d) \in Seq(Int) /\ S + d = IntegerSum(Append(laps, d))
    BY <2>4, <2>5, MomentsAre
  <2>7. laps' = Append(laps, d)
    BY <2>1, <2>2, <2>3
  <2>8. watch' = [start |-> watch.start, lastLap |-> now]
    BY <1>1, <2>1
  <2>9. PICK f \in Int, n \in Nat : f = watch.lastLap - watch.start /\ n = Len(laps)
    BY <1>1
  <2>10. Rounded(S + d, f + e, n + 1)
    BY <1>1, <2>3, <2>6, <2>9, RoundingsAdd
  <2>11. f + e = now - watch.start
    BY <1>1, <2>2, <2>9
  <2>12. Len(laps') = n + 1 /\ laps' \in Seq(Int)
    BY <1>1, <2>6, <2>7, <2>9
  <2>13. watch'.lastLap - watch'.start = f + e /\ watch' \in [start : Int, lastLap : Int]
    BY <1>1, <2>8, <2>11
  <2>14. IntegerSum(laps') = S + d
    BY <2>6, <2>7
  <2> QED
    BY <1>1, <2>1, <2>10, <2>12, <2>13, <2>14 DEF WatchInv
<1> QED
  BY <1>2, <1>3, <1>4 DEF StopwatchNext

LEMMA StepClocksInv ==
    ClocksInv /\ WatchInv /\ [TscNext \/ StopwatchNext]_clocksVars => ClocksInv' /\ WatchInv'
<1> SUFFICES ASSUME ClocksInv, WatchInv, [TscNext \/ StopwatchNext]_clocksVars PROVE ClocksInv' /\ WatchInv'
  OBVIOUS
<1>1. ASSUME UNCHANGED watchVars PROVE WatchInv'
  BY <1>1 DEF watchVars, WatchInv
<1>2. CASE UNCHANGED clocksVars
  BY <1>1, <1>2, ClocksInvStays DEF clocksVars
<1>3. CASE StartCalibration
  BY <1>1, <1>3, StartCalibrationStep DEF StartCalibration
<1>4. CASE Measure
  BY <1>1, <1>4, MeasureStep DEF Measure
<1>5. CASE FinishCalibration
  BY <1>1, <1>5, FinishCalibrationStep DEF FinishCalibration
<1>6. CASE GiveUp
  BY <1>1, <1>6, GiveUpStep DEF GiveUp
<1>7. CASE StopwatchNext
  <2>1. UNCHANGED tscVars
    BY <1>7 DEF StopwatchNext, Tick, ResetWatch, LapTime
  <2> QED
    BY <1>7, <2>1, ClocksInvStays, StopwatchStep
<1> QED
  BY <1>2, <1>3, <1>4, <1>5, <1>6, <1>7 DEF TscNext

LEMMA ClocksInvSound == ASSUME ClocksInv, WatchInv PROVE CalibrationSound /\ LapsPartition
<1>1. Describes(running, measured)
  BY ToldDescribes DEF ClocksInv
<1>2. CalibrationSound
  BY <1>1 DEF CalibrationSound, ClocksInv, CyclesBetween, Sampled
<1>3. LapsPartition
  <2>1. /\ now \in Int /\ watch \in [start : Int, lastLap : Int] /\ laps \in Seq(Int)
        /\ Rounded(IntegerSum(laps), watch.lastLap - watch.start, Len(laps))
    BY DEF WatchInv
  <2>2. ASSUME now = watch.lastLap PROVE Rounded(get - IntegerSum(laps), 0, Len(laps) + 1)
    <3>1. PICK e \in Int : e = now - watch.start
      BY <2>1
    <3>2. PICK d \in Int : d = get /\ Rounded(d, e, 1)
      BY <3>1, CastRounds DEF get
    <3>3. PICK S \in Int, Q \in Int : Moments(laps, S, Q)
      BY <2>1, MomentsOf
    <3>4. S = IntegerSum(laps)
      BY <3>3, MomentsAre
    <3>5. PICK n \in Nat : n = Len(laps)
      BY <2>1
    <3>6. Rounded(S, e, n)
      BY <2>1, <2>2, <3>1, <3>4, <3>5
    <3>7. Rounded(d - S, e - e, n + 1)
      BY <3>2, <3>6, RoundingsAdd
    <3>8. e - e = 0
      OBVIOUS
    <3> QED
      BY <3>2, <3>4, <3>5, <3>7, <3>8
  <2> QED
    BY <2>1, <2>2 DEF LapsPartition
<1> QED
  BY <1>2, <1>3

\* Summaries describe their samples exactly, also combined; a calibration gives a
\* number between its samples and the affinity back, and fails to only by a
\* division by zero when all samples were the same; the laps of a stopwatch follow
\* each other without a gap, but for the rounding of each: for any number of
\* threads, samples and processors (welford.hpp:14-79, tsc.hpp:89-126, stopwatch.hpp).
THEOREM MeasurementsAlwaysSound == WelfordSpec /\ ClocksSpec => []MeasurementsSound
<1>1. WelfordInit => WelfordInv
  BY InitWelfordInv
<1>2. WelfordInv /\ [WelfordNext]_welfordVars => WelfordInv'
  BY StepWelfordInv
<1>3. ClocksInit => ClocksInv /\ WatchInv
  BY InitClocksInv
<1>4. ClocksInv /\ WatchInv /\ [TscNext \/ StopwatchNext]_clocksVars => ClocksInv' /\ WatchInv'
  BY StepClocksInv
<1>5. WelfordInv /\ ClocksInv /\ WatchInv => MeasurementsSound
  BY WelfordInvExact, ClocksInvSound DEF MeasurementsSound
<1> QED
  BY <1>1, <1>2, <1>3, <1>4, <1>5, PTL DEF WelfordSpec, ClocksSpec

=============================================================================
