---------------------------- MODULE LifecycleProofs ----------------------------
(***************************************************************************)
(* The safety properties of Lifecycle for any number of ranks, in any      *)
(* placement, and any sizes.  The inductive invariant says which calls a   *)
(* rank has made where it is, that only the first rank of a node changes   *)
(* the size of the memory, before it comes to the barrier, and that there  *)
(* are no Gets but those of ranks that hold a store.                       *)
(***************************************************************************)
EXTENDS Lifecycle, WellFoundedInduction, TLAPS

\* Where a rank has a map, and is about to have one.
HasMap  == {"create", "ready", "free"}
HasSeen == {"open", "map", "create", "ready", "free", "gone"}

Types ==
    /\ TypeOK
    /\ devdax \in [Nodes -> BOOLEAN]
    /\ request \in [Nodes -> Nat]

\* The calls that a rank has made, and those it has returned from.
CallsMade ==
    \A r \in Ranks :
        /\ r \in called["barrier"] => stage[r] \notin {"outside", "split", "device"}
        /\ stage[r] \in HasSeen => OnNode(r) \subseteq called["barrier"]
        /\ stage[r] \in HasMap \cup {"gone"} => r \in called["create"]
        /\ stage[r] \in {"ready", "free", "gone"} => called["create"] = Ranks
        /\ r \in called["create"] => stage[r] \in HasMap \cup {"gone"}
        /\ r \in called["free"] => stage[r] \in {"free", "gone"}
        /\ stage[r] = "gone" => called["free"] = Ranks

\* Maps and their sizes.
MapsMade ==
    \A r \in Ranks :
        /\ mapped[r] > 0 <=> stage[r] \in HasMap
        /\ mapped[r] > 0 => mapped[r] = file[NodeOf[r]]
        /\ First(r) \in called["barrier"] =>
              /\ file[NodeOf[r]] >= 0
              /\ ~ devdax[NodeOf[r]] /\ request[NodeOf[r]] > 0 => file[NodeOf[r]] = request[NodeOf[r]]

GetsOfReady ==
    \A r \in Ranks : gets[r] # {} => stage[r] = "ready"

IInv == Types /\ CallsMade /\ MapsMade /\ GetsOfReady

-----------------------------------------------------------------------------

\* The first rank of a node is a rank of it, and the same for all of them.
LEMMA FirstOnNode ==
    ASSUME NEW r \in Ranks
    PROVE  /\ First(r) \in OnNode(r)
           /\ First(r) \in Ranks
           /\ NodeOf[First(r)] = NodeOf[r]
           /\ \A q \in OnNode(r) : First(q) = First(r) /\ OnNode(q) = OnNode(r)
           /\ OnNode(r) \subseteq Ranks /\ r \in OnNode(r)
<1>1. OnNode(r) \subseteq Nat /\ r \in OnNode(r) /\ OnNode(r) \subseteq Ranks
  BY LifecycleAssumption DEF OnNode, Ranks
<1>2. PICK q \in OnNode(r) : \A p \in OnNode(r) : ~ (<<p, q>> \in OpToRel(<, Nat))
  BY <1>1, NatLessThanWellFounded, WFMin
<1>3. ASSUME NEW p \in OnNode(r) PROVE q <= p
  <2>1. p \in Nat /\ q \in Nat
    BY <1>1
  <2>2. <<p, q>> \in Nat \X Nat /\ <<p, q>>[1] = p /\ <<p, q>>[2] = q
    BY <2>1
  <2>3. ~ (p < q)
    BY <1>2, <2>2 DEF OpToRel
  <2> QED
    BY <2>1, <2>3
<1>4. First(r) \in OnNode(r)
  BY <1>3 DEF First
<1>5. \A p \in OnNode(r) : OnNode(p) = OnNode(r)
  BY DEF OnNode
<1>6. \A p \in OnNode(r) : First(p) = First(r)
  BY <1>5 DEF First
<1> QED
  BY <1>1, <1>4, <1>5, <1>6 DEF OnNode

LEMMA InitIInv == Init => IInv
<1> SUFFICES ASSUME Init PROVE IInv
  OBVIOUS
<1>1. Types
  BY LifecycleAssumption DEF Init, Types, TypeOK, Stages, Nodes
<1>2. CallsMade
  BY DEF Init, CallsMade, HasSeen, HasMap, Collectives
<1>3. MapsMade
  BY FirstOnNode DEF Init, MapsMade, HasMap, Collectives
<1>4. GetsOfReady
  BY DEF Init, GetsOfReady
<1> QED
  BY <1>1, <1>2, <1>3, <1>4 DEF IInv

-----------------------------------------------------------------------------
(* The invariant is inductive. *)

LEMMA NextIInv == IInv /\ [Next]_vars => IInv'
<1> SUFFICES ASSUME IInv, [Next]_vars PROVE IInv'
  OBVIOUS
<1> USE DEF IInv
<1>1. ASSUME NEW r \in Ranks, Split(r) PROVE IInv'
  <2>1. Types'
    BY <1>1, LifecycleAssumption DEF Split, Types, TypeOK, Stages, Collectives, GoTo, Call
  <2>2. CallsMade'
    BY <1>1, FirstOnNode DEF Split, CallsMade, Types, TypeOK, Stages, Collectives, GoTo, Call, HasSeen, HasMap
  <2>3. MapsMade'
    BY <1>1, FirstOnNode DEF Split, MapsMade, CallsMade, Types, TypeOK, Collectives, GoTo, Call, HasSeen, HasMap
  <2>4. GetsOfReady'
    BY <1>1 DEF Split, GetsOfReady, Types, TypeOK, GoTo, Call
  <2> QED
    BY <2>1, <2>2, <2>3, <2>4
<1>2. ASSUME NEW r \in Ranks, HasTopology(r) PROVE IInv'
  <2>1. Types'
    BY <1>2, LifecycleAssumption DEF HasTopology, Types, TypeOK, Stages, GoTo
  <2>2. CallsMade'
    BY <1>2, FirstOnNode DEF HasTopology, CallsMade, Types, TypeOK, GoTo, HasSeen, HasMap
  <2>3. MapsMade'
    BY <1>2, FirstOnNode DEF HasTopology, MapsMade, Types, TypeOK, GoTo, HasMap
  <2>4. GetsOfReady'
    BY <1>2 DEF HasTopology, GetsOfReady, Types, TypeOK, GoTo, Call
  <2> QED
    BY <2>1, <2>2, <2>3, <2>4
<1>3. ASSUME NEW r \in Ranks, OpenDevice(r) PROVE IInv'
  <2>1. Types'
    BY <1>3, LifecycleAssumption DEF OpenDevice, Types, TypeOK, Stages, Collectives, GoTo, Call, Opened, Nodes
  <2>2. CallsMade'
    BY <1>3, FirstOnNode DEF OpenDevice, CallsMade, Types, TypeOK, Stages, Collectives, GoTo, Call, HasSeen, HasMap
  <2>3. MapsMade'
    <3> DEFINE n == NodeOf[r]
    <3>1. n \in Nodes /\ r = First(r) /\ r \notin called["barrier"] /\ stage[r] = "device"
      BY <1>3 DEF OpenDevice, CallsMade, Nodes
    <3>2. \A q \in OnNode(r) : ~ (mapped[q] > 0) /\ stage[q] \notin HasSeen
      BY <3>1, FirstOnNode DEF CallsMade, MapsMade, HasSeen, HasMap
    <3>3. \A m \in Nodes \ {n} : file'[m] = file[m]
      BY <1>3 DEF OpenDevice, Types, TypeOK
    <3>4. UNCHANGED <<mapped, devdax, request>>
      BY <1>3 DEF OpenDevice
    <3>5. stage'[r] \notin HasMap /\ \A q \in Ranks \ {r} : stage'[q] = stage[q]
      BY <1>3 DEF OpenDevice, GoTo, Types, TypeOK, HasMap
    <3> SUFFICES ASSUME NEW q \in Ranks
                 PROVE  /\ mapped[q] > 0 <=> stage'[q] \in HasMap
                        /\ mapped[q] > 0 => mapped[q] = file'[NodeOf[q]]
                        /\ First(q) \in called'["barrier"] =>
                              /\ file'[NodeOf[q]] >= 0
                              /\ ~ devdax[NodeOf[q]] /\ request[NodeOf[q]] > 0 =>
                                    file'[NodeOf[q]] = request[NodeOf[q]]
      BY <3>4 DEF MapsMade
    <3>6. CASE q \in OnNode(r)
      <4>1. NodeOf[q] = n /\ First(q) = r
        BY <3>1, <3>6, FirstOnNode DEF OnNode
      <4>2. stage'[q] \notin HasMap
        BY <3>2, <3>5, <3>6 DEF HasMap, HasSeen
      <4>3. r \in called'["barrier"] =>
               /\ file'[n] >= 0
               /\ ~ devdax[n] /\ request[n] > 0 => file'[n] = request[n]
        BY <1>3, <3>1 DEF OpenDevice, Types, TypeOK, Opened, Absent
      <4> QED
        BY <3>2, <3>6, <4>1, <4>2, <4>3
    <3>7. CASE q \notin OnNode(r)
      <4>1. NodeOf[q] \in Nodes \ {n} /\ q # r
        BY <3>7, FirstOnNode DEF OnNode, Nodes
      <4>2. First(q) # r
        BY <4>1, FirstOnNode
      <4>3. First(q) \in called'["barrier"] => First(q) \in called["barrier"]
        BY <1>3, <4>2 DEF OpenDevice, Call, Types, TypeOK, Collectives
      <4> QED
        BY <3>3, <3>5, <4>1, <4>3 DEF MapsMade
    <3> QED
      BY <3>6, <3>7
  <2>4. GetsOfReady'
    BY <1>3 DEF OpenDevice, GetsOfReady, Types, TypeOK, GoTo, Call
  <2> QED
    BY <2>1, <2>2, <2>3, <2>4
<1>4. ASSUME NEW r \in Ranks, OpenDeviceThrows(r) PROVE IInv'
  <2>1. Types'
    BY <1>4, LifecycleAssumption DEF OpenDeviceThrows, Types, TypeOK, Stages, Collectives, GoTo, Call, Opened, Nodes
  <2>2. CallsMade'
    BY <1>4, FirstOnNode DEF OpenDeviceThrows, CallsMade, Types, TypeOK, Stages, Collectives, GoTo, Call, HasSeen, HasMap
  <2>3. MapsMade'
    <3> DEFINE n == NodeOf[r]
    <3>1. n \in Nodes /\ r = First(r) /\ r \notin called["barrier"] /\ stage[r] = "device"
      BY <1>4 DEF OpenDeviceThrows, CallsMade, Nodes
    <3>2. \A q \in OnNode(r) : ~ (mapped[q] > 0) /\ stage[q] \notin HasSeen
      BY <3>1, FirstOnNode DEF CallsMade, MapsMade, HasSeen, HasMap
    <3>3. \A m \in Nodes \ {n} : file'[m] = file[m]
      BY <1>4 DEF OpenDeviceThrows, Types, TypeOK
    <3>4. UNCHANGED <<mapped, devdax, request>>
      BY <1>4 DEF OpenDeviceThrows
    <3>5. stage'[r] \notin HasMap /\ \A q \in Ranks \ {r} : stage'[q] = stage[q]
      BY <1>4 DEF OpenDeviceThrows, GoTo, Types, TypeOK, HasMap
    <3> SUFFICES ASSUME NEW q \in Ranks
                 PROVE  /\ mapped[q] > 0 <=> stage'[q] \in HasMap
                        /\ mapped[q] > 0 => mapped[q] = file'[NodeOf[q]]
                        /\ First(q) \in called'["barrier"] =>
                              /\ file'[NodeOf[q]] >= 0
                              /\ ~ devdax[NodeOf[q]] /\ request[NodeOf[q]] > 0 =>
                                    file'[NodeOf[q]] = request[NodeOf[q]]
      BY <3>4 DEF MapsMade
    <3>6. CASE q \in OnNode(r)
      <4>1. NodeOf[q] = n /\ First(q) = r
        BY <3>1, <3>6, FirstOnNode DEF OnNode
      <4>2. stage'[q] \notin HasMap
        BY <3>2, <3>5, <3>6 DEF HasMap, HasSeen
      <4>3. r \in called'["barrier"] =>
               /\ file'[n] >= 0
               /\ ~ devdax[n] /\ request[n] > 0 => file'[n] = request[n]
        BY <1>4, <3>1 DEF OpenDeviceThrows, Types, TypeOK, Opened, Absent
      <4> QED
        BY <3>2, <3>6, <4>1, <4>2, <4>3
    <3>7. CASE q \notin OnNode(r)
      <4>1. NodeOf[q] \in Nodes \ {n} /\ q # r
        BY <3>7, FirstOnNode DEF OnNode, Nodes
      <4>2. First(q) # r
        BY <4>1, FirstOnNode
      <4>3. First(q) \in called'["barrier"] => First(q) \in called["barrier"]
        BY <1>4, <4>2 DEF OpenDeviceThrows, Call, Types, TypeOK, Collectives
      <4> QED
        BY <3>3, <3>5, <4>1, <4>3 DEF MapsMade
    <3> QED
      BY <3>6, <3>7
  <2>4. GetsOfReady'
    BY <1>4 DEF OpenDeviceThrows, GetsOfReady, Types, TypeOK, GoTo, Call
  <2> QED
    BY <2>1, <2>2, <2>3, <2>4
<1>5. ASSUME NEW r \in Ranks, EnterBarrier(r) PROVE IInv'
  <2>1. Types'
    BY <1>5, LifecycleAssumption DEF EnterBarrier, Types, TypeOK, Stages, Collectives, GoTo, Call
  <2>2. CallsMade'
    BY <1>5, FirstOnNode DEF EnterBarrier, CallsMade, Types, TypeOK, Stages, Collectives, GoTo, Call, HasSeen, HasMap
  <2>3. MapsMade'
    BY <1>5, FirstOnNode DEF EnterBarrier, MapsMade, CallsMade, Types, TypeOK, Collectives, GoTo, Call, HasSeen, HasMap
  <2>4. GetsOfReady'
    BY <1>5 DEF EnterBarrier, GetsOfReady, Types, TypeOK, GoTo, Call
  <2> QED
    BY <2>1, <2>2, <2>3, <2>4
<1>6. ASSUME NEW r \in Ranks, LeaveBarrier(r) PROVE IInv'
  <2>1. Types'
    BY <1>6, LifecycleAssumption DEF LeaveBarrier, Types, TypeOK, Stages, GoTo
  <2>2. CallsMade'
    BY <1>6, FirstOnNode DEF LeaveBarrier, CallsMade, Types, TypeOK, GoTo, HasSeen, HasMap
  <2>3. MapsMade'
    BY <1>6, FirstOnNode DEF LeaveBarrier, MapsMade, Types, TypeOK, GoTo, HasMap
  <2>4. GetsOfReady'
    BY <1>6 DEF LeaveBarrier, GetsOfReady, Types, TypeOK, GoTo, Call
  <2> QED
    BY <2>1, <2>2, <2>3, <2>4
<1>7. ASSUME NEW r \in Ranks, OpenOther(r) PROVE IInv'
  <2>1. Types'
    BY <1>7, LifecycleAssumption DEF OpenOther, Types, TypeOK, Stages, Collectives, GoTo, Call, Opened, Nodes
  <2>2. CallsMade'
    BY <1>7, FirstOnNode DEF OpenOther, CallsMade, Types, TypeOK, Stages, Collectives, GoTo, Call, HasSeen, HasMap
  <2>3. MapsMade'
    <3>1. First(r) \in called["barrier"]
      BY <1>7, FirstOnNode DEF OpenOther, CallsMade, HasSeen
    <3>2. file[NodeOf[r]] >= 0 /\ NodeOf[r] \in Nodes
      BY <3>1 DEF MapsMade, Nodes
    <3>3. file' = file
      BY <1>7, <3>2 DEF OpenOther, Opened, Absent, Types, TypeOK
    <3> QED
      BY <1>7, <3>3 DEF OpenOther, MapsMade, Types, TypeOK, GoTo, HasMap
  <2>4. GetsOfReady'
    BY <1>7 DEF OpenOther, GetsOfReady, Types, TypeOK, GoTo, Call
  <2> QED
    BY <2>1, <2>2, <2>3, <2>4
<1>8. ASSUME NEW r \in Ranks, Map(r) PROVE IInv'
  <2>1. Types'
    BY <1>8, LifecycleAssumption DEF Map, Types, TypeOK, Stages, Collectives, GoTo, Call, Nodes, Absent
  <2>2. CallsMade'
    BY <1>8, FirstOnNode DEF Map, CallsMade, Types, TypeOK, Stages, Collectives, GoTo, Call, HasSeen, HasMap
  <2>3. MapsMade'
    BY <1>8, FirstOnNode DEF Map, MapsMade, CallsMade, Types, TypeOK, Collectives, GoTo, Call, HasSeen, HasMap
  <2>4. GetsOfReady'
    BY <1>8 DEF Map, GetsOfReady, Types, TypeOK, GoTo, Call
  <2> QED
    BY <2>1, <2>2, <2>3, <2>4
<1>9. ASSUME NEW r \in Ranks, OpenOrMapThrows(r) PROVE IInv'
  <2>1. Types'
    BY <1>9, LifecycleAssumption DEF OpenOrMapThrows, Types, TypeOK, Stages, GoTo
  <2>2. CallsMade'
    BY <1>9, FirstOnNode DEF OpenOrMapThrows, CallsMade, Types, TypeOK, GoTo, HasSeen, HasMap
  <2>3. MapsMade'
    BY <1>9, FirstOnNode DEF OpenOrMapThrows, MapsMade, Types, TypeOK, GoTo, HasMap
  <2>4. GetsOfReady'
    BY <1>9 DEF OpenOrMapThrows, GetsOfReady, Types, TypeOK, GoTo, Call
  <2> QED
    BY <2>1, <2>2, <2>3, <2>4
<1>10. ASSUME NEW r \in Ranks, WindowCreated(r) PROVE IInv'
  <2>1. Types'
    BY <1>10, LifecycleAssumption DEF WindowCreated, CreatedByAll, Types, TypeOK, Stages, Collectives, GoTo, Call
  <2>2. CallsMade'
    BY <1>10, FirstOnNode DEF WindowCreated, CreatedByAll, CallsMade, Types, TypeOK, Stages, Collectives, GoTo, Call, HasSeen, HasMap
  <2>3. MapsMade'
    BY <1>10, FirstOnNode DEF WindowCreated, CreatedByAll, MapsMade, CallsMade, Types, TypeOK, Collectives, GoTo, Call, HasSeen, HasMap
  <2>4. GetsOfReady'
    BY <1>10 DEF WindowCreated, CreatedByAll, GetsOfReady, Types, TypeOK, GoTo, Call
  <2> QED
    BY <2>1, <2>2, <2>3, <2>4
<1>11. ASSUME NEW r \in Ranks, Free(r) PROVE IInv'
  <2>1. Types'
    BY <1>11, LifecycleAssumption DEF Free, Unlocked, Types, TypeOK, Stages, Collectives, GoTo, Call
  <2>2. CallsMade'
    BY <1>11, FirstOnNode DEF Free, Unlocked, CallsMade, Types, TypeOK, Stages, Collectives, GoTo, Call, HasSeen, HasMap
  <2>3. MapsMade'
    BY <1>11, FirstOnNode DEF Free, Unlocked, MapsMade, CallsMade, Types, TypeOK, Collectives, GoTo, Call, HasSeen, HasMap
  <2>4. GetsOfReady'
    BY <1>11 DEF Free, Unlocked, GetsOfReady, Types, TypeOK, GoTo, Call
  <2> QED
    BY <2>1, <2>2, <2>3, <2>4
<1>12. ASSUME NEW r \in Ranks, Unmap(r) PROVE IInv'
  <2>1. Types'
    BY <1>12, LifecycleAssumption DEF Unmap, Types, TypeOK, Stages, GoTo
  <2>2. CallsMade'
    BY <1>12, FirstOnNode DEF Unmap, CallsMade, Types, TypeOK, GoTo, HasSeen, HasMap
  <2>3. MapsMade'
    BY <1>12, FirstOnNode DEF Unmap, MapsMade, Types, TypeOK, GoTo, HasMap
  <2>4. GetsOfReady'
    BY <1>12 DEF Unmap, GetsOfReady, Types, TypeOK, GoTo, Call
  <2> QED
    BY <2>1, <2>2, <2>3, <2>4
<1>13. ASSUME NEW r \in Ranks, NEW q \in Ranks, Get(r, q) PROVE IInv'
  BY <1>13, FirstOnNode DEF Get, Types, TypeOK, CallsMade, MapsMade, GetsOfReady
<1>14. ASSUME NEW r \in Ranks, NEW q \in Ranks, Lands(r, q) PROVE IInv'
  BY <1>14 DEF Lands, Types, TypeOK, CallsMade, MapsMade, GetsOfReady
<1>15. ASSUME UNCHANGED vars PROVE IInv'
  BY <1>15 DEF vars, Types, TypeOK, CallsMade, MapsMade, GetsOfReady
<1> QED
  BY <1>1, <1>2, <1>3, <1>4, <1>5, <1>6, <1>7, <1>8, <1>9, <1>10, <1>11, <1>12, <1>13, <1>14, <1>15
     DEF Next, Progress, Throws, Stranded, Finished

-----------------------------------------------------------------------------
(* The theorems. *)

LEMMA SpecIInv == Spec => []IInv
BY InitIInv, NextIInv, PTL DEF Spec

LEMMA IInvImplies == IInv => RemoteMemoryLives /\ OneSizePerNode /\ AllOrNothing
<1> SUFFICES ASSUME IInv PROVE RemoteMemoryLives /\ OneSizePerNode /\ AllOrNothing
  OBVIOUS
<1>1. AllOrNothing
  <2> SUFFICES ASSUME NEW r \in Ranks, stage[r] = "ready", NEW q \in Ranks
               PROVE  stage[q] \in HasMap
    BY DEF AllOrNothing, HasMap
  <2>1. q \in called["create"] /\ r \notin called["free"]
    BY DEF IInv, CallsMade
  <2>2. stage[q] \in HasMap \cup {"gone"} /\ stage[q] # "gone"
    BY <2>1 DEF IInv, CallsMade
  <2> QED
    BY <2>2
<1>2. RemoteMemoryLives
  <2> SUFFICES ASSUME NEW r \in Ranks, NEW q \in gets[r] PROVE mapped[q] > 0
    BY DEF RemoteMemoryLives
  <2>1. stage[r] = "ready" /\ q \in Ranks
    BY DEF IInv, GetsOfReady, Types, TypeOK
  <2> QED
    BY <1>1, <2>1 DEF AllOrNothing, IInv, MapsMade, HasMap
<1>3. OneSizePerNode
  <2> SUFFICES ASSUME NEW r \in Ranks, mapped[r] > 0
               PROVE  /\ \A q \in OnNode(r) : mapped[q] > 0 => mapped[q] = mapped[r]
                      /\ ~ devdax[NodeOf[r]] /\ request[NodeOf[r]] > 0 => mapped[r] = request[NodeOf[r]]
    BY DEF OneSizePerNode
  <2>1. mapped[r] = file[NodeOf[r]] /\ OnNode(r) \subseteq called["barrier"]
    BY DEF IInv, MapsMade, CallsMade, HasMap, HasSeen
  <2>2. First(r) \in called["barrier"]
    BY <2>1, FirstOnNode
  <2>3. \A q \in OnNode(r) : mapped[q] > 0 => mapped[q] = mapped[r]
    BY <2>1 DEF IInv, MapsMade, OnNode
  <2> QED
    BY <2>1, <2>2, <2>3 DEF IInv, MapsMade
<1> QED
  BY <1>1, <1>2, <1>3

\* For any number of ranks, placement and sizes, and whichever ranks throw
\* where: memory that a Get may still read is mapped.
THEOREM RemoteMemoryAlwaysLives == Spec => []RemoteMemoryLives
BY SpecIInv, IInvImplies, PTL

\* The ranks of a node agree on the size of its memory, which is what was
\* asked for: the barrier in create_pmem2_device orders them.
THEOREM OneSizePerNodeAlways == Spec => []OneSizePerNode
BY SpecIInv, IInvImplies, PTL

\* No rank has a store while another has thrown before the window was created.
THEOREM AllOrNothingAlways == Spec => []AllOrNothing
BY SpecIInv, IInvImplies, PTL

=============================================================================
