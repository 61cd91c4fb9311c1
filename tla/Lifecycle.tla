------------------------------- MODULE Lifecycle -------------------------------
(***************************************************************************)
(* From peanuts_store_create to peanuts_store_free on every rank           *)
(* (peanuts_c.cpp, rpm.hpp, topology.hpp, pmem2.hpp, mpi/win.hpp): the     *)
(* ranks of a node map the memory that their first rank has made, all      *)
(* ranks create a window of it and read through it, and the members are    *)
(* destroyed in the reverse order.  Any step of a rank by itself may throw *)
(* and undoes what the rank has done; the other ranks are not told.        *)
(*                                                                         *)
(* Sizes are in blocks of rpm::pmem_alignment, to which a rank's share of  *)
(* the memory is rounded down.                                             *)
(***************************************************************************)
EXTENDS Integers, FiniteSets

CONSTANTS
    NRanks,
    NodeOf,       \* NodeOf[r]: the node that r runs on
    FileSizes,    \* sizes of the memory's file before the job, Absent too
    Requests      \* the values of pmem_size

Absent == -1
Ranks  == 0 .. NRanks - 1
Nodes  == {NodeOf[r] : r \in Ranks}
OnNode(r) == {q \in Ranks : NodeOf[q] = NodeOf[r]}

ASSUME LifecycleAssumption ==
    /\ NRanks \in Nat
    /\ FileSizes \subseteq Nat \cup {Absent}
    /\ Requests \subseteq Nat

VARIABLES
    devdax,     \* devdax[n]: whether the memory of n is a device, not a file
    request,    \* request[n]: pmem_size of the first rank of n
    file,       \* file[n]: the size of the memory of n
    stage,      \* stage[r]: where r is
    called,     \* called[c]: the ranks that have made the collective call c
    mapped,     \* mapped[r]: the size of r's map, 0 without one
    gets        \* gets[r]: the ranks whose window r has a Get to that may land

vars == <<devdax, request, file, stage, called, mapped, gets>>

Collectives == {"split", "barrier", "create", "free"}
Stages == {"outside", "split", "device", "barrier", "open", "map", "create", "ready", "free",
           "gone", "thrown"}

\* Rank 0 of intra_comm.
First(r) == CHOOSE q \in OnNode(r) : \A p \in OnNode(r) : q <= p

Init ==
    /\ devdax \in [Nodes -> BOOLEAN]
    /\ request \in [Nodes -> Requests]
    /\ file \in [Nodes -> FileSizes]
    /\ \A n \in Nodes : devdax[n] => file[n] > 0
    /\ stage = [r \in Ranks |-> "outside"]
    /\ called = [c \in Collectives |-> {}]
    /\ mapped = [r \in Ranks |-> 0]
    /\ gets = [r \in Ranks |-> {}]

GoTo(r, s) == stage' = [stage EXCEPT ![r] = s]
Call(r, c) == called' = [called EXCEPT ![c] = @ \cup {r}]

-----------------------------------------------------------------------------
(* Construction. *)

\* The communicators are split and the ranks' places gathered; all three are
\* collective, and nothing happens between them.
Split(r) ==
    /\ stage[r] = "outside"
    /\ Call(r, "split") /\ GoTo(r, "split")
    /\ UNCHANGED <<devdax, request, file, mapped, gets>>

HasTopology(r) ==
    /\ stage[r] = "split" /\ called["split"] = Ranks
    /\ GoTo(r, "device")
    /\ UNCHANGED <<devdax, request, file, called, mapped, gets>>

\* The file is created if it cannot be opened, and is empty then.
Opened(n) == IF file[n] = Absent THEN 0 ELSE file[n]

OpenDevice_NoBarrier(r) ==
    LET n == NodeOf[r]
    IN  /\ stage[r] = "device" /\ r = First(r)
        /\ file' = [file EXCEPT ![n] = IF ~ devdax[n] /\ request[n] > 0 THEN request[n] ELSE Opened(n)]
        /\ GoTo(r, "barrier")
        /\ UNCHANGED <<devdax, request, called, mapped, gets>>

\* The first rank of the node opens the memory and gives it its size, while
\* the others wait for it.
OpenDevice(r) ==
    LET n == NodeOf[r]
    IN  /\ stage[r] = "device" /\ r = First(r)
        /\ file' = [file EXCEPT ![n] = IF ~ devdax[n] /\ request[n] > 0 THEN request[n] ELSE Opened(n)]
        /\ Call(r, "barrier") /\ GoTo(r, "barrier")
        /\ UNCHANGED <<devdax, request, mapped, gets>>

\* open fails, or fstat or ftruncate when it is open.
OpenDeviceThrows(r) ==
    /\ stage[r] = "device" /\ r = First(r)
    /\ \E size \in {file[NodeOf[r]], Opened(NodeOf[r])} : file' = [file EXCEPT ![NodeOf[r]] = size]
    /\ GoTo(r, "thrown")
    /\ UNCHANGED <<devdax, request, called, mapped, gets>>

EnterBarrier(r) ==
    /\ stage[r] = "device" /\ r # First(r)
    /\ Call(r, "barrier") /\ GoTo(r, "barrier")
    /\ UNCHANGED <<devdax, request, file, mapped, gets>>

LeaveBarrier_AtOnce(r) ==
    /\ stage[r] = "barrier"
    /\ GoTo(r, IF r = First(r) THEN "map" ELSE "open")
    /\ UNCHANGED <<devdax, request, file, called, mapped, gets>>

LeaveBarrier(r) ==
    /\ stage[r] = "barrier" /\ OnNode(r) \subseteq called["barrier"]
    /\ GoTo(r, IF r = First(r) THEN "map" ELSE "open")
    /\ UNCHANGED <<devdax, request, file, called, mapped, gets>>

OpenOther(r) ==
    /\ stage[r] = "open"
    /\ file' = [file EXCEPT ![NodeOf[r]] = Opened(NodeOf[r])]
    /\ GoTo(r, "map")
    /\ UNCHANGED <<devdax, request, called, mapped, gets>>

\* All of the file is mapped; there is no map of an empty one.  The call that
\* creates the window follows.
Map(r) ==
    /\ stage[r] = "map" /\ file[NodeOf[r]] > 0
    /\ mapped' = [mapped EXCEPT ![r] = file[NodeOf[r]]]
    /\ Call(r, "create") /\ GoTo(r, "create")
    /\ UNCHANGED <<devdax, request, file, gets>>

OpenOrMapThrows(r) ==
    /\ stage[r] \in {"open", "map"}
    /\ GoTo(r, "thrown")
    /\ UNCHANGED <<devdax, request, file, called, mapped, gets>>

\* rpm::block_size, in blocks of the alignment.
BlockSize(r) == mapped[r] \div Cardinality(OnNode(r))

\* Nobody returns from MPI_Win_create before all have called it.
CreatedByAll == called["create"] = Ranks

WindowCreated_ByNode(r) ==
    /\ stage[r] = "create" /\ OnNode(r) \subseteq called["create"]
    /\ IF BlockSize(r) = 0 THEN Call(r, "free") /\ GoTo(r, "free") ELSE GoTo(r, "ready") /\ UNCHANGED called
    /\ UNCHANGED <<devdax, request, file, mapped, gets>>

\* The window has been created and is locked.  The store throws if a block
\* has no room for its metadata; rpm is destroyed then as by peanuts_store_free.
WindowCreated(r) ==
    /\ stage[r] = "create" /\ CreatedByAll
    /\ IF BlockSize(r) = 0
       THEN Call(r, "free") /\ GoTo(r, "free")
       ELSE GoTo(r, "ready") /\ UNCHANGED called
    /\ UNCHANGED <<devdax, request, file, mapped, gets>>

-----------------------------------------------------------------------------
(* Use, and destruction. *)

\* Blocks of other nodes are read from the window of their first rank.
Get(r, q) ==
    /\ stage[r] = "ready" /\ NodeOf[q] # NodeOf[r]
    /\ gets' = [gets EXCEPT ![r] = @ \cup {First(q)}]
    /\ UNCHANGED <<devdax, request, file, stage, called, mapped>>

Lands(r, q) ==
    /\ q \in gets[r]
    /\ gets' = [gets EXCEPT ![r] = @ \ {q}]
    /\ UNCHANGED <<devdax, request, file, stage, called, mapped>>

\* MPI_Win_unlock_all returns when the Gets of the rank are complete.
Unlocked(r) == gets[r] = {}

\* win_lock_ is unlocked, and the window freed.
Free_Locked(r) ==
    /\ stage[r] = "ready"
    /\ Call(r, "free") /\ GoTo(r, "free")
    /\ UNCHANGED <<devdax, request, file, mapped, gets>>

Free(r) ==
    /\ stage[r] = "ready" /\ Unlocked(r)
    /\ Call(r, "free") /\ GoTo(r, "free")
    /\ UNCHANGED <<devdax, request, file, mapped, gets>>

\* Nobody returns from MPI_Win_free before all have called it; map_ is
\* declared before win_ and goes after it.
Unmap(r) ==
    /\ stage[r] = "free" /\ called["free"] = Ranks
    /\ mapped' = [mapped EXCEPT ![r] = 0]
    /\ GoTo(r, "gone")
    /\ UNCHANGED <<devdax, request, file, called, gets>>

\* After an exception some ranks may wait for ever.
Stranded ==
    /\ \E r \in Ranks : stage[r] = "thrown" \/ (stage[r] = "free" /\ BlockSize(r) = 0)
    /\ UNCHANGED vars

Finished ==
    /\ \A r \in Ranks : stage[r] = "gone"
    /\ UNCHANGED vars

\* What a rank does without being asked once peanuts_store_create is called,
\* and in peanuts_store_free.
Progress(r) ==
    \/ HasTopology(r) \/ OpenDevice(r) \/ EnterBarrier(r) \/ LeaveBarrier(r) \/ OpenOther(r)
    \/ Map(r) \/ WindowCreated(r) \/ Unmap(r)

Throws(r) == OpenDeviceThrows(r) \/ OpenOrMapThrows(r)

Next ==
    \/ \E r \in Ranks :
          \/ Split(r) \/ Progress(r) \/ Throws(r) \/ Free(r)
          \/ \E q \in Ranks : Get(r, q) \/ Lands(r, q)
    \/ Stranded \/ Finished

Spec == Init /\ [][Next]_vars

\* All ranks of the program call peanuts_store_create, and a Get lands.
FairSpec ==
    /\ Spec
    /\ \A r \in Ranks : WF_vars(Split(r)) /\ WF_vars(Progress(r) \/ Throws(r))
    /\ \A r, q \in Ranks : WF_vars(Lands(r, q))

-----------------------------------------------------------------------------
(* Properties. *)

TypeOK ==
    /\ file \in [Nodes -> Nat \cup {Absent}]
    /\ stage \in [Ranks -> Stages]
    /\ called \in [Collectives -> SUBSET Ranks]
    /\ mapped \in [Ranks -> Nat]
    /\ gets \in [Ranks -> SUBSET Ranks]

\* As long as a Get may land, the memory that it reads is mapped: a rank that
\* is done, or whose store throws, does not take it away.
RemoteMemoryLives == \A r \in Ranks : \A q \in gets[r] : mapped[q] > 0

\* The ranks of a node map the memory with one size, so that they agree where
\* the block of each begins; and with the size that was asked for.
OneSizePerNode ==
    \A r \in Ranks : mapped[r] > 0 =>
        LET n == NodeOf[r]
        IN  /\ \A q \in OnNode(r) : mapped[q] > 0 => mapped[q] = mapped[r]
            /\ ~ devdax[n] /\ request[n] > 0 => mapped[r] = request[n]

\* Nobody uses a window of which another rank has no part: if one rank throws
\* before the window is created, none of the others gets a store.
AllOrNothing ==
    \A r \in Ranks : stage[r] = "ready" => \A q \in Ranks : stage[q] \in {"create", "ready", "free"}

\* A rank that creates a store gets it, or some rank has thrown.
Created(r) ==
    stage[r] = "split" ~>
        stage[r] = "ready" \/ \E q \in Ranks : stage[q] = "thrown" \/ (stage[q] \in {"free", "gone"})

StoresCreated == \A r \in Ranks : Created(r)

=============================================================================
