-------------------------------- MODULE Handles --------------------------------
(***************************************************************************)
(* The objects that hold a handle of a library and give it back: the       *)
(* wrappers of MPI objects (mpi/raii.hpp, utils/cond_deleter.hpp), of      *)
(* libpmem2 (raii/pmem2.hpp), of descriptors (raii/fd.hpp) and the file    *)
(* handle of zpp/file.h.  Some only borrow what they hold; objects are     *)
(* moved from one to another.  The program may hold handles itself, which  *)
(* it got from the library or took out of an object, and make objects that *)
(* will free them; it gives away no handle that it does not hold.          *)
(***************************************************************************)
EXTENDS Integers

CONSTANTS Holders,      \* the places where objects of one class are made
          MaxHandles    \* how many handles the library gives out at a time

ASSUME HandlesAssumption == MaxHandles \in Nat

VARIABLES
    class,      \* of the objects
    holder,     \* the object at each place, [native, deletes], or Absent
    alive,      \* the handles that the library knows
    raw         \* those of them that the program holds itself

handlesVars == <<class, holder, alive, raw>>

Null == -1
Predefined == 0                 \* MPI_COMM_WORLD, MPI_INT, MPI_GROUP_EMPTY
Absent == [native |-> Null, deletes |-> FALSE, absent |-> TRUE]
Handles == 1 .. MaxHandles

\* Classes that may hold a handle they must not free.
Borrowing == {"comm", "group", "dtype"}
Classes   == Borrowing \cup {"info", "win", "pmem2", "fd", "file"}

\* An object with the deleter that goes with it.
Holding(native, deletes) == [native |-> native, deletes |-> deletes, absent |-> FALSE]

\* What the deleter of an object frees.
Freed_Unasked(o) == IF o.native = Null THEN {} ELSE {o.native}
Freed(o)         == IF o.deletes /\ o.native # Null THEN {o.native} ELSE {}

-----------------------------------------------------------------------------

HandlesInit ==
    /\ class \in Classes
    /\ holder = [h \in Holders |-> Absent]
    /\ alive = {Predefined} /\ raw = {}

HandlesIdle ==
    /\ class = "idle" /\ holder = [h \in Holders |-> Absent]
    /\ alive = {Predefined} /\ raw = {}

\* The program asks the library for a handle, and frees one that it holds.
ObtainRaw ==
    /\ class # "idle"
    /\ \E n \in Handles \ alive : alive' = alive \cup {n} /\ raw' = raw \cup {n}
    /\ UNCHANGED <<class, holder>>

FreeRaw ==
    /\ \E n \in raw : alive' = alive \ {n} /\ raw' = raw \ {n}
    /\ UNCHANGED <<class, holder>>

\* The library makes a handle, with a number that is not used, for an object
\* at h that will free it.
Made(h) ==
    \E n \in Handles \ alive :
        /\ alive' = alive \cup {n}
        /\ holder' = [holder EXCEPT ![h] = Holding(n, TRUE)]
        /\ UNCHANGED <<class, raw>>

Constructs(h, classes) == class \in classes /\ holder[h] = Absent

DefaultConstruct(h) ==
    /\ Constructs(h, {"comm", "group", "win", "pmem2", "fd", "file"})
    /\ holder' = [holder EXCEPT ![h] = Holding(Null, TRUE)]
    /\ UNCHANGED <<class, alive, raw>>

\* comm{native}, group{native}, dtype{native, false} of any handle there is.
Borrow(h) ==
    /\ Constructs(h, Borrowing)
    /\ \E n \in alive : holder' = [holder EXCEPT ![h] = Holding(n, FALSE)]
    /\ UNCHANGED <<class, alive, raw>>

\* info{native}, comm{native, true}, file_handle{handle} and their like: an
\* object that frees the handle it is given, which may be the null handle.
Adopt(h) ==
    /\ Constructs(h, Classes \ {"win"})
    /\ \E n \in raw \cup {Null} :
          /\ holder' = [holder EXCEPT ![h] = Holding(n, TRUE)]
          /\ raw' = raw \ {n}
    /\ UNCHANGED <<class, alive>>

\* A communicator that is split off; a rank may be left out of it.
SplitComm(h) ==
    /\ Constructs(h, {"comm"})
    /\ \/ Made(h)
       \/ holder' = [holder EXCEPT ![h] = Holding(Null, TRUE)] /\ UNCHANGED <<class, alive, raw>>

SubGroup(h)     == Constructs(h, {"group"}) /\ Made(h)
DerivedDtype(h) == Constructs(h, {"dtype"}) /\ Made(h)

\* info{} and info{map}. The one that fills it is complete before it sets a
\* key, and destroyed when that throws.
NewInfo(h) ==
    /\ Constructs(h, {"info"})
    /\ Made(h) \/ UNCHANGED handlesVars

NewWindow(h) == Constructs(h, {"win"}) /\ Made(h)

\* Objects for what the libraries return: a map, a source, a configuration.
NewPmem2(h) == Constructs(h, {"pmem2"}) /\ Made(h)
OpenFd(h)   == Constructs(h, {"fd"}) /\ Made(h)
OpenFile(h) == Constructs(h, {"file"}) /\ Made(h)

\* An object at g made of the one at h, which stays behind with nothing.
MoveConstruct(h, g) ==
    /\ h # g /\ holder[h] # Absent /\ holder[g] = Absent
    /\ holder' = [holder EXCEPT ![g] = holder[h], ![h].native = Null]
    /\ UNCHANGED <<class, alive, raw>>

\* The object at g takes over from the one at h, and frees what it had by its
\* own deleter, before it takes that over, too.
MoveAssign(h, g) ==
    /\ class # "file" /\ h # g /\ holder[h] # Absent /\ holder[g] # Absent
    /\ alive' = alive \ Freed(holder[g])
    /\ holder' = [holder EXCEPT ![g] = holder[h], ![h].native = Null]
    /\ UNCHANGED <<class, raw>>

\* The file handle is passed by value and swapped with; what it had goes with
\* the parameter.
SwapAssign(h, g) ==
    /\ class = "file" /\ holder[h] # Absent /\ holder[g] # Absent
    /\ LET parameter == holder[h]
           released  == [holder EXCEPT ![h].native = Null]
       IN  /\ holder' = [released EXCEPT ![g] = parameter]
           /\ alive' = alive \ Freed(released[g])
    /\ UNCHANGED <<class, raw>>

\* The program takes the handle, if any, out of an object.
Release(h) ==
    /\ class \in {"fd", "file", "pmem2"} /\ holder[h] # Absent
    /\ holder' = [holder EXCEPT ![h].native = Null]
    /\ raw' = raw \cup ({holder[h].native} \ {Null})
    /\ UNCHANGED <<class, alive>>

DestroyHolder(h) ==
    /\ holder[h] # Absent
    /\ alive' = alive \ Freed(holder[h])
    /\ holder' = [holder EXCEPT ![h] = Absent]
    /\ UNCHANGED <<class, raw>>

HandlesNext ==
    \/ ObtainRaw \/ FreeRaw
    \/ \E h \in Holders :
        \/ DefaultConstruct(h) \/ Borrow(h) \/ Adopt(h) \/ SplitComm(h) \/ SubGroup(h)
        \/ DerivedDtype(h) \/ NewInfo(h) \/ NewWindow(h) \/ NewPmem2(h) \/ OpenFd(h)
        \/ OpenFile(h) \/ Release(h) \/ DestroyHolder(h)
        \/ \E g \in Holders : MoveConstruct(h, g) \/ MoveAssign(h, g) \/ SwapAssign(h, g)

HandlesSpec == HandlesInit /\ [][HandlesNext]_handlesVars

-----------------------------------------------------------------------------
(* Properties. *)

Owns(h, n) == holder[h].native = n /\ holder[h].deletes

\* However objects are made, moved, assigned, emptied and destroyed: a handle
\* that was made has one owner, an object that will free it or the program, so
\* that none is leaked and none is freed twice or under its owner, and one that
\* was only borrowed from the library is never freed (mpi/raii.hpp:64-73,
\* utils/cond_deleter.hpp:18-22, mpi/info.hpp:28-48, zpp/file.h:902-927).
HandlesOwned ==
    /\ \A n \in Handles : n \in alive <=> n \in raw \/ \E h \in Holders : Owns(h, n)
    /\ \A n \in Handles, h \in Holders : Owns(h, n) =>
          n \notin raw /\ \A g \in Holders : Owns(g, n) => h = g
    /\ Predefined \in alive \ raw /\ \A h \in Holders : ~Owns(h, Predefined)

=============================================================================
