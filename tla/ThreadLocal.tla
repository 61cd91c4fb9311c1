------------------------------ MODULE ThreadLocal ------------------------------
(***************************************************************************)
(* Values of which each thread has its own (utils/tls.hpp): a key of       *)
(* pthreads, under which a thread keeps a pointer to its value on the      *)
(* heap.  Threads come and go; the object may be destroyed while they      *)
(* live, and its key be given to the next one.                             *)
(***************************************************************************)
EXTENDS Integers

CONSTANTS LocalThreads, \* the threads
          LocalValues,  \* what they set
          DefaultValue, \* of the object
          MaxHeap       \* how many values there are at a time

ASSUME ThreadLocalAssumption == MaxHeap \in Nat

VARIABLES
    key,        \* whether the object lives
    slots,      \* what each thread has under the key: an address, or NoPointer
    heap,       \* the values that are allocated, by their address
    lastSet,    \* what each thread has set, or the default
    lost        \* addresses that nobody can reach

localVars == <<key, slots, heap, lastSet, lost>>

NoPointer == 0
HeapAddresses == 1 .. MaxHeap

LocalInit ==
    /\ key = FALSE /\ heap = [a \in {} |-> 0] /\ lost = {}
    /\ slots = [t \in LocalThreads |-> NoPointer]
    /\ lastSet = [t \in LocalThreads |-> DefaultValue]

Allocated(a, v) == [b \in DOMAIN heap \cup {a} |-> IF b = a THEN v ELSE heap[b]]
Deleted(a)      == [b \in DOMAIN heap \ {a} |-> heap[b]]

\* A new key has no pointer of any thread.
ConstructLocal ==
    /\ ~key /\ key' = TRUE
    /\ slots' = [t \in LocalThreads |-> NoPointer]
    /\ lastSet' = [t \in LocalThreads |-> DefaultValue]
    /\ UNCHANGED <<heap, lost>>

\* The key is deleted, and no value: those of the threads that live are lost.
DestroyLocal ==
    /\ key /\ key' = FALSE
    /\ lost' = lost \cup ({slots[t] : t \in LocalThreads} \ {NoPointer})
    /\ slots' = [t \in LocalThreads |-> NoPointer]
    /\ UNCHANGED <<heap, lastSet>>

\* reset(new T(v)): the pointer is set and the old value deleted.
ResetLocal(t, v) ==
    \E a \in HeapAddresses \ DOMAIN heap :
        /\ slots' = [slots EXCEPT ![t] = a]
        /\ heap' = [b \in DOMAIN Allocated(a, v) \ {slots[t]} |-> Allocated(a, v)[b]]

\* get() before a thread has set anything gives the default.
GetLocal(t) == IF slots[t] # NoPointer THEN heap[slots[t]] ELSE DefaultValue

SetLocal(t, v) ==
    /\ key
    /\ IF slots[t] # NoPointer
       THEN heap' = [heap EXCEPT ![slots[t]] = v] /\ UNCHANGED slots
       ELSE ResetLocal(t, v)
    /\ lastSet' = [lastSet EXCEPT ![t] = v]
    /\ UNCHANGED <<key, lost>>

\* getRef(): a reference to the value, made of the default at the first use;
\* the thread may write through it.
GetRef(t) ==
    /\ key /\ slots[t] = NoPointer
    /\ ResetLocal(t, DefaultValue)
    /\ UNCHANGED <<key, lastSet, lost>>

WriteThroughRef(t, v) ==
    /\ key /\ slots[t] # NoPointer
    /\ heap' = [heap EXCEPT ![slots[t]] = v]
    /\ lastSet' = [lastSet EXCEPT ![t] = v]
    /\ UNCHANGED <<key, slots, lost>>

\* The pointer of a thread is replaced by one of its caller's.
ResetPointer(t, v) ==
    /\ key
    /\ ResetLocal(t, v)
    /\ lastSet' = [lastSet EXCEPT ![t] = v]
    /\ UNCHANGED <<key, lost>>

\* The caller takes the value and deletes it.
ReleasePointer(t) ==
    /\ key /\ slots[t] # NoPointer
    /\ heap' = Deleted(slots[t])
    /\ slots' = [slots EXCEPT ![t] = NoPointer]
    /\ lastSet' = [lastSet EXCEPT ![t] = DefaultValue]
    /\ UNCHANGED <<key, lost>>

\* A thread ends, and deletes its value while there is the key; another takes
\* its place.
ThreadExits(t) ==
    /\ heap' = IF slots[t] # NoPointer THEN Deleted(slots[t]) ELSE heap
    /\ slots' = [slots EXCEPT ![t] = NoPointer]
    /\ lastSet' = [lastSet EXCEPT ![t] = DefaultValue]
    /\ UNCHANGED <<key, lost>>

LocalNext ==
    \/ ConstructLocal \/ DestroyLocal
    \/ \E t \in LocalThreads :
          \/ GetRef(t) \/ ReleasePointer(t) \/ ThreadExits(t)
          \/ \E v \in LocalValues : SetLocal(t, v) \/ WriteThroughRef(t, v) \/ ResetPointer(t, v)

LocalSpec == LocalInit /\ [][LocalNext]_localVars

-----------------------------------------------------------------------------
(* Properties. *)

\* Threads do not see each other's values, nor those of an object or a thread
\* that was before: each reads what it set last, or the default.  A value on
\* the heap is under one thread, and deleted with it, unless the object went
\* first (tls.hpp:26-44, 52-76).
ThreadsApart ==
    /\ key => \A t \in LocalThreads : GetLocal(t) = lastSet[t]
    /\ \A a \in DOMAIN heap \ lost : \E t \in LocalThreads : slots[t] = a
    /\ \A t, u \in LocalThreads : slots[t] # NoPointer /\ t # u => slots[t] # slots[u]
    /\ lost \subseteq DOMAIN heap

=============================================================================
