----------------------------- MODULE RingTracker -----------------------------
(***************************************************************************)
(* The cursor arithmetic of a ring (ring_tracker.hpp).  A tracker is a     *)
(* record of the ring's size and of two log sequence numbers, the LSNs of  *)
(* the next byte to reserve (head) and of the oldest byte still reserved   *)
(* (tail).  All three are unsigned machine words in the code, so that a    *)
(* difference that would be negative wraps around: Word is the number of   *)
(* values of such a word (2^64 in the program).                            *)
(***************************************************************************)
EXTENDS Integers

CONSTANT Word

ASSUME WordAssumption == Word \in Nat \ {0}

TrackerType(size) == [ring_size : {size}, head : 0 .. Word - 1, tail : 0 .. Word - 1]

\* The state left by the constructor that is given a ring size only.
NewTracker(size) == [ring_size |-> size, head |-> 0, tail |-> 0]

used_capacity(t) == (t.head - t.tail) % Word
free_capacity(t) == (t.ring_size - used_capacity(t)) % Word

\* Altered forms, here and in the other modules, are named for what they get
\* wrong and show that the properties tell the code from a broken one.
can_release_IgnoresUsed(t, size) == t.ring_size >= size

can_allocate(t, size) == free_capacity(t) >= size
can_release(t, size)  == used_capacity(t) >= size

\* Neither of the two checks anything: the guards above are the caller's.
allocate(t, size) == [t EXCEPT !.head = (@ + size) % Word]
release(t, size)  == [t EXCEPT !.tail = (@ + size) % Word]

to_ofs(t, lsn) == lsn % t.ring_size

\* How much of an access of size bytes at ring offset ofs lies before the ring's end.
first_segment_size_ofs(t, ofs, size) ==
    IF ofs + size <= t.ring_size THEN size ELSE t.ring_size - ofs

=============================================================================
