------------------------------- MODULE RingLog -------------------------------
(***************************************************************************)
(* What a ring buffer promises its user: a log of bytes addressed by LSN,  *)
(* of which a window of at most Capacity bytes exists at a time.  The      *)
(* window grows at its head, shrinks at its tail, and a byte inside it     *)
(* holds what was last written to it.  What a byte holds before the first  *)
(* write to it is not specified.                                           *)
(***************************************************************************)
EXTENDS Integers

CONSTANTS Capacity, Bytes

VARIABLES
    head, tail,   \* the window is tail .. head - 1
    log,          \* the bytes of the window
    io            \* the last access: a write's bytes, or those that a read returned

vars == <<head, tail, log, io>>

Window(t, h) == t .. h - 1

Access(op, lsn, n, buf) == [op |-> op, lsn |-> lsn, n |-> n, buf |-> buf]

Init ==
    /\ head = 0
    /\ tail = 0
    /\ log \in [Window(0, 0) -> Bytes]
    /\ io = Access("none", 0, 0, [i \in {} |-> i])

\* n bytes are added at the head; the bytes already there keep their value.
Append(n) ==
    /\ head - tail + n <= Capacity
    /\ head' = head + n
    /\ log' \in [Window(tail, head + n) -> Bytes]
    /\ \A l \in Window(tail, head) : log'[l] = log[l]
    /\ UNCHANGED <<tail, io>>

\* The n oldest bytes are given up.
Discard(n) ==
    /\ n <= head - tail
    /\ tail' = tail + n
    /\ log' = [l \in Window(tail + n, head) |-> log[l]]
    /\ UNCHANGED <<head, io>>

\* The n bytes of buf replace those at lsn .. lsn + n - 1, and no other byte.
Write(lsn, n, buf) ==
    /\ lsn >= tail /\ lsn + n <= head
    /\ log' = [l \in Window(tail, head) |->
                 IF lsn <= l /\ l < lsn + n THEN buf[l - lsn] ELSE log[l]]
    /\ io' = Access("pwrite", lsn, n, buf)
    /\ UNCHANGED <<head, tail>>

Read(lsn, n) ==
    /\ lsn >= tail /\ lsn + n <= head
    /\ io' = Access("pread", lsn, n, [i \in 0 .. n - 1 |-> log[lsn + i]])
    /\ UNCHANGED <<head, tail, log>>

Next ==
    \E n \in 0 .. Capacity :
        \/ Append(n)
        \/ Discard(n)
        \/ \E lsn \in Window(tail, head + 1) :
              \/ \E buf \in [0 .. n - 1 -> Bytes] : Write(lsn, n, buf)
              \/ Read(lsn, n)

Spec == Init /\ [][Next]_vars

=============================================================================
