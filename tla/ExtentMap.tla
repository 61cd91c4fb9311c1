----------------------------- MODULE ExtentMap -------------------------------
(***************************************************************************)
(* What an extent tree promises: a map from the bytes of a file to the     *)
(* ring bytes that hold them, where the last assignment to a byte wins.    *)
(* A second map is the source of a merge.                                  *)
(***************************************************************************)
EXTENDS Integers

CONSTANTS Offsets, None

VARIABLES map, delta

vars == <<map, delta>>

\* x with the bytes b .. e - 1 assigned to the ring bytes from ptr on.
Assigned(x, b, e, ptr, client) ==
    [o \in Offsets |-> IF b <= o /\ o < e THEN <<client, ptr + (o - b)>> ELSE x[o]]

Cut(x, b, e) == [o \in Offsets |-> IF b <= o /\ o < e THEN None ELSE x[o]]

Overlay(x, y) == [o \in Offsets |-> IF y[o] = None THEN x[o] ELSE y[o]]

Init ==
    /\ map = [o \in Offsets |-> None]
    /\ delta = [o \in Offsets |-> None]

Assign(b, e, ptr, client) ==
    /\ map' = Assigned(map, b, e, ptr, client)
    /\ UNCHANGED delta

AssignDelta(b, e, ptr, client) ==
    /\ delta' = Assigned(delta, b, e, ptr, client)
    /\ UNCHANGED map

Remove(b, e) ==
    /\ map' = Cut(map, b, e)
    /\ UNCHANGED delta

Merge ==
    /\ map' = Overlay(map, delta)
    /\ UNCHANGED delta

Clear ==
    /\ delta' = [o \in Offsets |-> None]
    /\ UNCHANGED map

=============================================================================
