----------------------------- MODULE ExtentTree ------------------------------
(***************************************************************************)
(* The interval index of a file (extent_tree.hpp).  A node says that the   *)
(* file bytes b .. e - 1 are the bytes ptr .. ptr + (e - b) - 1 of the     *)
(* ring of a client.  The std::set of nodes, ordered by extent, is the set *)
(* of its nodes here, and an iterator is a node of the set or End.  An     *)
(* operation is an operator from the set of nodes before it to the set     *)
(* after it.                                                               *)
(***************************************************************************)
EXTENDS Integers, FiniteSets

Node(b, e, ptr, client) == [b |-> b, e |-> e, ptr |-> ptr, client |-> client]

End == [b |-> -1, e |-> -1, ptr |-> -1, client |-> -1]

Size(m) == m.e - m.b

Overlaps(m, v) == m.b < v.e /\ v.b < m.e

\* The order of the set: every byte of m is before every byte of v.
Precedes(m, v) == m.e <= v.b

\* v continues m, in the file and in the ring of the same client.
FollowedBy(m, v) ==
    /\ m.e = v.b
    /\ m.client = v.client
    /\ m.ptr + Size(m) = v.ptr

\* begin(), and the last node of the order.
First(T) == IF T = {} THEN End ELSE CHOOSE m \in T : \A k \in T : m.b <= k.b
Back(T) == IF T = {} THEN End ELSE CHOOSE m \in T : \A k \in T : k.b <= m.b

LowerBound_ByBegin(T, v) == First({m \in T : m.b >= v.b})
LowerBound(T, v) == First({m \in T : ~ Precedes(m, v)})

\* The first node of T that shares a byte with v.
Find(T, v) ==
    LET it == LowerBound(T, v)
    IN  IF it # End /\ ~ Overlaps(it, v) THEN End ELSE it

BackEnd(T) == IF T = {} THEN 0 ELSE Back(T).e

-----------------------------------------------------------------------------
(* What is left of a node m when the bytes of v are taken out of it. *)

Rear_SamePtr(m, v) == IF v.e < m.e THEN {[m EXCEPT !.b = v.e]} ELSE {}

Front(m, v) == IF m.b < v.b THEN {[m EXCEPT !.e = v.b]} ELSE {}
Rear(m, v)  == IF v.e < m.e
               THEN {[m EXCEPT !.b = v.e, !.ptr = @ + (v.e - m.b)]} ELSE {}

\* The loop of do_insert and remove: nodes are visited from it on, as long as
\* they overlap v.
Hit(T, it, v) ==
    IF it # End /\ Overlaps(it, v)
    THEN {m \in T : m.b >= it.b /\ Overlaps(m, v)}
    ELSE {}

Carve(T, it, v) ==
    LET hit == Hit(T, it, v)
    IN  (T \ hit) \cup UNION {Front(m, v) \cup Rear(m, v) : m \in hit}

Remove(T, v) == Carve(T, LowerBound(T, v), v)

-----------------------------------------------------------------------------
(* Insertion.  Its result is the new set of nodes with the iterator that   *)
(* do_insert returns.                                                      *)

\* std::set::insert: nothing is inserted if a node is equivalent to v, and the
\* iterator is then that node.
SetInsert(T, v) ==
    LET same == {m \in T : ~ Precedes(m, v) /\ ~ Precedes(v, m)}
    IN  IF same = {} THEN [nodes |-> T \cup {v}, it |-> v]
                     ELSE [nodes |-> T, it |-> First(same)]

Join(s, m, n) ==
    LET both == [m EXCEPT !.e = n.e]
    IN  [nodes |-> (s.nodes \ {m, n}) \cup {both}, it |-> both]

CoalesceWithPrev(s) ==
    LET prev == Back({m \in s.nodes : m.b < s.it.b})
    IN  IF prev # End /\ FollowedBy(prev, s.it) THEN Join(s, prev, s.it) ELSE s

CoalesceWithNext(s) ==
    LET next == First({m \in s.nodes : m.b > s.it.b})
    IN  IF next # End /\ FollowedBy(s.it, next) THEN Join(s, s.it, next) ELSE s

DoInsert(T, it, v) ==
    CoalesceWithNext(CoalesceWithPrev(SetInsert(Carve(T, it, v), v)))

Add(T, v) == DoInsert(T, LowerBound(T, v), v).nodes

-----------------------------------------------------------------------------
(* Merging another tree into this one: its nodes are inserted in order,    *)
(* and the iterator where the next one goes is carried along instead of    *)
(* being looked up again.                                                  *)

\* while (out_it != end && !comp(*in_it, *out_it)) ++out_it
Advance(s, v) ==
    IF s.it = End THEN End
    ELSE First({m \in s.nodes : m.b >= s.it.b /\ Precedes(v, m)})

\* One pass of the loop: the node in of U is inserted at it, until there is none.
MergeStep(U, s) ==
    LET ins == DoInsert(s.nodes, s.it, s.in)
    IN  IF s.in = End THEN s
        ELSE [nodes |-> ins.nodes,
              it    |-> Advance(ins, s.in),
              in    |-> First({m \in U : m.b > s.in.b})]

\* The state after n passes of the loop over U that starts at it.
Passes(T, U, it) ==
    LET after[n \in 0 .. Cardinality(U)] ==
            IF n = 0 THEN [nodes |-> T, it |-> it, in |-> First(U)]
            ELSE MergeStep(U, after[n - 1])
    IN  after

Merge_FromBegin(T, U) == Passes(T, U, First(T))[Cardinality(U)].nodes

Merge(T, U) ==
    IF U = {} THEN T
    ELSE Passes(T, U, LowerBound(T, First(U)))[Cardinality(U)].nodes

-----------------------------------------------------------------------------
(* What a tree says of a byte. *)

Covers(m, o) == m.b <= o /\ o < m.e

\* The ring byte that holds file byte o.
Location(m, o) == <<m.client, m.ptr + (o - m.b)>>

Hole == <<>>

LocationOf(T, o) ==
    IF \E m \in T : Covers(m, o)
    THEN Location(CHOOSE m \in T : Covers(m, o), o)
    ELSE Hole

-----------------------------------------------------------------------------
(* Well-formedness. *)

Disjoint(T) == \A m, k \in T : m = k \/ ~ Overlaps(m, k)
NonEmpty(T) == \A m \in T : m.b < m.e

\* No two nodes could be one.
Coalesced(T) == \A m, k \in T : ~ FollowedBy(m, k)

=============================================================================
