----------------------------- MODULE AsyncReads ------------------------------
(***************************************************************************)
(* What reads that do not wait promise: a read of a rank's block into a    *)
(* buffer is under way from its start on and may complete at any time; a   *)
(* wait completes all that are under way, whoever started them, and then   *)
(* each buffer holds the block that was asked for.                         *)
(***************************************************************************)
EXTENDS FiniteSets

CONSTANTS
    Slots,     \* buffers
    Ranks

VARIABLES
    data,      \* data[s]: the ranks whose block buffer s holds: none or one
    pending    \* the reads under way: pairs of a buffer and a rank

vars == <<data, pending>>

Reads == Slots \X Ranks

Init == data = [s \in Slots |-> {}] /\ pending = {}

\* The buffers after the reads of done are complete.
After(done) ==
    [s \in Slots |-> IF \E r \in Ranks : <<s, r>> \in done
                     THEN {r \in Ranks : <<s, r>> \in done} ELSE data[s]]

Idle(s) == \A r \in Ranks : <<s, r>> \notin pending

\* A read starts, or is complete at once.
Start(s, r) ==
    /\ Idle(s)
    /\ \/ pending' = pending \cup {<<s, r>>} /\ UNCHANGED data
       \/ data' = After({<<s, r>>}) /\ UNCHANGED pending

Complete(done) ==
    /\ done \subseteq pending
    /\ data' = After(done)
    /\ pending' = pending \ done

Wait == Complete(pending)

\* A read that waits, for itself and all others.
StartAndWait(s, r) ==
    /\ Idle(s)
    /\ data' = After(pending \cup {<<s, r>>})
    /\ pending' = {}

Next ==
    \/ \E s \in Slots, r \in Ranks : Start(s, r) \/ StartAndWait(s, r)
    \/ \E done \in SUBSET pending : Complete(done)

Spec == Init /\ [][Next]_vars

=============================================================================
