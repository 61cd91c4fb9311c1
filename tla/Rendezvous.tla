----------------------------- MODULE Rendezvous ------------------------------
(***************************************************************************)
(* What a barrier that is used again and again promises: a thread that has *)
(* come waits for all the others to have come; then all may go, and one    *)
(* that has gone may come again before the others have gone.               *)
(***************************************************************************)

CONSTANT Threads

VARIABLE at    \* at[t]: "away", "waiting" or "free"

Init == at = [t \in Threads |-> "away"]

Come(t) ==
    /\ at[t] = "away"
    /\ at' = [at EXCEPT ![t] = "waiting"]

\* All are there; whoever saw that first goes at once.
Open(t) ==
    /\ \A u \in Threads : at[u] = "waiting"
    /\ at' = [u \in Threads |-> IF u = t THEN "away" ELSE "free"]

Go(t) ==
    /\ at[t] = "free"
    /\ at' = [at EXCEPT ![t] = "away"]

Next == \E t \in Threads : Come(t) \/ Open(t) \/ Go(t)

Spec == Init /\ [][Next]_at

=============================================================================
