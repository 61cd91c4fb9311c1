---------------------------- MODULE SenseBarrier -----------------------------
(***************************************************************************)
(* The sense-reversing barrier (utils/sense_barrier.hpp).  Each thread     *)
(* keeps the sense of its next round; the last to come sets the counter    *)
(* anew and then publishes the round's sense, which the others spin on.    *)
(* The atomic accesses are actions of their own.  The relaxed store of the *)
(* counter is ordered before the release of the sense, which a thread has  *)
(* acquired before it can touch the counter again.                         *)
(***************************************************************************)
EXTENDS Integers, FiniteSets

CONSTANT Threads

ASSUME SenseBarrierAssumption == IsFiniteSet(Threads) /\ Threads # {}

nthreads == Cardinality(Threads)

VARIABLES
    waits,      \* waits_
    sense,      \* sense_
    tl_sense,   \* tl_sense_ of each thread
    my_sense,   \* its local variable in wait()
    pc          \* "away", or where a thread is in wait(): "sub", "spin", "reset", "publish"

vars == <<waits, sense, tl_sense, my_sense, pc>>

Init ==
    /\ waits = nthreads
    /\ sense = TRUE
    /\ tl_sense = [t \in Threads |-> FALSE]
    /\ my_sense = [t \in Threads |-> FALSE]
    /\ pc = [t \in Threads |-> "away"]

Call_KeepsSense(t) ==
    /\ pc[t] = "away"
    /\ my_sense' = [my_sense EXCEPT ![t] = tl_sense[t]]
    /\ pc' = [pc EXCEPT ![t] = "sub"]
    /\ UNCHANGED <<waits, sense, tl_sense>>

\* my_sense = tl_sense_.get(); tl_sense_.set(!my_sense)
Call(t) ==
    /\ pc[t] = "away"
    /\ my_sense' = [my_sense EXCEPT ![t] = tl_sense[t]]
    /\ tl_sense' = [tl_sense EXCEPT ![t] = ~ tl_sense[t]]
    /\ pc' = [pc EXCEPT ![t] = "sub"]
    /\ UNCHANGED <<waits, sense>>

FetchSub_OffByOne(t) ==
    /\ pc[t] = "sub"
    /\ waits' = waits - 1
    /\ pc' = [pc EXCEPT ![t] = IF waits = 0 THEN "reset" ELSE "spin"]
    /\ UNCHANGED <<sense, tl_sense, my_sense>>

\* waits_.fetch_sub(1) == 1
FetchSub(t) ==
    /\ pc[t] = "sub"
    /\ waits' = waits - 1
    /\ pc' = [pc EXCEPT ![t] = IF waits = 1 THEN "reset" ELSE "spin"]
    /\ UNCHANGED <<sense, tl_sense, my_sense>>

Reset_Publishes(t) ==
    /\ pc[t] = "reset"
    /\ sense' = my_sense[t]
    /\ pc' = [pc EXCEPT ![t] = "publish"]
    /\ UNCHANGED <<waits, tl_sense, my_sense>>

\* waits_.store(nthreads_)
Reset(t) ==
    /\ pc[t] = "reset"
    /\ waits' = nthreads
    /\ pc' = [pc EXCEPT ![t] = "publish"]
    /\ UNCHANGED <<sense, tl_sense, my_sense>>

\* sense_.store(my_sense)
Publish(t) ==
    /\ pc[t] = "publish"
    /\ sense' = my_sense[t]
    /\ pc' = [pc EXCEPT ![t] = "away"]
    /\ UNCHANGED <<waits, tl_sense, my_sense>>

\* while (my_sense != sense_.load())
SpinEnds(t) ==
    /\ pc[t] = "spin"
    /\ my_sense[t] = sense
    /\ pc' = [pc EXCEPT ![t] = "away"]
    /\ UNCHANGED <<waits, sense, tl_sense, my_sense>>

Wait(t) == FetchSub(t) \/ Reset(t) \/ Publish(t) \/ SpinEnds(t)

Next == \E t \in Threads : Call(t) \/ Wait(t)

Spec == Init /\ [][Next]_vars

\* Threads in wait() run; whether a thread calls wait() is its own affair.
FairSpec == Spec /\ \A t \in Threads : WF_vars(Wait(t))

-----------------------------------------------------------------------------
(* Properties. *)

TypeOK ==
    /\ waits \in 0 .. nthreads
    /\ sense \in BOOLEAN
    /\ tl_sense \in [Threads -> BOOLEAN]
    /\ my_sense \in [Threads -> BOOLEAN]
    /\ pc \in [Threads -> {"away", "sub", "spin", "reset", "publish"}]

\* The round that sense has not reached yet is the one a thread in wait() is
\* there for, unless it spins and is free to go.
ThisRound(t) == pc[t] \in {"sub", "spin", "reset", "publish"} /\ my_sense[t] # sense

\* Those of them that have counted themselves.
Counted == {t \in Threads : pc[t] \in {"spin", "reset", "publish"} /\ my_sense[t] # sense}

\* The counter and the senses agree, also while some threads are still leaving
\* a round and others have come for the next: a thread's own sense is the
\* round's or the one before, and the counter is what is missing of the round,
\* or is ready for the next once the last thread has set it.
RoundsAgree ==
    /\ \A t \in Threads :
          /\ pc[t] = "away" => tl_sense[t] # sense
          /\ pc[t] \in {"sub", "reset", "publish"} => my_sense[t] # sense
          /\ pc[t] # "away" => tl_sense[t] # my_sense[t]
    /\ \A t \in Threads :
          pc[t] \in {"reset", "publish"} =>
              /\ Counted = Threads
              /\ \A u \in Threads \ {t} : pc[u] = "spin"
              /\ waits = IF pc[t] = "reset" THEN 0 ELSE nthreads
    /\ (\A t \in Threads : pc[t] \notin {"reset", "publish"}) =>
          /\ waits = nthreads - Cardinality(Counted)
          /\ waits > 0

\* Where the rendezvous sees a thread.
At(t) ==
    IF pc[t] = "away" THEN "away"
    ELSE IF my_sense[t] = sense THEN "free"
    ELSE "waiting"

where == [t \in Threads |-> At(t)]

Barrier == INSTANCE Rendezvous WITH at <- where

\* The barrier implements the rendezvous: no thread leaves a round before all
\* have come to it, however the rounds overlap.
ImplementsRendezvous == Barrier!Spec

\* Once all threads are in wait(), each of them leaves it: no thread misses the
\* change of sense because the next round has begun.
AllLeave ==
    \A t \in Threads : (\A u \in Threads : ThisRound(u)) ~> pc[t] = "away"

=============================================================================
