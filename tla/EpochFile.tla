----------------------------- MODULE EpochFile -------------------------------
(***************************************************************************)
(* What the burst buffer promises the ranks that share a file.  A rank's   *)
(* writes are its own until its next synchronisation.  A synchronisation   *)
(* is a round that every rank takes part in: the file of the round is the  *)
(* file of the round before it with the bytes that the ranks wrote in      *)
(* between, those of a higher rank on top, and this is what a rank sees    *)
(* when it has left the round.  Truncation is a round as well, decided by  *)
(* one rank.  A byte that is None is the byte of the backing file.         *)
(***************************************************************************)
EXTENDS Integers, Sequences

CONSTANTS Ranks, Root, Offsets, None

VARIABLES
    rounds,    \* rounds[k]: what round k was and the file it left
    mine,      \* mine[r]: what r wrote since the last round it left
    seen,      \* seen[r]: the file of the last round r left
    left,      \* left[r]: the number of rounds r left
    entered,   \* the ranks inside a synchronisation
    count      \* count[r]: the number of r's writes

vars == <<rounds, mine, seen, left, entered, count>>

Nothing  == [o \in Offsets |-> None]

Round(op, size, file) == [op |-> op, size |-> size, file |-> file]

FileOf(k) == IF k = 0 THEN Nothing ELSE rounds[k].file

\* The bytes of m on top of those of file, for the ranks of the set S.
Published(file, m, S) ==
    [o \in Offsets |->
        LET writers == {r \in S : m[r][o] # None}
        IN  IF writers = {} THEN file[o]
            ELSE m[CHOOSE r \in writers : \A q \in writers : q <= r][o]]

Cut(file, size) == [o \in Offsets |-> IF o < size THEN file[o] ELSE None]

Init ==
    /\ rounds = <<>>
    /\ mine = [r \in Ranks |-> Nothing]
    /\ seen = [r \in Ranks |-> Nothing]
    /\ left = [r \in Ranks |-> 0]
    /\ entered = {}
    /\ count = [r \in Ranks |-> 0]

\* The n-th write of r puts the byte <<r, n, o>> at each offset o of its extent.
Write(r, b, e) ==
    /\ r \notin entered
    /\ count' = [count EXCEPT ![r] = @ + 1]
    /\ mine' = [mine EXCEPT ![r] =
                  [o \in Offsets |-> IF b <= o /\ o < e THEN <<r, count[r], o>> ELSE @[o]]]
    /\ UNCHANGED <<left, entered, seen, rounds>>

\* The last rank to enter decides the round.  A slower rank may still be in the
\* round before it.
EnterSync(r) ==
    /\ r \notin entered
    /\ entered' = entered \cup {r}
    /\ left[r] = Len(rounds)
    /\ rounds' = IF \A q \in Ranks : q \in entered' /\ left[q] = left[r]
                 THEN Append(rounds, Round("sync", 0, Published(FileOf(Len(rounds)), mine, Ranks)))
                 ELSE rounds
    /\ UNCHANGED <<mine, seen, left, count>>

LeaveSync(r) ==
    /\ r \in entered
    /\ entered' = entered \ {r}
    /\ left[r] < Len(rounds)
    /\ left' = [left EXCEPT ![r] = @ + 1]
    /\ mine' = [mine EXCEPT ![r] = Nothing]
    /\ seen' = [seen EXCEPT ![r] = FileOf(left[r] + 1)]
    /\ UNCHANGED <<rounds, count>>

CutAt(r, size) ==
    /\ left' = [left EXCEPT ![r] = @ + 1]
    /\ mine' = [mine EXCEPT ![r] = Cut(@, size)]
    /\ seen' = [seen EXCEPT ![r] = Cut(@, size)]

Truncate(size) ==
    /\ Root \notin entered
    /\ left[Root] = Len(rounds)
    /\ CutAt(Root, size)
    /\ rounds' = Append(rounds, Round("truncate", size, Cut(FileOf(Len(rounds)), size)))
    /\ UNCHANGED <<entered, count>>

\* The other ranks learn of the truncation when they call it themselves.
Truncated(r) ==
    /\ r # Root /\ r \notin entered
    /\ left[r] < Len(rounds)
    /\ rounds[left[r] + 1].op = "truncate"
    /\ CutAt(r, rounds[left[r] + 1].size)
    /\ UNCHANGED <<rounds, entered, count>>

Next ==
    \/ \E r \in Ranks :
          \/ \E b, e \in Offsets : Write(r, b, e + 1)
          \/ EnterSync(r)
          \/ LeaveSync(r)
          \/ Truncated(r)
    \/ \E size \in {0} \cup {o + 1 : o \in Offsets} : Truncate(size)

Spec == Init /\ [][Next]_vars

=============================================================================
