------------------------------- MODULE WholeFile -------------------------------
(***************************************************************************)
(* Reads of a file from its position to its end (zpp/file.h, read()):      *)
(* the size is asked for once, system calls transfer less than they are    *)
(* asked for, and other processes append to the file and truncate it.      *)
(***************************************************************************)
EXTENDS Integers, Sequences

CONSTANTS MaxWhole,     \* bound of the size of the file
          InitialSize   \* initial_vector_size, where the size is not known

ASSUME WholeFileAssumption == MaxWhole \in Nat /\ InitialSize \in Nat \ {0}

VARIABLES
    whole,      \* the bytes of the file
    from,       \* the position that the read began at
    loop,       \* where the read is: "begin", "inner", "outer", "returned", "threw", "stuck"
    vector,     \* data, the bytes
    bytesRead,  \* bytes_read
    inner,      \* bytes_to_read and bytes_read of the inner call
    changed     \* whether the file was changed since the read began

wholeVars == <<whole, from, loop, vector, bytesRead, inner, changed>>

Garbage0 == 0           \* of a resized vector
Bytes(n) == [i \in 1 .. n |-> i]
ResizedTo(v, n) == [i \in 1 .. n |-> IF i <= Len(v) THEN v[i] ELSE Garbage0]
NoInner == [wanted |-> 0, done |-> 0]

WholeIdle ==
    /\ whole = <<>> /\ from = 0 /\ loop = "begin" /\ vector = <<>> /\ bytesRead = 0
    /\ inner = NoInner /\ changed = FALSE

WholeInit ==
    /\ whole \in {Bytes(n) : n \in 0 .. MaxWhole}
    /\ from \in 0 .. MaxWhole
    /\ loop = "begin" /\ vector = <<>> /\ bytesRead = 0 /\ inner = NoInner /\ changed = FALSE

\* The size of the vector: what is left of the file, or a guess when it has no
\* size.
SizeAtFirst == IF whole = <<>> THEN InitialSize ELSE Len(whole) - from

\* Behind the end there is nothing to read.
BeginRead ==
    /\ loop = "begin"
    /\ IF whole # <<>> /\ from >= Len(whole) THEN loop' = "returned" /\ UNCHANGED vector
       ELSE loop' = "outer" /\ vector' = ResizedTo(<<>>, SizeAtFirst)
    /\ UNCHANGED <<whole, from, bytesRead, inner, changed>>

\* The vector is to be filled from bytes_read on.  When it is shorter than that,
\* bytes_to_read wraps around, and a read of as much is no more followed.
CallRead ==
    /\ loop = "outer"
    /\ IF Len(vector) < bytesRead THEN loop' = "stuck" /\ UNCHANGED inner
       ELSE loop' = "inner" /\ inner' = [wanted |-> Len(vector) - bytesRead, done |-> 0]
    /\ UNCHANGED <<whole, from, vector, bytesRead, changed>>

AtEnd == from + bytesRead + inner.done >= Len(whole)

\* One system call that transfers something.
TransferSome ==
    /\ loop = "inner" /\ inner.done < inner.wanted /\ ~AtEnd
    /\ \E n \in 1 .. inner.wanted - inner.done :
          /\ from + bytesRead + inner.done + n <= Len(whole)
          /\ vector' = [i \in 1 .. Len(vector) |->
                           IF i - bytesRead - inner.done \in 1 .. n THEN whole[from + i] ELSE vector[i]]
          /\ inner' = [inner EXCEPT !.done = @ + n]
    /\ UNCHANGED <<whole, from, loop, bytesRead, changed>>

TransferThrows ==
    /\ loop = "inner" /\ inner.done < inner.wanted
    /\ loop' = "threw"
    /\ UNCHANGED <<whole, from, vector, bytesRead, inner, changed>>

CutTo_Full(n) == vector
CutTo(n)      == ResizedTo(vector, n)
NewSize(n)    == (n \div 2) * 3

\* The inner read comes back: with less than was wanted the file has ended and
\* the vector is cut; else it is made half as large again and the loop goes
\* on.  It never does from a vector that is full and does not grow.
ReadReturns ==
    /\ loop = "inner" /\ (inner.done = inner.wanted \/ AtEnd)
    /\ bytesRead' = bytesRead + inner.done
    /\ inner' = NoInner
    /\ IF inner.done < inner.wanted
       THEN vector' = CutTo(bytesRead') /\ loop' = "returned"
       ELSE /\ vector' = ResizedTo(vector, NewSize(Len(vector)))
            /\ loop' = IF inner.wanted = 0 /\ NewSize(Len(vector)) = Len(vector) THEN "stuck" ELSE "outer"
    /\ UNCHANGED <<whole, from, changed>>

\* Another process appends to the file or truncates it.
OtherChanges ==
    /\ loop \in {"outer", "inner"} /\ ~changed
    /\ whole' \in {Bytes(n) : n \in 0 .. MaxWhole} \ {whole}
    /\ changed' = TRUE
    /\ UNCHANGED <<from, loop, vector, bytesRead, inner>>

WholeNext ==
    \/ BeginRead \/ CallRead \/ TransferSome \/ TransferThrows \/ ReadReturns \/ OtherChanges

WholeSpec == WholeInit /\ [][WholeNext]_wholeVars

-----------------------------------------------------------------------------
(* Properties. *)

\* A read that returns has the bytes of the file from its position on and not
\* one of the resized vector that was never read, all of them if nobody
\* changed the file meanwhile; and it returns, unless the vector was filled at
\* a size of one or of three, which does not grow (zpp/file.h:1057-1145).
ReadsWhole ==
    /\ loop = "returned" =>
          /\ \A i \in 1 .. Len(vector) : vector[i] = from + i
          /\ ~changed => \/ from + Len(vector) = Len(whole)
                         \/ from >= Len(whole) /\ vector = <<>>
    /\ loop = "stuck" => bytesRead \in {1, 3}

=============================================================================
